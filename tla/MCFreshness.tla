----------------------------- MODULE MCFreshness -----------------------------
(***************************************************************************)
(* What a buyer, a gateway or a reader was told a while ago against what   *)
(* holds now, in three scenes of which a behaviour plays one: a settlement *)
(* that waits for its attestation (Grace), a quote from a cached record    *)
(* (Quotes), and a read that callers share (SharedRead).  The first two    *)
(* start from a registered service whose owner keeps changing the money    *)
(* terms; the witness and the owner stay put, since no lookup reads them.  *)
(***************************************************************************)
EXTENDS Grace, Quotes, SharedRead, TLC

VARIABLE scene

mcVars == <<graceVars, reads, cache, quote, readVars, scene>>

Owner == CHOOSE a \in Account : TRUE
Witness == CHOOSE a \in Account : a # Owner

\* Bound: the last block time of the quote scene.
QuoteHorizon == MaxTime - 1

Symmetry == Permutations(Account \ {Owner, Witness})

MCInit ==
  /\ scene \in {"settlement", "quote", "read"}
  /\ ReadInit
  /\ scene # "read" => memo = "catalog"
  /\ now = 0
  /\ servicesCount = MaxServices
  /\ \E price \in Price :
       /\ scene = "read" => price = CHOOSE p \in Price : TRUE
       /\ services = [id \in ServiceId |->
            [Unregistered EXCEPT !.owner = Owner, !.active = TRUE, !.accepts = price,
                                 !.paymentTarget = Owner, !.attestor = Witness]]
  /\ settled = [key \in SettlementKey |-> 0]
  /\ fairAt = [key \in SettlementKey |-> -1]
  /\ seenPayments = [id \in ServiceId |-> {}]
  /\ totalCalls = [id \in ServiceId |-> 0]
  /\ successCalls = [id \in ServiceId |-> 0]
  /\ attestations = [id \in ServiceId |-> <<>>]
  /\ attHead = [id \in ServiceId |-> 0]
  /\ reads = {}
  /\ cache = [id \in ServiceId |-> {}]
  /\ quote = {}

OwnerMovesTerms ==
  \E sender \in Account, id \in ServiceId :
    \/ \E target \in Account : SetPaymentTarget(sender, id, target)
    \/ \E price \in Price : SetAccepts(sender, id, price)

SettlementNext ==
  /\ scene = "settlement"
  /\ \/ \E payer, payTo \in Account, id \in ServiceId, nonce \in Nonce, amount \in Amount :
          GracePay(payer, id, nonce, payTo, amount)
     \/ (OwnerMovesTerms \/ Tick) /\ UNCHANGED <<settled, scoreVars, fairAt>>
  /\ UNCHANGED <<reads, cache, quote, readVars>>

QuoteNext ==
  /\ scene = "quote"
  /\ \/ OwnerMovesTerms /\ UNCHANGED <<reads, cache, quote>>
     \/ GatewayNext
     \/ now < QuoteHorizon /\ QuotesTick
  /\ UNCHANGED <<settled, scoreVars, fairAt, readVars>>

SharedReadNext ==
  /\ scene = "read"
  /\ ReadNext
  /\ UNCHANGED <<graceVars, reads, cache, quote>>

MCNext == (SettlementNext \/ QuoteNext \/ SharedReadNext) /\ UNCHANGED scene

MCSpec == MCInit /\ [][MCNext]_mcVars

=============================================================================
