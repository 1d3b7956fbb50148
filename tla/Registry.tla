------------------------------ MODULE Registry ------------------------------
(***************************************************************************)
(* AgentGateRegistry with the settlements of PaymentRouter: who may record *)
(* an outcome for a service, which settlement must back it, and what the   *)
(* score and the ring of recent outcomes become.  The service records and  *)
(* their clock are those of ServiceTerms.                                  *)
(***************************************************************************)
EXTENDS ServiceTerms, Sequences, FiniteSets

CONSTANTS
  Nonce,            \* invoice nonces
  Amount,           \* payment amounts
  MaxSettlements,   \* bound: settlements in a behaviour
  MaxAttestations,  \* capacity of the ring of outcomes
  MaxCalls          \* type(uint64).max

ASSUME AmountAssumption == Amount \subseteq Nat \ {0}
ASSUME RingAssumption == MaxAttestations \in Nat \ {0}
ASSUME CallsAssumption == MaxCalls \in Nat

VARIABLES
  settled,       \* settledAmount, by settlement key; 0 = never
  seenPayments,  \* by service, the <<nonce, payer>> already attested
  totalCalls,
  successCalls,
  attestations,  \* _attestations: the ring's slots
  attHead        \* _attHead: the next slot to write

scoreVars == <<seenPayments, totalCalls, successCalls, attestations, attHead>>
vars == <<termsVars, settled, scoreVars>>

\* <<serviceId, nonce, payer, payTo>>, which the contract hashes.
SettlementKey == ServiceId \X Nonce \X Account \X Account

\* paymentTxHash is for display; here the payment it settles stands for it.
Outcome == [nonce : Nonce, payer : Account, success : BOOLEAN, timestamp : 0 .. MaxTime]

-----------------------------------------------------------------------------
(***************************************************************************)
(* The ring of outcomes.                                                   *)
(***************************************************************************)

\* Slots are 1-based here, the head counts from 0 as in the code.
PushAttestation(id, outcome) ==
  LET ring == attestations[id]
      head == attHead[id]
  IN  /\ attestations' = [attestations EXCEPT ![id] =
           IF Len(ring) < MaxAttestations
             THEN Append(ring, outcome)
             ELSE [ring EXCEPT ![head + 1] = outcome]]
      /\ attHead' = [attHead EXCEPT ![id] = (head + 1) % MaxAttestations]

\* Mutant of GetAttestations: starts at the slot the head points at.
GetAttestationsFromHead(id) ==
  LET n == Len(attestations[id])
  IN  [i \in 1 .. n |-> attestations[id][((attHead[id] + n - i + 1) % n) + 1]]

\* getAttestations: from the newest, walking back and wrapping.
GetAttestations(id) ==
  LET n == Len(attestations[id])
  IN  [i \in 1 .. n |-> attestations[id][((attHead[id] + n - i) % n) + 1]]

-----------------------------------------------------------------------------
(***************************************************************************)
(* The settlement that backs an outcome.                                   *)
(***************************************************************************)

\* Mutant of PaidFor: only the live payee's settlement counts.
PaidForLiveOnly(s, id, nonce, payer) ==
  settled[<<id, nonce, payer, EffectivePaymentTarget(s)>>]

\* What the payer settled for this invoice with the live payee or, if nothing,
\* with the payee the last rotation displaced.
PaidFor(s, id, nonce, payer) ==
  LET live == settled[<<id, nonce, payer, EffectivePaymentTarget(s)>>]
      displaced == DisplacedPaymentTarget(s)
  IN  IF live = 0 /\ displaced # NoOne
        THEN settled[<<id, nonce, payer, displaced>>]
        ELSE live

\* The lower of the live price and the one the last reprice displaced, if any.
FloorWei(s) ==
  LET live == EffectiveNativePrice(s)
      displaced == DisplacedNativePrice(s)
  IN  IF displaced # 0 /\ displaced < live THEN displaced ELSE live

\* Those whose own payments must not score: `s` is the record recordAttestation
\* has just folded, so its stored attestor is the live one.
Interested(s) ==
  {s.owner, EffectivePaymentTarget(s), s.attestor, DisplacedPaymentTarget(s)} \ {NoOne}

\* Mutant of BackingSettlement: any amount will do.
BackingSettlementNoFloor(s, id, nonce, payer) ==
  PaidFor(s, id, nonce, payer) # 0 /\ payer \notin Interested(s)

\* Mutant of BackingSettlement: a paused service is not scored.
BackingSettlementIfActive(s, id, nonce, payer) ==
  /\ s.active
  /\ PaidFor(s, id, nonce, payer) # 0
  /\ PaidFor(s, id, nonce, payer) >= FloorWei(s)
  /\ payer \notin Interested(s)

BackingSettlement(s, id, nonce, payer) ==
  /\ PaidFor(s, id, nonce, payer) # 0
  /\ PaidFor(s, id, nonce, payer) >= FloorWei(s)
  /\ payer \notin Interested(s)

-----------------------------------------------------------------------------
(***************************************************************************)
(* The transactions.                                                       *)
(***************************************************************************)

\* The counter of uint64 that pins at its maximum.
Saturating(n) == IF n = MaxCalls THEN n ELSE n + 1

\* PaymentRouter.pay; the service id is not looked up.  A payTo that refuses the
\* value reverts the whole call.
Pay(payer, id, nonce, payTo, amount) ==
  LET key == <<id, nonce, payer, payTo>> IN
  /\ Cardinality({k \in SettlementKey : settled[k] # 0}) < MaxSettlements
  /\ settled[key] = 0
  /\ settled' = [settled EXCEPT ![key] = amount]
  /\ UNCHANGED <<termsVars, scoreVars>>

RecordAttestation(sender, id, nonce, payer, success) ==
  LET s == PromoteAttestor(services[id]) IN
  /\ Registered(id)
  /\ sender = s.attestor
  /\ BackingSettlement(s, id, nonce, payer)
  /\ <<nonce, payer>> \notin seenPayments[id]
  /\ services' = [services EXCEPT ![id] = s]
  /\ seenPayments' = [seenPayments EXCEPT ![id] = @ \cup {<<nonce, payer>>}]
  /\ totalCalls' = [totalCalls EXCEPT ![id] = Saturating(@)]
  /\ successCalls' = IF success
                       THEN [successCalls EXCEPT ![id] = Saturating(@)]
                       ELSE successCalls
  /\ PushAttestation(id, [nonce |-> nonce, payer |-> payer,
                          success |-> success, timestamp |-> now])
  /\ UNCHANGED <<now, servicesCount, settled>>

-----------------------------------------------------------------------------

Init ==
  /\ TermsInit
  /\ settled = [key \in SettlementKey |-> 0]
  /\ seenPayments = [id \in ServiceId |-> {}]
  /\ totalCalls = [id \in ServiceId |-> 0]
  /\ successCalls = [id \in ServiceId |-> 0]
  /\ attestations = [id \in ServiceId |-> <<>>]
  /\ attHead = [id \in ServiceId |-> 0]

Next ==
  \/ TermsNext /\ UNCHANGED <<settled, scoreVars>>
  \/ \E payer, payTo \in Account, id \in ServiceId, nonce \in Nonce, amount \in Amount :
       Pay(payer, id, nonce, payTo, amount)
  \/ \E sender, payer \in Account, id \in ServiceId, nonce \in Nonce, success \in BOOLEAN :
       RecordAttestation(sender, id, nonce, payer, success)

Spec == Init /\ [][Next]_vars

-----------------------------------------------------------------------------
(***************************************************************************)
(* Properties.                                                             *)
(***************************************************************************)

\* Every variable has its type; the ring never outgrows its capacity and its
\* head points at the slot after the newest outcome.
TypeOK ==
  /\ TermsTypeOK
  /\ settled \in [SettlementKey -> Nat]
  /\ seenPayments \in [ServiceId -> SUBSET (Nonce \X Account)]
  /\ totalCalls \in [ServiceId -> 0 .. MaxCalls]
  /\ successCalls \in [ServiceId -> 0 .. MaxCalls]
  /\ attestations \in [ServiceId -> Seq(Outcome)]
  /\ attHead \in [ServiceId -> 0 .. MaxAttestations - 1]
  /\ \A id \in ServiceId :
       LET n == Len(attestations[id])
       IN  n <= MaxAttestations /\ (n < MaxAttestations => attHead[id] = n)

\* Every point of a score was bought: its payer settled that very invoice with
\* somebody other than itself, for no less than some price the registry lists
\* (the lookups and refusals of _requireBackingSettlement, taken together with
\* any rotation that was live or displaced when the point was recorded).
EveryPointWasPaidFor ==
  \A id \in ServiceId, nonce \in Nonce, payer \in Account :
    <<nonce, payer>> \in seenPayments[id]
      => \E payee \in Account \ {payer}, price \in Price :
           settled[<<id, nonce, payer, payee>>] >= price

\* The counters say how many settlements were attested, up to their width, and
\* never show more successes than calls (one score per settlement, saturating
\* together).
CountersMatchSettlements ==
  \A id \in ServiceId :
    LET attested == Cardinality(seenPayments[id]) IN
    /\ totalCalls[id] = IF attested < MaxCalls THEN attested ELSE MaxCalls
    /\ successCalls[id] <= totalCalls[id]

\* The counters and getAttestations implement the abstract scoreboard: the ring
\* with its wrapping head is the list of the latest outcomes, newest first.
Board == INSTANCE Scoreboard WITH
  recent <- [id \in ServiceId |-> GetAttestations(id)]

ImplementsScoreboard == Board!Spec

\* The live witness of a service could record this payment now.
Attestable(id, nonce, payer) ==
  LET s == PromoteAttestor(services[id]) IN
  /\ Registered(id)
  /\ BackingSettlement(s, id, nonce, payer)
  /\ <<nonce, payer>> \notin seenPayments[id]

\* The payer itself acted on this payment: it accepted the service, or settled
\* the same invoice with another address.
PayerActs(id, nonce, payer) ==
  \/ services'[id].owner = payer
  \/ \E payTo \in Account :
       settled'[<<id, nonce, payer, payTo>>] # settled[<<id, nonce, payer, payTo>>]

\* A payment the live witness can attest stays attestable by the same witness
\* through every transaction of the owner or of anybody but its payer: a bad
\* outcome cannot be censored by pausing, repricing, rotating or handing over
\* the service (recordAttestation ignores `active`; rotations are delayed).
OnlyThePayerOrTimeCensors ==
  [][ \A id \in ServiceId, nonce \in Nonce, payer \in Account :
        Attestable(id, nonce, payer) /\ now' = now
          => \/ /\ Attestable(id, nonce, payer)'
                /\ EffectiveAttestor(services[id])' = EffectiveAttestor(services[id])
             \/ <<nonce, payer>> \in seenPayments'[id]
             \/ PayerActs(id, nonce, payer)
    ]_vars

=============================================================================
