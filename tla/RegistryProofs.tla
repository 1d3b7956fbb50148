--------------------------- MODULE RegistryProofs ---------------------------
(***************************************************************************)
(* Proofs about Registry, Grace and Devnet, for any accounts, prices,      *)
(* delays, ring capacity and bounds.  The invariant of the service records *)
(* is the one of ServiceTermsProofs; the scores, the ring, the history of  *)
(* fair settlements and the devnet add their own.                          *)
(***************************************************************************)
EXTENDS
  Grace, SelfPayment, Devnet, ServiceTermsProofs, Sums, FiniteSetTheorems, SequenceTheorems

\* The settlements and the counters.
ScoreOK ==
  /\ settled \in [SettlementKey -> Nat]
  /\ seenPayments \in [ServiceId -> SUBSET (Nonce \X Account)]
  /\ totalCalls \in [ServiceId -> 0 .. MaxCalls]
  /\ successCalls \in [ServiceId -> 0 .. MaxCalls]

\* The ring and its head.
RingOK ==
  /\ attestations \in [ServiceId -> Seq(Outcome)]
  /\ attHead \in [ServiceId -> 0 .. MaxAttestations - 1]
  /\ \A id \in ServiceId :
       LET n == Len(attestations[id])
       IN  n <= MaxAttestations /\ (n < MaxAttestations => attHead[id] = n)

RegistryInv ==
  /\ IInv
  /\ now <= MaxTime
  /\ ScoreOK
  /\ RingOK
  /\ EveryPointWasPaidFor

-----------------------------------------------------------------------------
(***************************************************************************)
(* The settlement that backs an outcome.                                   *)
(***************************************************************************)

\* A settlement that backs an outcome of a registered service was paid to
\* somebody other than its payer, for a price the service has listed.
LEMMA BackingWasPaid ==
  ASSUME IInv, ScoreOK, NEW id \in ServiceId, Registered(id),
         NEW nonce \in Nonce, NEW payer \in Account,
         BackingSettlement(PromoteAttestor(services[id]), id, nonce, payer)
  PROVE  \E payee \in Account \ {payer}, price \in Price :
           settled[<<id, nonce, payer, payee>>] >= price
<1> DEFINE s == PromoteAttestor(services[id])
           live == EffectivePaymentTarget(s)
           displaced == DisplacedPaymentTarget(s)
<1>1. RecordOK(s) /\ s.owner # NoOne
  BY PromoteAttestorOK DEF IInv, Registered
<1>2. s \in Service /\ s.paymentTarget # NoOne /\ s.accepts \in Price
  BY <1>1 DEF RecordOK, WellFormed, Service
<1>3. live \in Account /\ displaced \in Address
  BY <1>1, <1>2 DEF EffectivePaymentTarget, DisplacedPaymentTarget, Matured, RecordOK,
                    WellFormed, Service, Address
<1>4. FloorWei(s) \in Price
  <2>1. EffectiveNativePrice(s) \in Price
    BY <1>1, <1>2 DEF EffectiveNativePrice, Matured, RecordOK, WellFormed, Service
  <2>2. DisplacedNativePrice(s) \in Price \cup {0}
    BY <1>2 DEF DisplacedNativePrice, Service
  <2>3. QED
    BY <2>1, <2>2 DEF FloorWei
<1>5. payer # live /\ (displaced # NoOne => payer # displaced)
  BY <1>3, AccountAssumption DEF BackingSettlement, Interested
<1>6. \E payee \in {live, displaced} \ {NoOne} :
        PaidFor(s, id, nonce, payer) = settled[<<id, nonce, payer, payee>>]
  BY <1>3, AccountAssumption DEF PaidFor
<1>7. PaidFor(s, id, nonce, payer) >= FloorWei(s)
  BY DEF BackingSettlement
<1>8. QED
  BY <1>3, <1>4, <1>5, <1>6, <1>7 DEF Address

\* A settlement is made for good: pay writes a key at most once.
LEMMA PayKeepsSettlements ==
  ASSUME ScoreOK, NEW payer \in Account, NEW id \in ServiceId, NEW nonce \in Nonce,
         NEW payTo \in Account, NEW amount \in Amount, Pay(payer, id, nonce, payTo, amount)
  PROVE  /\ settled' \in [SettlementKey -> Nat]
         /\ \A key \in SettlementKey : settled[key] # 0 => settled'[key] = settled[key]
<1>1. <<id, nonce, payer, payTo>> \in SettlementKey /\ amount \in Nat
  BY AmountAssumption DEF SettlementKey
<1>2. QED
  BY <1>1 DEF Pay, ScoreOK

-----------------------------------------------------------------------------
(***************************************************************************)
(* The ring.                                                               *)
(***************************************************************************)

\* Pushing an outcome keeps the ring within its capacity and its head on the
\* slot after the newest outcome.
LEMMA PushAttestationOK ==
  ASSUME RingOK, NEW id \in ServiceId, NEW outcome \in Outcome,
         PushAttestation(id, outcome)
  PROVE  RingOK'
<1> DEFINE ring == attestations[id]
           head == attHead[id]
           pushed == IF Len(ring) < MaxAttestations
                       THEN Append(ring, outcome)
                       ELSE [ring EXCEPT ![head + 1] = outcome]
           next == (head + 1) % MaxAttestations
<1>1. /\ ring \in Seq(Outcome) /\ Len(ring) \in Nat /\ Len(ring) <= MaxAttestations
      /\ head \in 0 .. MaxAttestations - 1
      /\ Len(ring) < MaxAttestations => head = Len(ring)
  BY DEF RingOK
<1>2. next \in 0 .. MaxAttestations - 1
  BY <1>1, RingAssumption
<1>3. CASE Len(ring) < MaxAttestations
  <2>1. pushed \in Seq(Outcome) /\ Len(pushed) = Len(ring) + 1
    BY <1>1, <1>3
  <2>2. Len(pushed) < MaxAttestations => next = Len(pushed)
    BY <1>1, <1>3, <2>1, RingAssumption
  <2>3. QED
    BY <1>2, <1>1, <2>1, <2>2, <1>3, RingAssumption DEF PushAttestation, RingOK
<1>4. CASE ~(Len(ring) < MaxAttestations)
  <2>1. pushed = [ring EXCEPT ![head + 1] = outcome] /\ Len(ring) = MaxAttestations
    BY <1>1, <1>4, RingAssumption
  <2>2. pushed \in Seq(Outcome) /\ Len(pushed) = MaxAttestations
    BY <1>1, <2>1, RingAssumption
  <2>3. QED
    BY <1>2, <1>1, <2>2, RingAssumption DEF PushAttestation, RingOK
<1>5. QED
  BY <1>3, <1>4

-----------------------------------------------------------------------------
(***************************************************************************)
(* The inductive step, one lemma per kind of transaction.                  *)
(***************************************************************************)

\* The empty registry satisfies the invariant.
LEMMA InitRegistryInv == Init => RegistryInv
<1> SUFFICES ASSUME Init PROVE RegistryInv
  OBVIOUS
<1>1. IInv /\ now <= MaxTime
  BY InitIInv, BoundAssumption DEF Init, TermsInit
<1>2. ScoreOK
  BY CallsAssumption DEF Init, ScoreOK
<1>3. RingOK
  BY RingAssumption DEF Init, RingOK
<1>4. EveryPointWasPaidFor
  BY DEF Init, EveryPointWasPaidFor
<1>5. QED
  BY <1>1, <1>2, <1>3, <1>4 DEF RegistryInv

\* A step that moves no score keeps what the scores say.
LEMMA TermsKeepRegistryInv ==
  ASSUME RegistryInv, TermsNext, UNCHANGED <<settled, scoreVars>>
  PROVE  RegistryInv'
<1>1. IInv'
  BY NextIInv DEF RegistryInv
<1>2. now' <= MaxTime
  <2>1. now' = now \/ Tick
    BY TransactionTerms DEF TermsNext, RegisterService, RegistryInv
  <2>2. QED
    BY <2>1, BoundAssumption DEF Tick, RegistryInv, IInv
<1>3. ScoreOK' /\ RingOK' /\ EveryPointWasPaidFor'
  BY DEF RegistryInv, ScoreOK, RingOK, EveryPointWasPaidFor, scoreVars
<1>4. QED
  BY <1>1, <1>2, <1>3 DEF RegistryInv

\* Paying moves no score and unmakes no settlement.
LEMMA PayKeepsRegistryInv ==
  ASSUME RegistryInv, NEW payer \in Account, NEW id \in ServiceId, NEW nonce \in Nonce,
         NEW payTo \in Account, NEW amount \in Amount, Pay(payer, id, nonce, payTo, amount)
  PROVE  RegistryInv'
<1>1. UNCHANGED <<termsVars, scoreVars>>
  BY DEF Pay
<1>2. IInv' /\ now' <= MaxTime
  BY <1>1, NextIInv DEF RegistryInv, termsVars
<1>3. RingOK'
  BY <1>1 DEF RegistryInv, RingOK, scoreVars
<1>4. ScoreOK'
  BY <1>1, PayKeepsSettlements DEF RegistryInv, ScoreOK, scoreVars
<1>5. EveryPointWasPaidFor'
  <2>1. SUFFICES ASSUME NEW k \in ServiceId, NEW n \in Nonce, NEW p \in Account,
                        <<n, p>> \in seenPayments[k]
                 PROVE  \E payee \in Account \ {p}, price \in Price :
                          settled'[<<k, n, p, payee>>] >= price
    BY <1>1 DEF EveryPointWasPaidFor, scoreVars, RegistryInv, ScoreOK
  <2>2. PICK payee \in Account \ {p}, price \in Price : settled[<<k, n, p, payee>>] >= price
    BY <2>1 DEF RegistryInv, EveryPointWasPaidFor
  <2>3. <<k, n, p, payee>> \in SettlementKey
    BY DEF SettlementKey
  <2>4. settled[<<k, n, p, payee>>] # 0
    BY <2>2, <2>3, PriceAssumption DEF RegistryInv, ScoreOK
  <2>5. settled'[<<k, n, p, payee>>] = settled[<<k, n, p, payee>>]
    BY <2>3, <2>4, PayKeepsSettlements DEF RegistryInv
  <2>6. QED
    BY <2>2, <2>5
<1>6. QED
  BY <1>2, <1>3, <1>4, <1>5 DEF RegistryInv

\* Recording an outcome folds the witness, counts one settlement that was paid
\* for and pushes one outcome.
LEMMA RecordAttestationKeepsRegistryInv ==
  ASSUME RegistryInv, NEW sender \in Account, NEW id \in ServiceId, NEW nonce \in Nonce,
         NEW payer \in Account, NEW success \in BOOLEAN,
         RecordAttestation(sender, id, nonce, payer, success)
  PROVE  RegistryInv'
<1> DEFINE s == PromoteAttestor(services[id])
           outcome == [nonce |-> nonce, payer |-> payer,
                       success |-> success, timestamp |-> now]
<1>1. Registered(id) /\ RecordOK(s) /\ s.owner # NoOne
  BY PromoteAttestorOK DEF RecordAttestation, RegistryInv, IInv, Registered
<1>2. services' = [services EXCEPT ![id] = s] /\ UNCHANGED <<now, servicesCount, settled>>
  BY DEF RecordAttestation
<1>3. IInv' /\ now' <= MaxTime
  <2> HIDE DEF s
  <2>1. QED
    BY <1>1, <1>2, StoreOK DEF RegistryInv
<1>4. ScoreOK'
  <2>1. \A n \in 0 .. MaxCalls : Saturating(n) \in 0 .. MaxCalls
    BY CallsAssumption DEF Saturating
  <2>2. QED
    BY <1>2, <2>1 DEF RecordAttestation, RegistryInv, ScoreOK
<1>5. RingOK'
  <2>1. outcome \in Outcome
    BY BoundAssumption DEF Outcome, RegistryInv, IInv
  <2>2. PushAttestation(id, outcome)
    BY DEF RecordAttestation
  <2>3. QED
    BY <2>1, <2>2, PushAttestationOK DEF RegistryInv
<1>6. EveryPointWasPaidFor'
  <2>1. SUFFICES ASSUME NEW k \in ServiceId, NEW n \in Nonce, NEW p \in Account,
                        <<n, p>> \in seenPayments'[k]
                 PROVE  \E payee \in Account \ {p}, price \in Price :
                          settled[<<k, n, p, payee>>] >= price
    BY <1>2, <1>4 DEF EveryPointWasPaidFor, ScoreOK
  <2>2. CASE <<n, p>> \in seenPayments[k]
    BY <2>2 DEF RegistryInv, EveryPointWasPaidFor
  <2>3. CASE k = id /\ n = nonce /\ p = payer
    BY <2>3, <1>1, BackingWasPaid DEF RecordAttestation, RegistryInv
  <2>4. QED
    BY <2>1, <2>2, <2>3 DEF RecordAttestation, RegistryInv, ScoreOK
<1>7. QED
  BY <1>3, <1>4, <1>5, <1>6 DEF RegistryInv

\* Every step of the registry keeps the invariant.
LEMMA NextRegistryInv == RegistryInv /\ [Next]_vars => RegistryInv'
<1> SUFFICES ASSUME RegistryInv, [Next]_vars PROVE RegistryInv'
  OBVIOUS
<1>1. CASE TermsNext /\ UNCHANGED <<settled, scoreVars>>
  BY <1>1, TermsKeepRegistryInv
<1>2. CASE \E payer, payTo \in Account, id \in ServiceId, nonce \in Nonce, amount \in Amount :
             Pay(payer, id, nonce, payTo, amount)
  BY <1>2, PayKeepsRegistryInv
<1>3. CASE \E sender, payer \in Account, id \in ServiceId, nonce \in Nonce,
              success \in BOOLEAN :
             RecordAttestation(sender, id, nonce, payer, success)
  BY <1>3, RecordAttestationKeepsRegistryInv
<1>4. CASE UNCHANGED vars
  <2>1. IInv' /\ now' <= MaxTime
    BY <1>4, NextIInv DEF RegistryInv, vars, termsVars
  <2>2. ScoreOK' /\ RingOK' /\ EveryPointWasPaidFor'
    BY <1>4 DEF RegistryInv, ScoreOK, RingOK, EveryPointWasPaidFor, vars, scoreVars
  <2>3. QED
    BY <2>1, <2>2 DEF RegistryInv
<1>5. QED
  BY <1>1, <1>2, <1>3, <1>4 DEF Next

\* The invariant holds throughout, for every history of payments, attestations
\* and changes of terms.
THEOREM RegistryInvariant == Spec => []RegistryInv
BY InitRegistryInv, NextRegistryInv, PTL DEF Spec

\* Type correctness of the registry; the ring keeps its shape.
THEOREM RegistryTypeCorrect == Spec => []TypeOK
<1>1. RegistryInv => TypeOK
  BY IInvImplies DEF RegistryInv, ScoreOK, RingOK, TypeOK
<1>2. QED
  BY <1>1, RegistryInvariant, PTL

\* No point of a score is free: each has a settlement behind it that paid a
\* listed price to somebody other than its payer.
THEOREM PointsArePaidFor == Spec => []EveryPointWasPaidFor
<1>1. RegistryInv => EveryPointWasPaidFor
  BY DEF RegistryInv
<1>2. QED
  BY <1>1, RegistryInvariant, PTL

-----------------------------------------------------------------------------
(***************************************************************************)
(* Who can make an attestable payment unattestable.  Whether a settlement  *)
(* backs an outcome depends on the record through its live terms and its   *)
(* owner only, and no transaction moves the former.                        *)
(***************************************************************************)

\* BackingSettlement in terms of the live terms and the owner.
Backs(t, owner, id, nonce, payer) ==
  LET live == settled[<<id, nonce, payer, t.payee>>]
      amount == IF live = 0 /\ t.displacedPayee # NoOne
                  THEN settled[<<id, nonce, payer, t.displacedPayee>>]
                  ELSE live
      floor == IF t.displacedPrice # 0 /\ t.displacedPrice < t.price
                 THEN t.displacedPrice ELSE t.price
  IN  /\ amount # 0
      /\ amount >= floor
      /\ payer \notin {owner, t.payee, t.attestor, t.displacedPayee} \ {NoOne}

\* Folding the witness changes neither the terms nor the owner.
LEMMA PromoteAttestorTerms ==
  ASSUME NEW s \in Service
  PROVE  /\ Terms(PromoteAttestor(s)) = Terms(s)
         /\ PromoteAttestor(s).owner = s.owner
         /\ PromoteAttestor(s).attestor = EffectiveAttestor(s)
<1>1. CASE ~Matured(s.attestorEffectiveAt)
  BY <1>1 DEF PromoteAttestor, EffectiveAttestor
<1>2. CASE Matured(s.attestorEffectiveAt)
  BY <1>2 DEF PromoteAttestor, Terms, EffectiveAttestor, EffectivePaymentTarget,
              DisplacedPaymentTarget, EffectiveNativePrice, DisplacedNativePrice,
              Matured, Service
<1>3. QED
  BY <1>1, <1>2

\* What backs an outcome is decided by the live terms and the owner.
LEMMA BackingIsOfTerms ==
  ASSUME NEW s \in Service, NEW id, NEW nonce, NEW payer
  PROVE  BackingSettlement(PromoteAttestor(s), id, nonce, payer)
           <=> Backs(Terms(s), s.owner, id, nonce, payer)
<1> DEFINE p == PromoteAttestor(s)
<1>1. /\ Terms(p) = Terms(s) /\ p.owner = s.owner
      /\ p.attestor = EffectiveAttestor(s)
  BY PromoteAttestorTerms
<1> HIDE DEF p
<1>2. /\ Terms(s).payee = EffectivePaymentTarget(p)
      /\ Terms(s).displacedPayee = DisplacedPaymentTarget(p)
      /\ Terms(s).price = EffectiveNativePrice(p)
      /\ Terms(s).displacedPrice = DisplacedNativePrice(p)
      /\ Terms(s).attestor = EffectiveAttestor(s)
  BY <1>1 DEF Terms
<1>3. BackingSettlement(p, id, nonce, payer) <=> Backs(Terms(s), s.owner, id, nonce, payer)
  BY <1>1, <1>2 DEF BackingSettlement, Backs, PaidFor, FloorWei, Interested
<1>4. QED
  BY <1>3 DEF p

\* The same of the state after a step.
LEMMA BackingIsOfTermsNext ==
  ASSUME NEW s \in Service, NEW id, NEW nonce, NEW payer
  PROVE  BackingSettlement(PromoteAttestor(s), id, nonce, payer)'
           <=> Backs(Terms(s), s.owner, id, nonce, payer)'
<1>1. CASE ~Matured(s.attestorEffectiveAt)'
  BY <1>1 DEF BackingSettlement, Backs, PaidFor, FloorWei, Interested, PromoteAttestor,
              Terms, EffectiveAttestor
<1>2. CASE Matured(s.attestorEffectiveAt)'
  BY <1>2 DEF BackingSettlement, Backs, PaidFor, FloorWei, Interested, PromoteAttestor,
              Terms, EffectiveAttestor, EffectivePaymentTarget, DisplacedPaymentTarget,
              EffectiveNativePrice, DisplacedNativePrice, Matured, Service
<1>3. QED
  BY <1>1, <1>2

\* No step strikes a service off the registry.
LEMMA StaysRegistered ==
  ASSUME RegistryInv, RegistryInv', Next, NEW id \in ServiceId, Registered(id)
  PROVE  Registered(id)'
<1>1. servicesCount \in Nat /\ id <= servicesCount
  BY DEF RegistryInv, IInv
<1>2. servicesCount' >= servicesCount
  <2>1. CASE \E sender, target, witness \in Account, url \in Url, price \in Price :
               RegisterService(sender, url, price, target, witness)
    BY <1>1, <2>1 DEF RegisterService
  <2>2. CASE \E sender \in Account, k \in ServiceId :
               OwnerTransaction(sender, k) \/ AcceptOwnership(sender, k)
    <3>1. servicesCount' = servicesCount
      BY <2>2 DEF OwnerTransaction, OwnerSets, SetActive, SetGatewayBaseUrl, SetAttestor,
                  SetPaymentTarget, SetAccepts, TransferOwnership, AcceptOwnership
    <3>2. QED
      BY <1>1, <3>1
  <2>3. CASE Tick \/ servicesCount' = servicesCount
    BY <1>1, <2>3 DEF Tick
  <2>4. QED
    BY <2>1, <2>2, <2>3 DEF Next, TermsNext, Pay, RecordAttestation, termsVars
<1>3. QED
  BY <1>1, <1>2 DEF RegistryInv, IInv, ServiceId

\* No step at one instant moves the terms of a registered service.
LEMMA RegistryTermsStep ==
  ASSUME RegistryInv, Next, NEW id \in ServiceId, Registered(id), now' = now
  PROVE  Terms(services[id])' = Terms(services[id])
<1>1. CASE TermsNext
  BY <1>1, TermsStep DEF RegistryInv
<1>2. services'[id] = services[id] => Terms(services[id])' = Terms(services[id])
  BY DEF Terms, EffectiveAttestor, EffectivePaymentTarget, DisplacedPaymentTarget,
         EffectiveNativePrice, DisplacedNativePrice, Matured
<1>3. CASE \E payer, payTo \in Account, k \in ServiceId, nonce \in Nonce, amount \in Amount :
             Pay(payer, k, nonce, payTo, amount)
  BY <1>2, <1>3 DEF Pay, termsVars
<1>4. CASE \E sender, payer \in Account, k \in ServiceId, nonce \in Nonce, success \in BOOLEAN :
             RecordAttestation(sender, k, nonce, payer, success)
  <2>1. PICK k \in ServiceId : services' = [services EXCEPT ![k] = PromoteAttestor(services[k])]
    BY <1>4 DEF RecordAttestation
  <2>2. CASE k # id
    BY <1>2, <2>1, <2>2 DEF RegistryInv, IInv
  <2>3. CASE k = id
    <3> DEFINE r == PromoteAttestor(services[id])
    <3>1. services'[id] = r /\ Terms(r) = Terms(services[id])
      BY <2>1, <2>3, PromoteAttestorTerms DEF RegistryInv, IInv
    <3> HIDE DEF r
    <3>2. QED
      BY <3>1 DEF Terms, EffectiveAttestor, EffectivePaymentTarget, DisplacedPaymentTarget,
                  EffectiveNativePrice, DisplacedNativePrice, Matured
  <2>4. QED
    BY <2>2, <2>3
<1>5. QED
  BY <1>1, <1>3, <1>4 DEF Next

\* An attestable payment stays attestable, by the same witness, through every
\* transaction of everybody but its payer, until it has been recorded.
THEOREM OwnersCannotCensor == Spec => OnlyThePayerOrTimeCensors
<1> DEFINE A ==
      \A id \in ServiceId, nonce \in Nonce, payer \in Account :
        Attestable(id, nonce, payer) /\ now' = now
          => \/ /\ Attestable(id, nonce, payer)'
                /\ EffectiveAttestor(services[id])' = EffectiveAttestor(services[id])
             \/ <<nonce, payer>> \in seenPayments'[id]
             \/ PayerActs(id, nonce, payer)
<1>1. RegistryInv /\ RegistryInv' /\ [Next]_vars => [A]_vars
  <2> SUFFICES ASSUME RegistryInv, RegistryInv', Next,
                      NEW id \in ServiceId, NEW nonce \in Nonce, NEW payer \in Account,
                      Attestable(id, nonce, payer), now' = now,
                      <<nonce, payer>> \notin seenPayments'[id],
                      ~PayerActs(id, nonce, payer)
               PROVE  /\ Attestable(id, nonce, payer)'
                      /\ EffectiveAttestor(services[id])' = EffectiveAttestor(services[id])
    OBVIOUS
  <2> DEFINE s == services[id]
             t == Terms(services[id])
  <2>1. s \in Service /\ s' \in Service
    BY DEF RegistryInv, IInv
  <2>2. Registered(id) /\ Registered(id)'
    BY StaysRegistered DEF Attestable
  <2>3. t' = t
    BY <2>2, RegistryTermsStep
  <2>4. EffectiveAttestor(s)' = EffectiveAttestor(s)
    <3>1. t.attestor = EffectiveAttestor(s) /\ t'.attestor = EffectiveAttestor(s)'
      BY DEF Terms
    <3>2. QED
      BY <2>3, <3>1
  <2>5. Backs(t, s.owner, id, nonce, payer)
    BY <2>1, BackingIsOfTerms DEF Attestable
  <2>6. /\ s'.owner # payer
        /\ \A payTo \in Account :
             settled'[<<id, nonce, payer, payTo>>] = settled[<<id, nonce, payer, payTo>>]
    BY DEF PayerActs
  <2>7. t.payee \in Account /\ t.displacedPayee \in Address
    BY <2>1, <2>2 DEF Terms, EffectivePaymentTarget, DisplacedPaymentTarget, Matured,
                      RegistryInv, IInv, RecordOK, WellFormed, Registered, Service, Address
  <2>8. Backs(t, s.owner, id, nonce, payer)'
    <3> HIDE DEF t
    <3>1. QED
      BY <2>3, <2>5, <2>6, <2>7 DEF Backs, Address
  <2>9. BackingSettlement(PromoteAttestor(s), id, nonce, payer)'
    BY <2>1, <2>8, BackingIsOfTermsNext
  <2>10. QED
    BY <2>2, <2>4, <2>9 DEF Attestable
<1>2. QED
  BY <1>1, RegistryInvariant, PTL DEF Spec, OnlyThePayerOrTimeCensors

-----------------------------------------------------------------------------
(***************************************************************************)
(* The gateway's caution.                                                  *)
(***************************************************************************)

\* A call the gateway leaves unscored, by the record it read, is one the registry
\* would refuse, whatever has matured (isSelfPayment of the middleware).
THEOREM CautionCostsNothing == Spec => []SkippedOnlyIfRefused
<1>1. RegistryInv => SkippedOnlyIfRefused
  <2> SUFFICES ASSUME RegistryInv, NEW id \in ServiceId, NEW payer \in Account,
                      IsSelfPayment(payer, GetService(id))
               PROVE  payer \in Interested(PromoteAttestor(services[id]))
    BY DEF SkippedOnlyIfRefused
  <2> DEFINE s == services[id]
             p == PromoteAttestor(s)
  <2>1. s \in Service
    BY DEF RegistryInv, IInv
  <2>2. /\ GetService(id).attestor = EffectiveAttestor(s)
        /\ GetService(id).paymentTarget = EffectivePaymentTarget(s)
        /\ GetService(id).owner = s.owner
    BY FoldedRecord DEF RegistryInv
  <2>3. /\ p.owner = s.owner /\ p.attestor = EffectiveAttestor(s)
        /\ EffectivePaymentTarget(p) = EffectivePaymentTarget(s)
    BY <2>1, PromoteAttestorTerms DEF Terms
  <2> HIDE DEF p
  <2>4. QED
    BY <2>2, <2>3, AccountAssumption DEF IsSelfPayment, Interested, p
<1>2. QED
  BY <1>1, RegistryInvariant, PTL

-----------------------------------------------------------------------------
(***************************************************************************)
(* The counters.                                                           *)
(***************************************************************************)

\* Only finitely many settlements of a service are attested, so that they can
\* be counted, and the counters count them.
CountersOK ==
  /\ \A id \in ServiceId : IsFiniteSet(seenPayments[id])
  /\ CountersMatchSettlements

\* Recording an outcome adds one settlement and one call.
LEMMA RecordAttestationCounts ==
  ASSUME RegistryInv, CountersOK, NEW sender \in Account, NEW id \in ServiceId,
         NEW nonce \in Nonce, NEW payer \in Account, NEW success \in BOOLEAN,
         RecordAttestation(sender, id, nonce, payer, success)
  PROVE  CountersOK'
<1>1. /\ seenPayments' = [seenPayments EXCEPT ![id] = @ \cup {<<nonce, payer>>}]
      /\ totalCalls' = [totalCalls EXCEPT ![id] = Saturating(@)]
      /\ successCalls' \in {successCalls, [successCalls EXCEPT ![id] = Saturating(@)]}
      /\ <<nonce, payer>> \notin seenPayments[id]
  BY DEF RecordAttestation
<1> SUFFICES ASSUME NEW k \in ServiceId
             PROVE  /\ IsFiniteSet(seenPayments'[k])
                    /\ totalCalls'[k] = IF Cardinality(seenPayments'[k]) < MaxCalls
                                          THEN Cardinality(seenPayments'[k]) ELSE MaxCalls
                    /\ successCalls'[k] <= totalCalls'[k]
  BY DEF CountersOK, CountersMatchSettlements
<1>2. /\ IsFiniteSet(seenPayments[k])
      /\ totalCalls[k] = IF Cardinality(seenPayments[k]) < MaxCalls
                           THEN Cardinality(seenPayments[k]) ELSE MaxCalls
      /\ successCalls[k] <= totalCalls[k]
      /\ successCalls[k] \in 0 .. MaxCalls /\ totalCalls[k] \in 0 .. MaxCalls
  BY DEF CountersOK, CountersMatchSettlements, RegistryInv, ScoreOK
<1>3. CASE k # id
  <2>1. /\ seenPayments'[k] = seenPayments[k] /\ totalCalls'[k] = totalCalls[k]
        /\ successCalls'[k] = successCalls[k]
    BY <1>1, <1>3 DEF RegistryInv, ScoreOK
  <2>2. QED
    BY <1>2, <2>1
<1>4. CASE k = id
  <2>1. /\ seenPayments'[k] = seenPayments[k] \cup {<<nonce, payer>>}
        /\ totalCalls'[k] = Saturating(totalCalls[k])
        /\ successCalls'[k] \in {successCalls[k], Saturating(successCalls[k])}
    BY <1>1, <1>4 DEF RegistryInv, ScoreOK
  <2>2. /\ IsFiniteSet(seenPayments'[k])
        /\ Cardinality(seenPayments'[k]) = Cardinality(seenPayments[k]) + 1
    <3> DEFINE S == seenPayments[k]
               x == <<nonce, payer>>
    <3>1. IsFiniteSet(S) /\ x \notin S
      BY <1>1, <1>2, <1>4
    <3> HIDE DEF S, x
    <3>2. IsFiniteSet(S \cup {x}) /\ Cardinality(S \cup {x}) = Cardinality(S) + 1
      BY <3>1, FS_AddElement
    <3>3. QED
      BY <2>1, <3>2 DEF S, x
  <2>3. Cardinality(seenPayments[k]) \in Nat
    BY <1>2, FS_CardinalityType
  <2>4. QED
    BY <1>2, <2>1, <2>2, <2>3, CallsAssumption DEF Saturating
<1>5. QED
  BY <1>3, <1>4

\* The counters of a service say how many of its settlements were attested, up
\* to their width, and never show more successes than calls.
THEOREM CountersAreExact == Spec => []CountersMatchSettlements
<1>1. Init => CountersOK
  BY FS_EmptySet, CallsAssumption DEF Init, CountersOK, CountersMatchSettlements
<1>2. RegistryInv /\ CountersOK /\ [Next]_vars => CountersOK'
  <2> SUFFICES ASSUME RegistryInv, CountersOK, [Next]_vars PROVE CountersOK'
    OBVIOUS
  <2>1. CASE UNCHANGED scoreVars
    BY <2>1 DEF CountersOK, CountersMatchSettlements, scoreVars
  <2>2. CASE \E sender, payer \in Account, id \in ServiceId, nonce \in Nonce,
                success \in BOOLEAN :
               RecordAttestation(sender, id, nonce, payer, success)
    BY <2>2, RecordAttestationCounts
  <2>3. QED
    BY <2>1, <2>2 DEF Next, Pay, vars
<1>3. QED
  BY <1>1, <1>2, RegistryInvariant, PTL DEF Spec, CountersOK

-----------------------------------------------------------------------------
(***************************************************************************)
(* The ring and the scoreboard.                                            *)
(***************************************************************************)

\* What getAttestations shows of a ring with this head.
Shown(ring, head) ==
  LET n == Len(ring)
  IN  [i \in 1 .. n |-> ring[((head + n - i) % n) + 1]]

\* Walking back from the head meets slot 0 once at most.
LEMMA WrapsOnce ==
  ASSUME NEW n \in Nat, NEW x \in Nat, n # 0
  PROVE  /\ x < n => x % n = x
         /\ n <= x /\ x < n + n => x % n = x - n
OBVIOUS

\* The outcomes shown are the slots before the head, backwards, and then those
\* from the end of the ring.
LEMMA ShownSlots ==
  ASSUME NEW S, NEW ring \in Seq(S), NEW head \in 0 .. Len(ring)
  PROVE  /\ Shown(ring, head) \in Seq(S)
         /\ Len(Shown(ring, head)) = Len(ring)
         /\ \A i \in 1 .. Len(ring) :
              Shown(ring, head)[i] =
                ring[IF i <= head THEN head - i + 1 ELSE head + Len(ring) - i + 1]
<1> DEFINE n == Len(ring)
           slot(i) == IF i <= head THEN head - i + 1 ELSE head + n - i + 1
<1>1. n \in Nat
  OBVIOUS
<1>2. ASSUME NEW i \in 1 .. n
      PROVE  /\ ((head + n - i) % n) + 1 = slot(i)
             /\ slot(i) \in 1 .. n
  <2> DEFINE x == head + n - i
  <2>1. n # 0 /\ x \in Nat /\ x < n + n /\ i \in Nat /\ head \in Nat
    BY <1>1, <1>2
  <2>2. (x < n => i > head) /\ (n <= x => i <= head)
    BY <1>1, <2>1
  <2>3. CASE i <= head
    <3>1. n <= x /\ x - n = head - i
      BY <1>1, <2>1, <2>3
    <3> HIDE DEF x
    <3>2. x % n = head - i
      BY <1>1, <2>1, <3>1, WrapsOnce
    <3>3. QED
      BY <1>1, <1>2, <2>1, <2>3, <3>2 DEF x
  <2>4. CASE ~(i <= head)
    <3>1. x < n
      BY <1>1, <2>1, <2>4
    <3> HIDE DEF x
    <3>2. x % n = x
      BY <1>1, <2>1, <3>1, WrapsOnce
    <3>3. QED
      BY <1>1, <1>2, <2>1, <2>4, <3>2 DEF x
  <2>5. QED
    BY <2>3, <2>4
<1> HIDE DEF slot
<1>3. \A i \in 1 .. n : ring[slot(i)] \in S
  BY <1>2
<1>4. Shown(ring, head) = [i \in 1 .. n |-> ring[slot(i)]]
  BY <1>2 DEF Shown
<1>5. Shown(ring, head) \in [1 .. n -> S]
  BY <1>3, <1>4
<1>6. Shown(ring, head) \in Seq(S) /\ Len(Shown(ring, head)) = n
  BY <1>1, <1>5
<1>7. QED
  BY <1>4, <1>6 DEF slot

\* Of a list with a new outcome in front, the first few.
LEMMA LatestOfList ==
  ASSUME NEW S, NEW list \in Seq(S), NEW outcome \in S, NEW m,
         m = IF Len(list) < MaxAttestations THEN Len(list) + 1 ELSE MaxAttestations
  PROVE  LET latest == Board!Latest(<<outcome>> \o list)
         IN  /\ latest \in Seq(S) /\ Len(latest) = m
             /\ latest[1] = outcome
             /\ \A i \in 2 .. m : latest[i] = list[i - 1]
<1> DEFINE all == <<outcome>> \o list
<1>1. /\ all \in Seq(S) /\ Len(all) = Len(list) + 1
      /\ all[1] = outcome /\ \A i \in 2 .. Len(all) : all[i] = list[i - 1]
  OBVIOUS
<1>2. m = (IF Len(all) < MaxAttestations THEN Len(all) ELSE MaxAttestations)
      /\ m \in 1 .. Len(all)
  BY <1>1, RingAssumption
<1> HIDE DEF all
<1>3. /\ SubSeq(all, 1, m) \in Seq(S)
      /\ Len(SubSeq(all, 1, m)) = m
      /\ \A i \in 1 .. m : SubSeq(all, 1, m)[i] = all[i]
  BY <1>1, <1>2
<1>4. Board!Latest(all) = SubSeq(all, 1, m)
  BY <1>2 DEF Board!Latest
<1>5. SubSeq(all, 1, m)[1] = outcome
      /\ \A i \in 2 .. m : SubSeq(all, 1, m)[i] = list[i - 1]
  BY <1>1, <1>2, <1>3
<1>6. QED
  BY <1>3, <1>4, <1>5 DEF all

\* Pushing an outcome shows it first, then what was shown, up to the capacity.
LEMMA PushShowsLatest ==
  ASSUME NEW S, NEW ring \in Seq(S), NEW head \in 0 .. MaxAttestations - 1,
         Len(ring) <= MaxAttestations, Len(ring) < MaxAttestations => head = Len(ring),
         NEW outcome \in S
  PROVE  LET pushed == IF Len(ring) < MaxAttestations
                         THEN Append(ring, outcome)
                         ELSE [ring EXCEPT ![head + 1] = outcome]
         IN  Shown(pushed, (head + 1) % MaxAttestations)
               = Board!Latest(<<outcome>> \o Shown(ring, head))
<1> DEFINE pushed == IF Len(ring) < MaxAttestations
                       THEN Append(ring, outcome)
                       ELSE [ring EXCEPT ![head + 1] = outcome]
           next == (head + 1) % MaxAttestations
           n == Len(ring)
           m == IF n < MaxAttestations THEN n + 1 ELSE MaxAttestations
           old == Shown(ring, head)
           new == Shown(pushed, next)
           latest == Board!Latest(<<outcome>> \o old)
<1>1. n \in Nat /\ head \in 0 .. n /\ MaxAttestations \in Nat \ {0}
  BY RingAssumption
<1>2. next = IF head + 1 < MaxAttestations THEN head + 1 ELSE 0
  <2>1. MaxAttestations \in Nat /\ MaxAttestations # 0 /\ head + 1 \in Nat
        /\ head + 1 <= MaxAttestations
    BY <1>1
  <2>2. CASE head + 1 < MaxAttestations
    <3>1. (head + 1) % MaxAttestations = head + 1
      BY <2>1, <2>2, WrapsOnce
    <3>2. QED
      BY <2>2, <3>1
  <2>3. CASE head + 1 = MaxAttestations
    <3>1. (head + 1) % MaxAttestations = MaxAttestations - MaxAttestations
      BY <2>1, <2>3, WrapsOnce
    <3>2. QED
      BY <2>1, <2>3, <3>1
  <2>4. QED
    BY <2>1, <2>2, <2>3
<1>3. /\ pushed \in Seq(S) /\ Len(pushed) = m /\ m \in Nat \ {0}
      /\ pushed[head + 1] = outcome
      /\ \A k \in 1 .. n : k # head + 1 => pushed[k] = ring[k]
  <2>1. CASE n < MaxAttestations
    BY <1>1, <2>1
  <2>2. CASE ~(n < MaxAttestations)
    <3>1. n = MaxAttestations /\ head + 1 \in 1 .. n
      BY <1>1, <2>2
    <3>2. QED
      BY <1>1, <2>2, <3>1
  <2>3. QED
    BY <2>1, <2>2
<1>4. next \in 0 .. m
  BY <1>1, <1>2
<1>5. \/ n < MaxAttestations /\ head = n /\ m = n + 1
      \/ n = MaxAttestations /\ m = n /\ head \in 0 .. n - 1
  BY <1>1
<1>6. m = IF Len(old) < MaxAttestations THEN Len(old) + 1 ELSE MaxAttestations
  BY <1>1, ShownSlots
<1>7. /\ old \in Seq(S) /\ Len(old) = n
      /\ \A i \in 1 .. n : old[i] = ring[IF i <= head THEN head - i + 1 ELSE head + n - i + 1]
  BY <1>1, ShownSlots
<1> HIDE DEF pushed, next, old, n, m
<1>8. /\ new \in Seq(S) /\ Len(new) = m
      /\ \A i \in 1 .. m : new[i] = pushed[IF i <= next THEN next - i + 1 ELSE next + m - i + 1]
  BY <1>3, <1>4, ShownSlots
<1>9. /\ latest \in Seq(S) /\ Len(latest) = m /\ latest[1] = outcome
      /\ \A i \in 2 .. m : latest[i] = old[i - 1]
  BY <1>7, <1>6, LatestOfList
<1> HIDE DEF new, latest
<1>10. new[1] = outcome
  <2>1. 1 \in 1 .. m /\ (IF 1 <= next THEN next - 1 + 1 ELSE next + m - 1 + 1) = head + 1
    BY <1>5, <1>1, <1>2, <1>3
  <2>2. QED
    BY <1>3, <1>8, <2>1
<1>11. ASSUME NEW i \in 2 .. m PROVE new[i] = old[i - 1]
  <2> DEFINE k == IF i <= next THEN next - i + 1 ELSE next + m - i + 1
  <2>1. k = (IF i - 1 <= head THEN head - (i - 1) + 1 ELSE head + n - (i - 1) + 1)
    BY <1>5, <1>1, <1>2, <1>11
  <2>2. k \in 1 .. n /\ k # head + 1 /\ i - 1 \in 1 .. n /\ i \in 1 .. m
    BY <1>5, <1>1, <1>2, <1>11
  <2>3. new[i] = pushed[k] /\ pushed[k] = ring[k]
    BY <1>3, <1>8, <2>2
  <2>4. old[i - 1] = ring[k]
    BY <1>7, <2>1, <2>2
  <2>5. QED
    BY <2>3, <2>4
<1>12. \A i \in 1 .. m : new[i] = latest[i]
  <2>1. \A i \in 1 .. m : i = 1 \/ i \in 2 .. m
    BY <1>3
  <2>2. QED
    BY <1>9, <1>10, <1>11, <2>1
<1>13. new = latest
  BY <1>8, <1>9, <1>12, SeqEqual
<1>14. QED
  BY <1>13 DEF new, latest, pushed, next, old, n, m

\* The outcomes shown are the ring read from its head.
LEMMA GetAttestationsIsShown ==
  ASSUME NEW id \in ServiceId
  PROVE  /\ GetAttestations(id) = Shown(attestations[id], attHead[id])
         /\ GetAttestations(id)' = Shown(attestations'[id], attHead'[id])
BY DEF GetAttestations, Shown

\* Recording an outcome scores it on the board.
LEMMA RecordAttestationScores ==
  ASSUME RegistryInv, NEW sender \in Account, NEW id \in ServiceId, NEW nonce \in Nonce,
         NEW payer \in Account, NEW success \in BOOLEAN,
         RecordAttestation(sender, id, nonce, payer, success)
  PROVE  Board!Next
<1> DEFINE outcome == [nonce |-> nonce, payer |-> payer, success |-> success,
                       timestamp |-> now]
           ring == attestations[id]
           head == attHead[id]
           pushed == IF Len(ring) < MaxAttestations
                       THEN Append(ring, outcome)
                       ELSE [ring EXCEPT ![head + 1] = outcome]
<1>1. outcome \in Outcome
  BY DEF Outcome, RegistryInv, IInv
<1>2. /\ totalCalls' = [totalCalls EXCEPT ![id] = Board!Bump(@)]
      /\ successCalls' = IF outcome.success
                           THEN [successCalls EXCEPT ![id] = Board!Bump(@)]
                           ELSE successCalls
  BY DEF RecordAttestation, Saturating, Board!Bump
<1>3. /\ attestations' = [attestations EXCEPT ![id] = pushed]
      /\ attHead' = [attHead EXCEPT ![id] = (head + 1) % MaxAttestations]
  BY DEF RecordAttestation, PushAttestation
<1>4. /\ attestations \in [ServiceId -> Seq(Outcome)]
      /\ attHead \in [ServiceId -> 0 .. MaxAttestations - 1]
      /\ ring \in Seq(Outcome) /\ head \in 0 .. MaxAttestations - 1
      /\ Len(ring) <= MaxAttestations
      /\ Len(ring) < MaxAttestations => head = Len(ring)
  BY DEF RegistryInv, RingOK
<1>5. Shown(pushed, (head + 1) % MaxAttestations)
        = Board!Latest(<<outcome>> \o Shown(ring, head))
  <2> HIDE DEF outcome, ring, head
  <2>1. QED
    BY <1>1, <1>4, PushShowsLatest
<1> HIDE DEF outcome, pushed
<1>6. ASSUME NEW k \in ServiceId
      PROVE  GetAttestations(k)' =
               IF k = id THEN Board!Latest(<<outcome>> \o GetAttestations(id))
                         ELSE GetAttestations(k)
  <2>1. CASE k = id
    <3>1. attestations'[id] = pushed /\ attHead'[id] = (head + 1) % MaxAttestations
      BY <1>3, <1>4
    <3>2. QED
      BY <1>5, <2>1, <3>1, GetAttestationsIsShown
  <2>2. CASE k # id
    <3>1. attestations'[k] = attestations[k] /\ attHead'[k] = attHead[k]
      BY <1>3, <1>4, <2>2
    <3>2. QED
      BY <2>2, <3>1, GetAttestationsIsShown
  <2>3. QED
    BY <2>1, <2>2
<1>7. [k \in ServiceId |-> GetAttestations(k)'] =
        [[k \in ServiceId |-> GetAttestations(k)] EXCEPT
           ![id] = Board!Latest(<<outcome>> \o @)]
  BY <1>6
<1>8. Board!Score(id, outcome)
  BY <1>2, <1>7 DEF Board!Score
<1>9. QED
  BY <1>1, <1>8 DEF Board!Next

\* The counters and getAttestations implement the scoreboard: the ring with its
\* wrapping head shows the latest outcomes, newest first, and no transaction but
\* recordAttestation moves them.
THEOREM ScoreboardIsImplemented == Spec => ImplementsScoreboard
<1>1. Init => Board!Init
  <2> SUFFICES ASSUME Init PROVE Board!Init
    OBVIOUS
  <2>1. ASSUME NEW id \in ServiceId PROVE GetAttestations(id) = <<>>
    BY DEF Init, GetAttestations
  <2>2. QED
    BY <2>1 DEF Init, Board!Init
<1>2. RegistryInv /\ [Next]_vars => [Board!Next]_(Board!scoreVars)
  <2> SUFFICES ASSUME RegistryInv, [Next]_vars
               PROVE  Board!Next \/ UNCHANGED Board!scoreVars
    OBVIOUS
  <2>1. CASE UNCHANGED scoreVars
    BY <2>1 DEF scoreVars, GetAttestations, Board!scoreVars
  <2>2. CASE \E sender, payer \in Account, id \in ServiceId, nonce \in Nonce,
                success \in BOOLEAN :
               RecordAttestation(sender, id, nonce, payer, success)
    BY <2>2, RecordAttestationScores
  <2>3. QED
    BY <2>1, <2>2 DEF Next, Pay, vars
<1>3. QED
  BY <1>1, <1>2, RegistryInvariant, PTL DEF Spec, ImplementsScoreboard, Board!Spec

-----------------------------------------------------------------------------
(***************************************************************************)
(* The grace over time.  A fair payment is of the live payee and price, or *)
(* of those that the first change since displaced; the next change is      *)
(* queued after that one matured, and comes too late.                      *)
(***************************************************************************)

\* The change in this queue slot, if it is still to come, matures after the
\* grace of a payment made at this time.
NextIsLate(effectiveAt, at) ==
  effectiveAt = 0 \/ Matured(effectiveAt) \/ effectiveAt > at + TermsDelay

PayeeStands(s, payTo, at) ==
  \/ now > at + TermsDelay
  \/ EffectivePaymentTarget(s) = payTo
  \/ /\ DisplacedPaymentTarget(s) = payTo
     /\ at < now /\ NextIsLate(s.paymentTargetEffectiveAt, at)

PriceStands(s, amount, at) ==
  \/ now > at + TermsDelay
  \/ EffectiveNativePrice(s) <= amount
  \/ /\ DisplacedNativePrice(s) # 0 /\ DisplacedNativePrice(s) <= amount
     /\ at < now /\ NextIsLate(s.acceptsEffectiveAt, at)

\* What is known of a fair settlement, if this is one.
FairOK(id, nonce, payer, payTo) ==
  LET key == <<id, nonce, payer, payTo>>
      at == fairAt[key]
  IN  at # -1 =>
        /\ Registered(id)
        /\ at \in Nat /\ at <= now
        /\ settled[key] # 0
        /\ PayeeStands(services[id], payTo, at)
        /\ PriceStands(services[id], settled[key], at)

GraceInv ==
  /\ RegistryInv
  /\ fairAt \in [SettlementKey -> Int]
  /\ \A id \in ServiceId, nonce \in Nonce, payer, payTo \in Account :
       FairOK(id, nonce, payer, payTo)

\* No transaction queues a change for sooner than a whole delay from now.
LEMMA ChangesAreQueuedLate ==
  ASSUME RegistryInv, Next, NEW id \in ServiceId, Registered(id), now' = now
  PROVE  /\ QueuedLate(services[id].paymentTargetEffectiveAt,
                       services'[id].paymentTargetEffectiveAt)
         /\ QueuedLate(services[id].acceptsEffectiveAt, services'[id].acceptsEffectiveAt)
<1> DEFINE s == services[id]
<1>1. s \in Service /\ services \in [ServiceId -> Service]
  BY DEF RegistryInv, IInv
<1>2. CASE s' = s
  BY <1>2 DEF QueuedLate
<1>3. CASE TermsNext
  BY <1>3, TermsAreQueuedLate DEF RegistryInv
<1>4. CASE \E sender, payer \in Account, k \in ServiceId, nonce \in Nonce, success \in BOOLEAN :
             RecordAttestation(sender, k, nonce, payer, success)
  <2>1. PICK k \in ServiceId : services' = [services EXCEPT ![k] = PromoteAttestor(services[k])]
    BY <1>4 DEF RecordAttestation
  <2>2. QED
    BY <1>1, <2>1 DEF PromoteAttestor, QueuedLate, Service
<1>5. QED
  BY <1>2, <1>3, <1>4 DEF Next, Pay, termsVars

\* A transaction leaves payee and price standing: it moves no terms, and what it
\* queues comes a whole delay from now.
LEMMA TransactionsLeaveStanding ==
  ASSUME RegistryInv, Next, NEW id \in ServiceId, Registered(id), now' = now,
         NEW payTo \in Account, NEW amount \in Nat, NEW at \in Nat
  PROVE  /\ PayeeStands(services[id], payTo, at) => PayeeStands(services[id], payTo, at)'
         /\ PriceStands(services[id], amount, at) => PriceStands(services[id], amount, at)'
<1> DEFINE s == services[id]
           t == Terms(s)
           payee == s.paymentTargetEffectiveAt
           price == s.acceptsEffectiveAt
<1>1. t' = t
  BY RegistryTermsStep
<1>2. /\ t.payee = EffectivePaymentTarget(s) /\ t'.payee = EffectivePaymentTarget(s)'
      /\ t.displacedPayee = DisplacedPaymentTarget(s)
      /\ t'.displacedPayee = DisplacedPaymentTarget(s)'
      /\ t.price = EffectiveNativePrice(s) /\ t'.price = EffectiveNativePrice(s)'
      /\ t.displacedPrice = DisplacedNativePrice(s)
      /\ t'.displacedPrice = DisplacedNativePrice(s)'
  BY DEF Terms
<1>3. QueuedLate(payee, payee') /\ QueuedLate(price, price')
  BY ChangesAreQueuedLate
<1>4. now \in Nat /\ payee \in Nat /\ price \in Nat /\ TermsDelay \in Nat \ {0}
  BY DelayAssumption DEF RegistryInv, IInv, Service
<1> HIDE DEF t, payee, price
<1>5. at < now => /\ NextIsLate(payee, at) => NextIsLate(payee, at)'
                  /\ NextIsLate(price, at) => NextIsLate(price, at)'
  BY <1>3, <1>4 DEF NextIsLate, QueuedLate, Matured
<1>6. QED
  BY <1>1, <1>2, <1>5 DEF PayeeStands, PriceStands, payee, price

\* Time leaves them standing too: a change that matures displaces what was live
\* and is not mature itself before; a second one matures after the grace.
LEMMA TimeLeavesStanding ==
  ASSUME RegistryInv, Tick, NEW id \in ServiceId, Registered(id),
         NEW payTo \in Account, NEW amount \in Nat, NEW at \in Nat, at <= now
  PROVE  /\ PayeeStands(services[id], payTo, at) => PayeeStands(services[id], payTo, at)'
         /\ PriceStands(services[id], amount, at) => PriceStands(services[id], amount, at)'
<1> DEFINE s == services[id]
<1>1. /\ now \in Nat /\ now' = now + 1 /\ s' = s /\ TermsDelay \in Nat \ {0}
      /\ s.paymentTargetEffectiveAt \in Nat /\ s.acceptsEffectiveAt \in Nat
  BY DelayAssumption DEF Tick, RegistryInv, IInv, Service
<1>2. s.accepts \in Nat \ {0}
  BY PriceAssumption DEF RegistryInv, IInv, RecordOK, WellFormed, Service, Registered
<1>3. PayeeStands(s, payTo, at) => PayeeStands(s, payTo, at)'
  <2> DEFINE eff == s.paymentTargetEffectiveAt
  <2>1. CASE ~Matured(eff) /\ Matured(eff)'
    BY <1>1, <2>1 DEF PayeeStands, NextIsLate, EffectivePaymentTarget, DisplacedPaymentTarget,
                      Matured
  <2>2. CASE Matured(eff)' <=> Matured(eff)
    BY <1>1, <2>2 DEF PayeeStands, NextIsLate, EffectivePaymentTarget, DisplacedPaymentTarget
  <2>3. QED
    BY <1>1, <2>1, <2>2 DEF Matured
<1>4. PriceStands(s, amount, at) => PriceStands(s, amount, at)'
  <2> DEFINE eff == s.acceptsEffectiveAt
  <2>1. CASE ~Matured(eff) /\ Matured(eff)'
    BY <1>1, <1>2, <2>1 DEF PriceStands, NextIsLate, EffectiveNativePrice,
                            DisplacedNativePrice, Matured
  <2>2. CASE Matured(eff)' <=> Matured(eff)
    BY <1>1, <2>2 DEF PriceStands, NextIsLate, EffectiveNativePrice, DisplacedNativePrice
  <2>3. QED
    BY <1>1, <2>1, <2>2 DEF Matured
<1>5. QED
  BY <1>3, <1>4

\* Every step keeps what is known of a fair settlement it does not make.
LEMMA FairStaysOK ==
  ASSUME RegistryInv, RegistryInv', Next, NEW id \in ServiceId, NEW nonce \in Nonce,
         NEW payer \in Account, NEW payTo \in Account,
         FairOK(id, nonce, payer, payTo),
         fairAt'[<<id, nonce, payer, payTo>>] = fairAt[<<id, nonce, payer, payTo>>]
  PROVE  FairOK(id, nonce, payer, payTo)'
<1> DEFINE key == <<id, nonce, payer, payTo>>
           at == fairAt[key]
<1> SUFFICES ASSUME at # -1 PROVE FairOK(id, nonce, payer, payTo)'
  BY DEF FairOK
<1>1. /\ Registered(id) /\ at \in Nat /\ at <= now /\ settled[key] # 0
      /\ PayeeStands(services[id], payTo, at) /\ PriceStands(services[id], settled[key], at)
  BY DEF FairOK
<1>2. key \in SettlementKey /\ settled[key] \in Nat
  BY DEF SettlementKey, RegistryInv, ScoreOK
<1>3. Registered(id)'
  BY <1>1, StaysRegistered
<1>4. settled'[key] = settled[key]
  <2>1. CASE \E p, q \in Account, k \in ServiceId, n \in Nonce, amount \in Amount :
               Pay(p, k, n, q, amount)
    BY <1>1, <1>2, <2>1, PayKeepsSettlements DEF RegistryInv
  <2>2. QED
    BY <2>1 DEF Next, RecordAttestation
<1>5. CASE now' = now
  <2> HIDE DEF key
  <2>1. PayeeStands(services[id], payTo, at)' /\ PriceStands(services[id], settled[key], at)'
    <3> DEFINE amount == settled[key]
    <3>1. amount \in Nat /\ amount' = amount /\ at' = at
      BY <1>2, <1>4 DEF key
    <3> HIDE DEF amount, at
    <3>2. /\ PayeeStands(services[id], payTo, at)'
          /\ PriceStands(services[id], amount, at)'
      BY <1>1, <1>5, <3>1, TransactionsLeaveStanding DEF amount
    <3>3. QED
      BY <3>2 DEF amount
  <2>2. QED
    BY <1>1, <1>3, <1>4, <1>5, <2>1 DEF FairOK, key
<1>6. CASE Tick
  <2>1. now' = now + 1 /\ now \in Nat
    BY <1>6 DEF Tick, RegistryInv, IInv
  <2>2. QED
    BY <1>1, <1>2, <1>3, <1>4, <1>6, <2>1, TimeLeavesStanding DEF FairOK
<1>7. now' = now \/ Tick
  BY TransactionTerms DEF Next, TermsNext, RegisterService, Pay, RecordAttestation, termsVars,
                          RegistryInv
<1>8. QED
  BY <1>5, <1>6, <1>7

\* The prices of a record are numbers, whatever has matured.
LEMMA PricesAreNumbers ==
  ASSUME NEW s \in Service
  PROVE  EffectiveNativePrice(s) \in Nat /\ DisplacedNativePrice(s) \in Nat
<1>1. /\ s.accepts \in Price \cup {0} /\ s.pendingAccepts \in Price \cup {0}
      /\ s.previousNativePrice \in Price \cup {0}
  BY DEF Service
<1>2. Price \cup {0} \subseteq Nat
  BY PriceAssumption
<1>3. QED
  BY <1>1, <1>2 DEF EffectiveNativePrice, DisplacedNativePrice

\* A settlement at the live terms is fair, and fair already: payee and price are
\* the live ones.
LEMMA PayingIsFair ==
  ASSUME GraceInv, RegistryInv', NEW payer \in Account, NEW id \in ServiceId,
         NEW nonce \in Nonce, NEW payTo \in Account, NEW amount \in Amount,
         GracePay(payer, id, nonce, payTo, amount)
  PROVE  GraceInv'
<1> DEFINE key == <<id, nonce, payer, payTo>>
<1>1. /\ Pay(payer, id, nonce, payTo, amount) /\ UNCHANGED termsVars
      /\ settled' = [settled EXCEPT ![key] = amount]
      /\ fairAt' \in {fairAt, [fairAt EXCEPT ![key] = now]}
      /\ fairAt' # fairAt => FollowsQuote(id, payTo, amount)
  BY DEF GracePay, Pay
<1>2. key \in SettlementKey /\ amount \in Nat \ {0} /\ now \in Nat
  BY AmountAssumption DEF SettlementKey, GraceInv, RegistryInv, IInv
<1>3. fairAt' \in [SettlementKey -> Int]
  BY <1>1, <1>2 DEF GraceInv
<1>4. Next
  BY <1>1 DEF Next
<1>5. ASSUME NEW k \in ServiceId, NEW n \in Nonce, NEW p \in Account, NEW q \in Account
      PROVE  FairOK(k, n, p, q)'
  <2> DEFINE other == <<k, n, p, q>>
  <2>1. other \in SettlementKey
    BY DEF SettlementKey
  <2>2. CASE fairAt'[other] = fairAt[other]
    BY <1>4, <2>2, FairStaysOK DEF GraceInv
  <2>3. CASE fairAt'[other] # fairAt[other]
    <3>1. other = key /\ fairAt' = [fairAt EXCEPT ![key] = now] /\ fairAt' # fairAt
      BY <1>1, <1>2, <2>1, <2>3 DEF GraceInv
    <3>2. k = id /\ n = nonce /\ p = payer /\ q = payTo
      BY <3>1
    <3>3. fairAt'[key] = now /\ settled'[key] = amount
      BY <1>1, <1>2, <3>1 DEF GraceInv, RegistryInv, ScoreOK
    <3>4. /\ Registered(id)' /\ now' = now
          /\ EffectivePaymentTarget(services[id])' = payTo
          /\ EffectiveNativePrice(services[id])' <= amount
      <4>1. /\ Registered(id) /\ EffectivePaymentTarget(services[id]) = payTo
            /\ EffectiveNativePrice(services[id]) <= amount
        <5>1. EffectiveNativePrice(services[id]) \in Nat
          BY PricesAreNumbers DEF GraceInv, RegistryInv, IInv
        <5>2. QED
          BY <1>1, <1>2, <3>1, <5>1 DEF FollowsQuote
      <4>2. QED
        BY <1>1, <4>1 DEF termsVars, Registered, EffectivePaymentTarget,
                          EffectiveNativePrice, Matured
    <3>5. QED
      BY <1>2, <3>2, <3>3, <3>4 DEF FairOK, PayeeStands, PriceStands
  <2>4. QED
    BY <2>2, <2>3
<1>6. QED
  BY <1>3, <1>5 DEF GraceInv

\* What is known of a fair settlement is what the grace promises.
LEMMA FairIsAttestable == GraceInv => FairSettlementStaysAttestable
<1> SUFFICES ASSUME GraceInv, NEW id \in ServiceId, NEW nonce \in Nonce,
                    NEW payer \in Account, NEW payTo \in Account,
                    fairAt[<<id, nonce, payer, payTo>>] # -1,
                    now <= fairAt[<<id, nonce, payer, payTo>>] + TermsDelay
             PROVE  LET s == PromoteAttestor(services[id])
                    IN  \/ BackingSettlement(s, id, nonce, payer)
                        \/ payer \in Interested(s)
                        \/ MaskedByDust(id, nonce, payer)
  BY DEF FairSettlementStaysAttestable
<1> DEFINE s == services[id]
           p == PromoteAttestor(s)
           key == <<id, nonce, payer, payTo>>
           paid == settled[key]
           payee == EffectivePaymentTarget(s)
           displaced == DisplacedPaymentTarget(s)
           live == settled[<<id, nonce, payer, payee>>]
<1>1. /\ Registered(id) /\ paid # 0
      /\ payee = payTo \/ displaced = payTo
      /\ \/ EffectiveNativePrice(s) <= paid
         \/ DisplacedNativePrice(s) # 0 /\ DisplacedNativePrice(s) <= paid
  <2>1. FairOK(id, nonce, payer, payTo) /\ now \in Nat /\ TermsDelay \in Nat
    BY DelayAssumption DEF GraceInv, RegistryInv, IInv
  <2>2. QED
    BY <2>1 DEF FairOK, PayeeStands, PriceStands
<1>2. s \in Service /\ paid \in Nat /\ payee \in Account
  BY <1>1 DEF GraceInv, RegistryInv, IInv, RecordOK, WellFormed, Registered, ScoreOK,
              SettlementKey, Service, Address, EffectivePaymentTarget, Matured
<1>3. live \in Nat /\ payTo # NoOne
  BY <1>2, AccountAssumption DEF GraceInv, RegistryInv, ScoreOK, SettlementKey
<1>4. /\ EffectivePaymentTarget(p) = payee /\ DisplacedPaymentTarget(p) = displaced
      /\ EffectiveNativePrice(p) = EffectiveNativePrice(s)
      /\ DisplacedNativePrice(p) = DisplacedNativePrice(s)
  BY <1>2, PromoteAttestorTerms DEF Terms
<1> HIDE DEF p
<1>5. FloorWei(p) = FloorWei(s) /\ FloorWei(s) \in Nat /\ FloorWei(s) <= paid
  <2>1. EffectiveNativePrice(s) \in Nat /\ DisplacedNativePrice(s) \in Nat
    BY <1>2, PricesAreNumbers
  <2>2. QED
    BY <1>1, <1>2, <1>4, <2>1 DEF FloorWei
<1>6. PaidFor(p, id, nonce, payer) = IF live = 0 /\ displaced # NoOne
                                       THEN settled[<<id, nonce, payer, displaced>>]
                                       ELSE live
  BY <1>4 DEF PaidFor
<1>7. CASE PaidFor(p, id, nonce, payer) = paid
  BY <1>1, <1>2, <1>5, <1>7 DEF BackingSettlement, p
<1>8. CASE payee # payTo /\ live # 0
  <2>1. displaced = payTo /\ PaidFor(p, id, nonce, payer) = live
    BY <1>1, <1>6, <1>8
  <2>2. live >= FloorWei(s) \/ live \in 1 .. FloorWei(s) - 1
    BY <1>3, <1>5, <1>8
  <2>3. QED
    BY <1>5, <1>8, <2>1, <2>2 DEF BackingSettlement, MaskedByDust, p
<1>9. QED
  BY <1>1, <1>3, <1>6, <1>7, <1>8 DEF p

\* A buyer who pays the live payee the live price can be scored a whole
\* TERMS_CHANGE_DELAY_MS later, whatever the owner has queued and whenever it
\* matures, for any delays (the displaced terms of _requireBackingSettlement).
THEOREM FairPaymentsKeepTheirGrace == GraceSpec => []FairSettlementStaysAttestable
<1>1. GraceInit => GraceInv
  <2> SUFFICES ASSUME GraceInit PROVE GraceInv
    OBVIOUS
  <2>1. \A id \in ServiceId, nonce \in Nonce, payer, payTo \in Account :
          fairAt[<<id, nonce, payer, payTo>>] = -1
    BY DEF GraceInit, SettlementKey
  <2>2. fairAt \in [SettlementKey -> Int]
    BY DEF GraceInit
  <2>3. QED
    BY <2>1, <2>2, InitRegistryInv DEF GraceInit, GraceInv, FairOK
<1>2. GraceInv /\ [GraceNext]_graceVars => GraceInv'
  <2> SUFFICES ASSUME GraceInv, [GraceNext]_graceVars PROVE GraceInv'
    OBVIOUS
  <2>1. [Next]_vars
    BY DEF GraceNext, GracePay, graceVars, Next
  <2>2. RegistryInv'
    BY <2>1, NextRegistryInv DEF GraceInv
  <2>3. CASE \E payer, payTo \in Account, id \in ServiceId, nonce \in Nonce,
                amount \in Amount :
               GracePay(payer, id, nonce, payTo, amount)
    BY <2>2, <2>3, PayingIsFair
  <2>4. CASE Next /\ UNCHANGED fairAt
    BY <2>2, <2>4, FairStaysOK DEF GraceInv
  <2>5. CASE UNCHANGED graceVars
    BY <2>2, <2>5 DEF graceVars, vars, termsVars, GraceInv, FairOK, PayeeStands, PriceStands,
                      NextIsLate, Registered, EffectivePaymentTarget, DisplacedPaymentTarget,
                      EffectiveNativePrice, DisplacedNativePrice, Matured
  <2>6. QED
    BY <2>3, <2>4, <2>5 DEF GraceNext, Next
<1>3. QED
  BY <1>1, <1>2, FairIsAttestable, PTL DEF GraceSpec

-----------------------------------------------------------------------------
(***************************************************************************)
(* The devnet beside the contracts.  Its money is moved and never made;    *)
(* and while terms stay as registered, each of the two takes an outcome if *)
(* and only if the other does, and shows the same score of it.             *)
(***************************************************************************)

\* Balances are numbers, and add up to what the faucet gave.
MoneyOK == balances \in [Account -> Nat] /\ faucetTotal \in Nat /\ MoneyIsConserved

\* A transfer within the sender's means keeps the sum, to oneself too.
LEMMA TransferKeepsMoney ==
  ASSUME MoneyOK, NEW from \in Account, NEW to \in Account, NEW amount \in Nat,
         balances[from] >= amount
  PROVE  /\ Moved(from, to, amount) \in [Account -> Nat]
         /\ SumFunction(Moved(from, to, amount)) = faucetTotal
<1> DEFINE taken == [balances EXCEPT ![from] = @ - amount]
           given == [taken EXCEPT ![to] = @ + amount]
<1>1. /\ balances \in [Account -> Nat] /\ DOMAIN balances = Account /\ IsFiniteSet(Account)
      /\ SumFunction(balances) = faucetTotal
  BY AddressesAreFinite DEF MoneyOK, MoneyIsConserved
<1>2. /\ taken \in [Account -> Nat] /\ DOMAIN taken = Account
      /\ taken[from] = balances[from] - amount
      /\ \A a \in Account : a # from => taken[a] = balances[a]
  BY <1>1
<1>3. /\ SumFunction(taken) + balances[from] = SumFunction(balances) + taken[from]
      /\ SumFunction(balances) \in Nat /\ SumFunction(taken) \in Nat
  <2> HIDE DEF taken
  <2>1. QED
    BY <1>1, <1>2, SumWithOneChanged
<1> HIDE DEF taken
<1>4. /\ given \in [Account -> Nat] /\ DOMAIN given = Account
      /\ given[to] = taken[to] + amount
      /\ \A a \in Account : a # to => given[a] = taken[a]
  BY <1>2
<1>5. /\ SumFunction(given) + taken[to] = SumFunction(taken) + given[to]
      /\ SumFunction(given) \in Nat
  <2> HIDE DEF given
  <2>1. QED
    BY <1>1, <1>2, <1>4, SumWithOneChanged
<1> HIDE DEF given
<1>6. balances[from] \in Nat /\ taken[from] \in Nat /\ taken[to] \in Nat /\ given[to] \in Nat
  BY <1>1, <1>2, <1>4
<1>7. SumFunction(taken) + amount = SumFunction(balances)
  BY <1>2, <1>3, <1>6
<1>8. SumFunction(given) = SumFunction(taken) + amount
  BY <1>3, <1>4, <1>5, <1>6
<1>9. Moved(from, to, amount) = given
  BY DEF Moved, given, taken
<1>10. QED
  BY <1>1, <1>4, <1>7, <1>8, <1>9

\* The faucet gives what it counts.
LEMMA FaucetKeepsMoney ==
  ASSUME MoneyOK, NEW account \in Account, NEW amount \in 1 .. MaxFaucet,
         Faucet(account, amount)
  PROVE  MoneyOK'
<1>1. /\ balances \in [Account -> Nat] /\ DOMAIN balances = Account /\ IsFiniteSet(Account)
      /\ SumFunction(balances) = faucetTotal /\ amount \in Nat /\ faucetTotal \in Nat
  BY AddressesAreFinite DEF MoneyOK, MoneyIsConserved
<1>2. /\ balances' \in [Account -> Nat] /\ DOMAIN balances' = Account
      /\ balances'[account] = balances[account] + amount
      /\ \A a \in Account : a # account => balances'[a] = balances[a]
      /\ faucetTotal' = faucetTotal + amount
  BY <1>1 DEF Faucet
<1>3. SumFunction(balances') + balances[account] = SumFunction(balances) + balances'[account]
      /\ SumFunction(balances') \in Nat
  BY <1>1, <1>2, SumWithOneChanged
<1>4. balances[account] \in Nat
  BY <1>1
<1>5. SumFunction(balances') = faucetTotal'
  BY <1>1, <1>2, <1>3, <1>4
<1>6. QED
  BY <1>1, <1>2, <1>5 DEF MoneyOK, MoneyIsConserved

\* Every step of a demo keeps the sum.
LEMMA SteadyKeepsMoney == MoneyOK /\ [SteadyNext]_<<vars, devnetVars>> => MoneyOK'
<1> SUFFICES ASSUME MoneyOK, [SteadyNext]_<<vars, devnetVars>> PROVE MoneyOK'
  OBVIOUS
<1>1. CASE UNCHANGED <<balances, faucetTotal>>
  BY <1>1 DEF MoneyOK, MoneyIsConserved
<1>2. CASE \E account \in Account, amount \in 1 .. MaxFaucet : Faucet(account, amount)
  BY <1>2, FaucetKeepsMoney
<1>3. CASE \E payer, payTo \in Account, id \in ServiceId, nonce \in Nonce, amount \in Amount :
             BothPay(payer, id, nonce, payTo, amount)
  <2>1. PICK payer \in Account, payTo \in Account, id \in ServiceId, nonce \in Nonce,
             amount \in Amount : BothPay(payer, id, nonce, payTo, amount)
    BY <1>3
  <2>2. /\ balances[payer] >= amount /\ balances' = Moved(payer, payTo, amount)
        /\ faucetTotal' = faucetTotal /\ amount \in Nat
    BY <2>1, AmountAssumption DEF BothPay, Transfer
  <2>3. QED
    BY <2>2, TransferKeepsMoney DEF MoneyOK, MoneyIsConserved
<1>4. CASE UNCHANGED <<vars, devnetVars>>
  BY <1>1, <1>4 DEF devnetVars
<1>5. ASSUME NEW sender \in Account, NEW target \in Account, NEW witness \in Account,
             NEW url \in Url, NEW price \in Price,
             BothRegister(sender, url, price, target, witness)
      PROVE  UNCHANGED <<balances, faucetTotal>>
  BY <1>5 DEF BothRegister, DevnetRegister
<1>6. ASSUME NEW id \in ServiceId, NEW nonce \in Nonce, NEW payer \in Account,
             GatewayVerifies(id, nonce, payer)
      PROVE  UNCHANGED <<balances, faucetTotal>>
  BY <1>6 DEF GatewayVerifies
<1>7. ASSUME NEW sender \in Account, NEW payer \in Account, NEW id \in ServiceId,
             NEW nonce \in Nonce, NEW success \in BOOLEAN, NEW payTo,
             BothRecord(sender, id, nonce, payer, payTo, success)
      PROVE  UNCHANGED <<balances, faucetTotal>>
  BY <1>7 DEF BothRecord, DevnetRecordAttestation, devnetVars
<1>8. CASE Tick /\ UNCHANGED <<settled, scoreVars, devnetVars>>
  BY <1>1, <1>8 DEF devnetVars
<1>9. CASE SteadyNext
  BY <1>1, <1>2, <1>3, <1>5, <1>6, <1>7, <1>8, <1>9 DEF SteadyNext
<1>10. QED
  BY <1>4, <1>9

\* No coin appears or vanishes but from the faucet, for any accounts, payments and
\* faucet.
THEOREM MoneyAddsUp == SteadySpec => []MoneyIsConserved
<1>1. SteadyInit => MoneyOK
  <2> SUFFICES ASSUME SteadyInit PROVE MoneyOK
    OBVIOUS
  <2>1. /\ balances = [a \in Account |-> 0] /\ faucetTotal = 0
        /\ DOMAIN balances = Account /\ IsFiniteSet(Account)
        /\ \A a \in Account : balances[a] = 0
    BY AddressesAreFinite DEF SteadyInit, DevnetInit
  <2>2. SumFunction(balances) = 0
    BY <2>1, SumOfZeros
  <2>3. QED
    BY <2>1, <2>2 DEF MoneyOK, MoneyIsConserved
<1>2. MoneyOK => MoneyIsConserved
  BY DEF MoneyOK
<1>3. QED
  BY <1>1, <1>2, SteadyKeepsMoney, PTL DEF SteadySpec

\* What the counters of the contract show of a number.
Width(n) == IF n < MaxCalls THEN n ELSE MaxCalls

DevnetTypeOK ==
  /\ transfers \in Seq([tx : SettlementKey, amount : Amount])
  /\ devServices \in [ServiceId -> [owner : Address, attestor : Address,
                                    paymentTarget : Address, active : BOOLEAN]]
  /\ devSeen \in [ServiceId -> SUBSET SettlementKey]
  /\ devScores \in [ServiceId -> [total : Nat, success : Nat]]
  /\ devAttestations \in [ServiceId -> Seq(Outcome)]
  /\ verified \subseteq SettlementKey

\* The log holds settlements, and the gateway verified those of a price.
VerifiedOK ==
  /\ \A i \in DOMAIN transfers : settled[transfers[i].tx] = transfers[i].amount
  /\ \A id \in ServiceId, nonce \in Nonce, payer, payTo \in Account :
       <<id, nonce, payer, payTo>> \in verified =>
         Registered(id) /\ settled[<<id, nonce, payer, payTo>>] >= services[id].accepts

\* No change of terms is queued and none has displaced any.
SteadyTerms(s) ==
  /\ s.attestorEffectiveAt = 0 /\ s.paymentTargetEffectiveAt = 0 /\ s.acceptsEffectiveAt = 0
  /\ s.previousPaymentTarget = NoOne /\ s.previousNativePrice = 0

\* The devnet has the services of the registry,
SameService(id) ==
  devServices[id] =
    IF Registered(id)
      THEN [owner |-> services[id].owner, attestor |-> services[id].attestor,
            paymentTarget |-> services[id].paymentTarget, active |-> TRUE]
      ELSE NoService

\* knows the same payments as attested,
SameSeen(id) ==
  /\ ~Registered(id) => seenPayments[id] = {} /\ devSeen[id] = {}
  /\ \A nonce \in Nonce, payer \in Account :
       <<id, nonce, payer, services[id].paymentTarget>> \in devSeen[id]
         <=> <<nonce, payer>> \in seenPayments[id]

\* and shows the same score.
SameScore(id) ==
  /\ totalCalls[id] = Width(devScores[id].total)
  /\ successCalls[id] = Width(devScores[id].success)
  /\ GetAttestations(id) = devAttestations[id]

Same(id) == SteadyTerms(services[id]) /\ SameService(id) /\ SameSeen(id) /\ SameScore(id)

SteadyInv == RegistryInv /\ DevnetTypeOK /\ VerifiedOK /\ \A id \in ServiceId : Same(id)

\* A step of a demo is a step of the contracts.
LEMMA SteadyIsNext == SteadyNext => [Next]_vars
<1> SUFFICES ASSUME SteadyNext PROVE Next \/ UNCHANGED vars
  OBVIOUS
<1>1. ASSUME NEW sender \in Account, NEW target \in Account, NEW witness \in Account,
             NEW url \in Url, NEW price \in Price,
             BothRegister(sender, url, price, target, witness)
      PROVE  Next
  BY <1>1 DEF BothRegister, Next, TermsNext
<1>2. ASSUME NEW account \in Account, NEW amount \in 1 .. MaxFaucet,
             Faucet(account, amount) /\ UNCHANGED vars
      PROVE  UNCHANGED vars
  BY <1>2
<1>3. ASSUME NEW payer \in Account, NEW payTo \in Account, NEW id \in ServiceId,
             NEW nonce \in Nonce, NEW amount \in Amount,
             BothPay(payer, id, nonce, payTo, amount)
      PROVE  Next
  BY <1>3 DEF BothPay, Next
<1>4. ASSUME NEW id \in ServiceId, NEW nonce \in Nonce, NEW payer \in Account,
             GatewayVerifies(id, nonce, payer)
      PROVE  UNCHANGED vars
  BY <1>4 DEF GatewayVerifies
<1>5. ASSUME NEW sender \in Account, NEW payer \in Account, NEW id \in ServiceId,
             NEW nonce \in Nonce, NEW success \in BOOLEAN, NEW payTo,
             BothRecord(sender, id, nonce, payer, payTo, success)
      PROVE  Next \/ UNCHANGED vars
  BY <1>5 DEF BothRecord, Next
<1>6. CASE Tick /\ UNCHANGED <<settled, scoreVars, devnetVars>>
  BY <1>6 DEF Next, TermsNext
<1>7. QED
  BY <1>1, <1>2, <1>3, <1>4, <1>5, <1>6 DEF SteadyNext

\* Nothing is registered, paid or recorded on either.
LEMMA InitSteady == SteadyInit => SteadyInv
<1> SUFFICES ASSUME SteadyInit PROVE SteadyInv
  OBVIOUS
<1>1. Init /\ DevnetInit /\ RegistryInv
  BY InitRegistryInv DEF SteadyInit
<1>2. DevnetTypeOK
  BY <1>1 DEF DevnetInit, DevnetTypeOK, NoService, Address
<1>3. VerifiedOK
  BY <1>1 DEF DevnetInit, VerifiedOK
<1>4. ASSUME NEW id \in ServiceId PROVE Same(id)
  <2>1. services[id] = Unregistered /\ ~Registered(id)
    BY <1>1 DEF Init, TermsInit, Registered, Unregistered
  <2>2. SteadyTerms(services[id])
    BY <2>1 DEF SteadyTerms, Unregistered
  <2>3. SameService(id) /\ SameSeen(id)
    BY <1>1, <2>1 DEF Init, DevnetInit, SameService, SameSeen
  <2>4. SameScore(id)
    <3>1. GetAttestations(id) = <<>> /\ devAttestations[id] = <<>>
      BY <1>1 DEF Init, DevnetInit, GetAttestations
    <3>2. Width(0) = 0
      BY CallsAssumption DEF Width
    <3>3. QED
      BY <1>1, <3>1, <3>2 DEF Init, DevnetInit, SameScore
  <2>5. QED
    BY <2>2, <2>3, <2>4 DEF Same
<1>5. QED
  BY <1>1, <1>2, <1>3, <1>4 DEF SteadyInv

\* What the contract judges a steady service's settlement by.
LEMMA SteadyBacking ==
  ASSUME SteadyInv, NEW id \in ServiceId, Registered(id),
         NEW nonce \in Nonce, NEW payer \in Account
  PROVE  LET s == services[id]
             paid == settled[<<id, nonce, payer, s.paymentTarget>>]
         IN  /\ PromoteAttestor(s) = s /\ EffectiveAttestor(s) = s.attestor
             /\ BackingSettlement(s, id, nonce, payer) <=>
                  /\ paid # 0 /\ paid >= s.accepts
                  /\ payer \notin {s.owner, s.paymentTarget, s.attestor}
<1> DEFINE s == services[id]
<1>1. SteadyTerms(s)
  BY DEF SteadyInv, Same
<1>2. PromoteAttestor(s) = s /\ EffectiveAttestor(s) = s.attestor
  BY <1>1 DEF SteadyTerms, PromoteAttestor, EffectiveAttestor, Matured
<1>3. /\ EffectivePaymentTarget(s) = s.paymentTarget /\ DisplacedPaymentTarget(s) = NoOne
      /\ EffectiveNativePrice(s) = s.accepts /\ DisplacedNativePrice(s) = 0
  BY <1>1 DEF SteadyTerms, EffectivePaymentTarget, DisplacedPaymentTarget,
              EffectiveNativePrice, DisplacedNativePrice, Matured
<1>4. /\ PaidFor(s, id, nonce, payer) = settled[<<id, nonce, payer, s.paymentTarget>>]
      /\ FloorWei(s) = s.accepts
  BY <1>3 DEF PaidFor, FloorWei
<1>5. payer \in Interested(s) <=> payer \in {s.owner, s.paymentTarget, s.attestor}
  BY <1>3, AccountAssumption DEF Interested
<1>6. QED
  BY <1>2, <1>4, <1>5 DEF BackingSettlement

\* A registered record's fields are addresses and a price.
LEMMA RegisteredRecord ==
  ASSUME RegistryInv, NEW id \in ServiceId, Registered(id)
  PROVE  /\ services[id].owner \in Account /\ services[id].attestor \in Account
         /\ services[id].paymentTarget \in Account
         /\ services[id].accepts \in Nat /\ services[id].accepts # 0
<1>1. RecordOK(services[id])
  BY DEF RegistryInv, IInv
<1>2. QED
  BY <1>1, PriceAssumption DEF RecordOK, WellFormed, Service, Address, Registered

\* Of what a gateway attests, each of the two takes what the other does.
LEMMA SteadyRulesAgree ==
  ASSUME SteadyInv, NEW id \in ServiceId, Registered(id), NEW nonce \in Nonce,
         NEW payer \in Account, GatewayAttests(id, nonce, payer),
         NEW sender \in Account, sender # services[id].owner
  PROVE  RegistryAccepts(sender, id, nonce, payer)
           <=> DevnetAccepts(sender, id, <<id, nonce, payer, services[id].paymentTarget>>)
<1> DEFINE s == services[id]
           tx == <<id, nonce, payer, s.paymentTarget>>
<1>1. /\ s.owner \in Account /\ s.attestor \in Account /\ s.paymentTarget \in Account
      /\ s.accepts \in Nat /\ s.accepts # 0
  BY RegisteredRecord DEF SteadyInv
<1>2. settled[tx] >= s.accepts /\ settled[tx] \in Nat
  <2>1. tx \in SettlementKey
    BY <1>1 DEF SettlementKey
  <2>2. settled[tx] \in Nat
    BY <2>1 DEF SteadyInv, RegistryInv, ScoreOK
  <2>3. tx \in verified
    BY DEF GatewayAttests
  <2>4. QED
    BY <1>1, <2>2, <2>3 DEF SteadyInv, VerifiedOK
<1>3. BackingSettlement(s, id, nonce, payer)
  BY <1>1, <1>2, SteadyBacking DEF GatewayAttests
<1>4. RegistryAccepts(sender, id, nonce, payer)
        <=> sender = s.attestor /\ <<nonce, payer>> \notin seenPayments[id]
  BY <1>3, SteadyBacking DEF RegistryAccepts, Attestable
<1>5. /\ devServices[id].attestor = s.attestor /\ devServices[id].owner = s.owner
      /\ devServices[id].active /\ devServices[id] # NoService
  <2>1. devServices[id] = [owner |-> s.owner, attestor |-> s.attestor,
                           paymentTarget |-> s.paymentTarget, active |-> TRUE]
    BY DEF SteadyInv, Same, SameService
  <2>2. devServices[id].owner # NoService.owner
    BY <1>1, <2>1, AccountAssumption DEF NoService
  <2>3. QED
    BY <2>1, <2>2
<1>6. tx \in devSeen[id] <=> <<nonce, payer>> \in seenPayments[id]
  BY DEF SteadyInv, Same, SameSeen
<1>7. DevnetAccepts(sender, id, tx)
        <=> sender = s.attestor /\ <<nonce, payer>> \notin seenPayments[id]
  BY <1>5, <1>6 DEF DevnetAccepts
<1>8. QED
  BY <1>4, <1>7

\* What leaves the records, the settlements and the scores of both alone.
LEMMA ScoresUnchanged ==
  ASSUME NEW id \in ServiceId, Same(id),
         services'[id] = services[id], devServices'[id] = devServices[id],
         UNCHANGED <<scoreVars, devSeen, devScores, devAttestations>>
  PROVE  Same(id)'
<1>1. SteadyTerms(services[id])' /\ SameService(id)' /\ SameSeen(id)'
  BY DEF Same, SteadyTerms, SameService, SameSeen, Registered, scoreVars
<1>2. GetAttestations(id)' = GetAttestations(id)
  BY DEF GetAttestations, scoreVars
<1>3. SameScore(id)'
  BY <1>2 DEF Same, SameScore, scoreVars
<1>4. QED
  BY <1>1, <1>3 DEF Same

\* A registration, on both.
LEMMA RegisterKeepsSteady ==
  ASSUME SteadyInv, RegistryInv', NEW sender \in Account, NEW target \in Account,
         NEW witness \in Account, NEW url \in Url, NEW price \in Price,
         BothRegister(sender, url, price, target, witness)
  PROVE  SteadyInv'
<1>0. PICK id \in ServiceId : id = servicesCount + 1 /\ servicesCount \in Nat
  BY BoundAssumption
     DEF BothRegister, RegisterService, ServiceId, SteadyInv, RegistryInv, IInv
<1> DEFINE record == [Unregistered EXCEPT !.owner = sender, !.active = TRUE,
                        !.gatewayBaseUrl = url, !.accepts = price,
                        !.paymentTarget = target, !.attestor = witness]
           shown == [owner |-> sender, attestor |-> witness, paymentTarget |-> target,
                     active |-> TRUE]
<1>1. /\ servicesCount' = id
      /\ services' = [services EXCEPT ![id] = record]
      /\ devServices' = [devServices EXCEPT ![id] = shown]
      /\ UNCHANGED <<settled, scoreVars, balances, faucetTotal, transfers, devSeen,
                     devScores, devAttestations, verified>>
  BY <1>0 DEF BothRegister, RegisterService, DevnetRegister
<1>2. ~Registered(id)
  BY <1>0 DEF SteadyInv, RegistryInv, IInv
<1>3. /\ record.owner = sender /\ record.attestor = witness /\ record.paymentTarget = target
      /\ SteadyTerms(record)
  BY DEF Unregistered, SteadyTerms
<1>4. /\ services \in [ServiceId -> Service] /\ DevnetTypeOK
  BY DEF SteadyInv, RegistryInv, IInv
<1>5. /\ services'[id] = record /\ devServices'[id] = shown
      /\ \A k \in ServiceId : k # id =>
           services'[k] = services[k] /\ devServices'[k] = devServices[k]
  BY <1>1, <1>2, <1>4 DEF DevnetTypeOK
<1> HIDE DEF record
<1>6. DevnetTypeOK'
  <2>1. shown \in [owner : Address, attestor : Address, paymentTarget : Address, active : BOOLEAN]
    BY DEF Address
  <2> HIDE DEF shown
  <2>2. QED
    BY <1>1, <1>2, <1>4, <2>1 DEF DevnetTypeOK
<1>7. VerifiedOK'
  <2>1. \A i \in DOMAIN transfers' : settled'[transfers'[i].tx] = transfers'[i].amount
    BY <1>1 DEF SteadyInv, VerifiedOK
  <2>2. ASSUME NEW k \in ServiceId, NEW nonce \in Nonce, NEW payer \in Account,
               NEW payTo \in Account, <<k, nonce, payer, payTo>> \in verified'
        PROVE  Registered(k)' /\ settled'[<<k, nonce, payer, payTo>>] >= services'[k].accepts
    <3>1. Registered(k) /\ settled[<<k, nonce, payer, payTo>>] >= services[k].accepts
      BY <1>1, <2>2 DEF SteadyInv, VerifiedOK
    <3>2. k # id
      BY <1>2, <3>1
    <3>3. QED
      BY <1>1, <1>5, <3>1, <3>2 DEF Registered
  <2>3. QED
    BY <2>1, <2>2 DEF VerifiedOK
<1>8. ASSUME NEW k \in ServiceId PROVE Same(k)'
  <2>1. CASE k # id
    BY <1>1, <1>5, <2>1, ScoresUnchanged DEF SteadyInv
  <2>2. CASE k = id
    <3>1. SteadyTerms(services[id])'
      BY <1>3, <1>5 DEF SteadyTerms
    <3>2. Registered(id)'
      BY <1>3, <1>5, AccountAssumption DEF Registered
    <3>3. SameService(id)'
      BY <1>3, <1>5, <3>2 DEF SameService
    <3>4. seenPayments'[id] = {} /\ devSeen'[id] = {}
      BY <1>1, <1>2 DEF SteadyInv, Same, SameSeen, scoreVars
    <3>5. SameSeen(id)'
      BY <3>2, <3>4 DEF SameSeen
    <3>6. SameScore(id)'
      <4>1. GetAttestations(id)' = GetAttestations(id)
        BY <1>1 DEF GetAttestations, scoreVars
      <4>2. SameScore(id)
        BY <1>2 DEF SteadyInv, Same
      <4>3. QED
        BY <1>1, <4>1, <4>2 DEF SameScore, scoreVars
    <3>7. QED
      BY <2>2, <3>1, <3>3, <3>5, <3>6 DEF Same
  <2>3. QED
    BY <2>1, <2>2
<1>9. QED
  BY <1>6, <1>7, <1>8 DEF SteadyInv

\* A payment, on both: the log stays one of settlements.
LEMMA PayKeepsSteady ==
  ASSUME SteadyInv, RegistryInv', NEW payer \in Account, NEW payTo \in Account,
         NEW id \in ServiceId, NEW nonce \in Nonce, NEW amount \in Amount,
         BothPay(payer, id, nonce, payTo, amount)
  PROVE  SteadyInv'
<1> DEFINE key == <<id, nonce, payer, payTo>>
           entry == [tx |-> key, amount |-> amount]
           log == Append(transfers, entry)
<1>1. /\ settled[key] = 0 /\ settled' = [settled EXCEPT ![key] = amount]
      /\ UNCHANGED <<termsVars, scoreVars>>
      /\ transfers' = IF Len(log) > TransferLogCap THEN Tail(log) ELSE log
      /\ UNCHANGED <<faucetTotal, devServices, devSeen, devScores, devAttestations, verified>>
  BY DEF BothPay, Pay, Transfer
<1>2. /\ key \in SettlementKey /\ settled \in [SettlementKey -> Nat]
      /\ amount \in Nat /\ amount # 0 /\ entry \in [tx : SettlementKey, amount : Amount]
  BY AmountAssumption DEF SettlementKey, SteadyInv, RegistryInv, ScoreOK
<1>3. /\ settled'[key] = amount
      /\ \A other \in SettlementKey : other # key => settled'[other] = settled[other]
  BY <1>1, <1>2
<1>4. transfers \in Seq([tx : SettlementKey, amount : Amount]) /\ DevnetTypeOK
  BY DEF SteadyInv, DevnetTypeOK
<1> HIDE DEF key
<1>5. /\ log \in Seq([tx : SettlementKey, amount : Amount]) /\ Len(log) = Len(transfers) + 1
      /\ Len(transfers) \in Nat
      /\ \A i \in 1 .. Len(transfers) : log[i] = transfers[i]
      /\ log[Len(transfers) + 1] = entry
  BY <1>2, <1>4
<1>6. ASSUME NEW i \in 1 .. Len(log) PROVE settled'[log[i].tx] = log[i].amount
  <2>1. CASE i = Len(transfers) + 1
    <3>1. log[i].tx = key /\ log[i].amount = amount
      BY <1>5, <2>1
    <3>2. QED
      BY <1>3, <3>1
  <2>2. CASE i # Len(transfers) + 1
    <3>1. i \in 1 .. Len(transfers) /\ i \in DOMAIN transfers
      BY <1>4, <1>5, <2>2
    <3>2. /\ transfers[i].tx \in SettlementKey /\ transfers[i].amount \in Amount
          /\ settled[transfers[i].tx] = transfers[i].amount
      <4>1. transfers[i] \in [tx : SettlementKey, amount : Amount]
        BY <1>4, <3>1, ElementOfSeq
      <4>2. settled[transfers[i].tx] = transfers[i].amount
        BY <3>1 DEF SteadyInv, VerifiedOK
      <4>3. QED
        BY <4>1, <4>2
    <3>3. transfers[i].tx # key
      BY <1>1, <3>2, AmountAssumption
    <3>4. QED
      BY <1>3, <1>5, <3>1, <3>2, <3>3
  <2>3. QED
    BY <2>1, <2>2
<1> HIDE DEF log
<1>7. /\ transfers' \in Seq([tx : SettlementKey, amount : Amount])
      /\ \A i \in DOMAIN transfers' : \E j \in 1 .. Len(log) : transfers'[i] = log[j]
  <2>1. CASE transfers' = log
    BY <1>5, <2>1
  <2>2. CASE transfers' = Tail(log)
    <3>1. /\ Tail(log) \in Seq([tx : SettlementKey, amount : Amount])
          /\ Len(Tail(log)) = Len(log) - 1
          /\ \A i \in 1 .. Len(log) - 1 : Tail(log)[i] = log[i + 1]
      BY <1>5
    <3>2. \A i \in 1 .. Len(log) - 1 : i + 1 \in 1 .. Len(log)
      BY <1>5
    <3>3. DOMAIN Tail(log) = 1 .. Len(log) - 1
      BY <3>1
    <3>4. QED
      BY <2>2, <3>1, <3>2, <3>3
  <2>3. QED
    BY <1>1, <2>1, <2>2
<1>8. DevnetTypeOK'
  BY <1>1, <1>4, <1>7 DEF DevnetTypeOK
<1>9. VerifiedOK'
  <2>1. \A i \in DOMAIN transfers' : settled'[transfers'[i].tx] = transfers'[i].amount
    BY <1>6, <1>7
  <2>2. ASSUME NEW k \in ServiceId, NEW n \in Nonce, NEW from \in Account,
               NEW to \in Account, <<k, n, from, to>> \in verified'
        PROVE  Registered(k)' /\ settled'[<<k, n, from, to>>] >= services'[k].accepts
    <3>1. Registered(k) /\ settled[<<k, n, from, to>>] >= services[k].accepts
      BY <1>1, <2>2 DEF SteadyInv, VerifiedOK
    <3>2. services[k].accepts \in Nat /\ services[k].accepts # 0
      BY <3>1, RegisteredRecord DEF SteadyInv
    <3>3. <<k, n, from, to>> \in SettlementKey
      BY DEF SettlementKey
    <3>4. settled[<<k, n, from, to>>] # 0
      BY <3>1, <3>2
    <3>5. settled'[<<k, n, from, to>>] = settled[<<k, n, from, to>>]
      BY <1>1, <1>3, <3>3, <3>4
    <3>6. QED
      BY <1>1, <3>1, <3>5 DEF termsVars, Registered
  <2>3. QED
    BY <2>1, <2>2 DEF VerifiedOK
<1>10. \A k \in ServiceId : Same(k)'
  BY <1>1, ScoresUnchanged DEF SteadyInv, termsVars
<1>11. QED
  BY <1>8, <1>9, <1>10 DEF SteadyInv

\* A proof the gateway finds good is of a settlement that pays the price.
LEMMA VerifyKeepsSteady ==
  ASSUME SteadyInv, RegistryInv', NEW id \in ServiceId, NEW nonce \in Nonce,
         NEW payer \in Account, Registered(id), GatewayVerifies(id, nonce, payer)
  PROVE  SteadyInv'
<1> DEFINE tx == <<id, nonce, payer, services[id].paymentTarget>>
<1>1. /\ verified' = verified \cup {tx}
      /\ UNCHANGED <<vars, balances, faucetTotal, transfers, devServices, devSeen,
                     devScores, devAttestations>>
  BY DEF GatewayVerifies
<1>2. UNCHANGED <<now, servicesCount, services, settled, scoreVars>>
  BY <1>1 DEF vars, termsVars
<1>3. tx \in SettlementKey
  BY RegisteredRecord DEF SteadyInv, SettlementKey
<1>4. settled[tx] >= services[id].accepts
  <2>1. PICK i \in DOMAIN transfers :
          transfers[i].tx = tx /\ transfers[i].amount >= services[id].accepts
    BY DEF GatewayVerifies
  <2>2. settled[transfers[i].tx] = transfers[i].amount
    BY DEF SteadyInv, VerifiedOK
  <2>3. QED
    BY <2>1, <2>2
<1>5. DevnetTypeOK'
  BY <1>1, <1>3 DEF SteadyInv, DevnetTypeOK
<1>6. VerifiedOK'
  <2>1. \A i \in DOMAIN transfers' : settled'[transfers'[i].tx] = transfers'[i].amount
    BY <1>1, <1>2 DEF SteadyInv, VerifiedOK
  <2>2. ASSUME NEW k \in ServiceId, NEW n \in Nonce, NEW from \in Account,
               NEW to \in Account, <<k, n, from, to>> \in verified'
        PROVE  Registered(k)' /\ settled'[<<k, n, from, to>>] >= services'[k].accepts
    <3>1. CASE <<k, n, from, to>> = tx
      BY <1>2, <1>4, <3>1 DEF Registered
    <3>2. CASE <<k, n, from, to>> # tx
      <4>1. <<k, n, from, to>> \in verified
        BY <1>1, <2>2, <3>2
      <4>2. QED
        BY <1>2, <4>1 DEF SteadyInv, VerifiedOK, Registered
    <3>3. QED
      BY <3>1, <3>2
  <2>3. QED
    BY <2>1, <2>2 DEF VerifiedOK
<1>7. \A k \in ServiceId : Same(k)'
  BY <1>1, <1>2, ScoresUnchanged DEF SteadyInv
<1>8. QED
  BY <1>5, <1>6, <1>7 DEF SteadyInv

\* What the invariant speaks of stays.
LEMMA StillSteady ==
  ASSUME SteadyInv, RegistryInv', UNCHANGED <<services, settled, scoreVars>>,
         UNCHANGED <<transfers, devServices, devSeen, devScores, devAttestations, verified>>
  PROVE  SteadyInv'
<1>1. DevnetTypeOK'
  BY DEF SteadyInv, DevnetTypeOK
<1>2. VerifiedOK'
  BY DEF SteadyInv, VerifiedOK, Registered
<1>3. \A k \in ServiceId : Same(k)'
  BY ScoresUnchanged DEF SteadyInv
<1>4. QED
  BY <1>1, <1>2, <1>3 DEF SteadyInv

\* One more, as the contract counts it.
LEMMA WidthCounts ==
  ASSUME NEW n \in Nat
  PROVE  Saturating(Width(n)) = Width(n + 1)
BY CallsAssumption DEF Saturating, Width

\* The devnet's cap is the board's.
LEMMA CapIsLatest ==
  ASSUME NEW list, Len(list) \in Nat
  PROVE  CappedAttestations(list) = Board!Latest(list)
<1>1. (IF Len(list) > MaxAttestations THEN MaxAttestations ELSE Len(list))
        = (IF Len(list) < MaxAttestations THEN Len(list) ELSE MaxAttestations)
  BY RingAssumption
<1>2. QED
  BY <1>1 DEF CappedAttestations, Board!Latest

\* Both take the outcome: the counters count it, and both lists show it first.
LEMMA RecordKeepsSteady ==
  ASSUME SteadyInv, RegistryInv', NEW sender \in Account, NEW payer \in Account,
         NEW id \in ServiceId, NEW nonce \in Nonce, NEW success \in BOOLEAN, Registered(id),
         RecordAttestation(sender, id, nonce, payer, success),
         DevnetRecordAttestation(id, <<id, nonce, payer, services[id].paymentTarget>>, success)
  PROVE  SteadyInv'
<1> DEFINE tx == <<id, nonce, payer, services[id].paymentTarget>>
           outcome == [nonce |-> nonce, payer |-> payer, success |-> success,
                       timestamp |-> now]
           ring == attestations[id]
           head == attHead[id]
           pushed == IF Len(ring) < MaxAttestations
                       THEN Append(ring, outcome)
                       ELSE [ring EXCEPT ![head + 1] = outcome]
<1>1. /\ DevnetTypeOK /\ ScoreOK /\ RingOK /\ services \in [ServiceId -> Service]
      /\ Same(id)
  BY DEF SteadyInv, RegistryInv, IInv
<1>2. tx \in SettlementKey /\ outcome \in Outcome
  BY RegisteredRecord DEF SteadyInv, SettlementKey, Outcome, RegistryInv, IInv
<1>3. services' = services
  <2>1. services' = [services EXCEPT ![id] = services[id]]
    BY SteadyBacking DEF RecordAttestation
  <2>2. QED
    BY <1>1, <2>1
<1>4. /\ UNCHANGED <<now, servicesCount, settled>>
      /\ seenPayments' = [seenPayments EXCEPT ![id] = @ \cup {<<nonce, payer>>}]
      /\ totalCalls' = [totalCalls EXCEPT ![id] = Saturating(@)]
      /\ successCalls' = IF success THEN [successCalls EXCEPT ![id] = Saturating(@)]
                                    ELSE successCalls
      /\ attestations' = [attestations EXCEPT ![id] = pushed]
      /\ attHead' = [attHead EXCEPT ![id] = (head + 1) % MaxAttestations]
  BY DEF RecordAttestation, PushAttestation
<1>5. /\ devSeen' = [devSeen EXCEPT ![id] = @ \cup {tx}]
      /\ devScores' = [devScores EXCEPT ![id] =
           [total |-> @.total + 1, success |-> IF success THEN @.success + 1 ELSE @.success]]
      /\ devAttestations' = [devAttestations EXCEPT ![id] = CappedAttestations(<<outcome>> \o @)]
      /\ UNCHANGED <<balances, faucetTotal, transfers, devServices, verified>>
  BY DEF DevnetRecordAttestation
<1> HIDE DEF tx, outcome
<1>6. /\ devAttestations[id] \in Seq(Outcome)
      /\ devAttestations[id] = Shown(ring, head) /\ Len(devAttestations[id]) \in Nat
  <2>1. devAttestations[id] \in Seq(Outcome)
    BY <1>1 DEF DevnetTypeOK
  <2>2. GetAttestations(id) = Shown(ring, head) /\ GetAttestations(id) = devAttestations[id]
    BY <1>1, GetAttestationsIsShown DEF Same, SameScore
  <2>3. QED
    BY <2>1, <2>2
<1>7. /\ CappedAttestations(<<outcome>> \o devAttestations[id])
           = Shown(pushed, (head + 1) % MaxAttestations)
      /\ CappedAttestations(<<outcome>> \o devAttestations[id]) \in Seq(Outcome)
  <2>1. Len(<<outcome>> \o devAttestations[id]) \in Nat
    BY <1>2, <1>6
  <2>2. CappedAttestations(<<outcome>> \o devAttestations[id])
          = Board!Latest(<<outcome>> \o devAttestations[id])
    BY <2>1, CapIsLatest
  <2>3. /\ ring \in Seq(Outcome) /\ head \in 0 .. MaxAttestations - 1
        /\ Len(ring) <= MaxAttestations
        /\ Len(ring) < MaxAttestations => head = Len(ring)
    BY <1>1 DEF RingOK
  <2>4. Shown(pushed, (head + 1) % MaxAttestations) = Board!Latest(<<outcome>> \o Shown(ring, head))
    <3> HIDE DEF ring, head
    <3>1. QED
      BY <1>2, <2>3, PushShowsLatest
  <2>5. Board!Latest(<<outcome>> \o devAttestations[id]) \in Seq(Outcome)
    BY <1>2, <1>6, LatestOfList
  <2>6. QED
    BY <1>6, <2>2, <2>4, <2>5
<1>8. DevnetTypeOK'
  <2>1. devScores'[id] \in [total : Nat, success : Nat]
    BY <1>1, <1>5 DEF DevnetTypeOK
  <2>2. devScores' \in [ServiceId -> [total : Nat, success : Nat]]
    BY <1>1, <1>5, <2>1 DEF DevnetTypeOK
  <2>3. devSeen' \in [ServiceId -> SUBSET SettlementKey]
    BY <1>1, <1>2, <1>5 DEF DevnetTypeOK
  <2>4. devAttestations' \in [ServiceId -> Seq(Outcome)]
    BY <1>1, <1>5, <1>7 DEF DevnetTypeOK
  <2>5. QED
    BY <1>1, <1>5, <2>2, <2>3, <2>4 DEF DevnetTypeOK
<1>9. VerifiedOK'
  BY <1>3, <1>4, <1>5 DEF SteadyInv, VerifiedOK, Registered
<1>10. ASSUME NEW k \in ServiceId PROVE Same(k)'
  <2>1. Same(k) /\ services'[k] = services[k] /\ devServices'[k] = devServices[k]
    BY <1>3, <1>5 DEF SteadyInv
  <2>2. SteadyTerms(services[k])' /\ SameService(k)'
    BY <2>1 DEF Same, SteadyTerms, SameService, Registered
  <2>3. CASE k # id
    <3>1. /\ seenPayments'[k] = seenPayments[k] /\ devSeen'[k] = devSeen[k]
          /\ totalCalls'[k] = totalCalls[k] /\ successCalls'[k] = successCalls[k]
          /\ devScores'[k] = devScores[k] /\ devAttestations'[k] = devAttestations[k]
          /\ attestations'[k] = attestations[k] /\ attHead'[k] = attHead[k]
      BY <1>1, <1>4, <1>5, <2>3 DEF DevnetTypeOK, ScoreOK, RingOK
    <3>2. GetAttestations(k)' = GetAttestations(k)
      BY <3>1, GetAttestationsIsShown
    <3>3. SameSeen(k)' /\ SameScore(k)'
      BY <2>1, <3>1, <3>2 DEF Same, SameSeen, SameScore, Registered
    <3>4. QED
      BY <2>2, <3>3 DEF Same
  <2>4. CASE k = id
    <3>1. /\ seenPayments'[id] = seenPayments[id] \cup {<<nonce, payer>>}
          /\ devSeen'[id] = devSeen[id] \cup {tx}
      BY <1>1, <1>4, <1>5 DEF DevnetTypeOK, ScoreOK
    <3>2. SameSeen(id)'
      <4>1. ASSUME NEW n \in Nonce, NEW from \in Account
            PROVE  <<id, n, from, services[id].paymentTarget>> \in devSeen'[id]
                     <=> <<n, from>> \in seenPayments'[id]
        <5>1. <<id, n, from, services[id].paymentTarget>> \in devSeen[id]
                <=> <<n, from>> \in seenPayments[id]
          BY <1>1 DEF Same, SameSeen
        <5>2. <<id, n, from, services[id].paymentTarget>> = tx <=> <<n, from>> = <<nonce, payer>>
          BY DEF tx
        <5>3. QED
          BY <3>1, <5>1, <5>2
      <4>2. QED
        BY <1>3, <4>1 DEF SameSeen, Registered
    <3>3. SameScore(id)'
      <4>1. devScores[id].total \in Nat /\ devScores[id].success \in Nat
        BY <1>1 DEF DevnetTypeOK
      <4>2. /\ devScores'[id].total = devScores[id].total + 1
            /\ devScores'[id].success =
                 IF success THEN devScores[id].success + 1 ELSE devScores[id].success
            /\ totalCalls'[id] = Saturating(totalCalls[id])
            /\ successCalls'[id] =
                 IF success THEN Saturating(successCalls[id]) ELSE successCalls[id]
        BY <1>1, <1>4, <1>5 DEF DevnetTypeOK, ScoreOK
      <4>3. /\ totalCalls[id] = Width(devScores[id].total)
            /\ successCalls[id] = Width(devScores[id].success)
        BY <1>1 DEF Same, SameScore
      <4>4. /\ totalCalls'[id] = Width(devScores'[id].total)
            /\ successCalls'[id] = Width(devScores'[id].success)
        BY <4>1, <4>2, <4>3, WidthCounts
      <4>5. attestations'[id] = pushed /\ attHead'[id] = (head + 1) % MaxAttestations
        BY <1>1, <1>4 DEF RingOK
      <4>6. devAttestations'[id] = CappedAttestations(<<outcome>> \o devAttestations[id])
        BY <1>1, <1>5 DEF DevnetTypeOK
      <4> HIDE DEF pushed
      <4>7. GetAttestations(id)' = devAttestations'[id]
        BY <1>7, <4>5, <4>6, GetAttestationsIsShown
      <4>8. QED
        BY <4>4, <4>7 DEF SameScore
    <3>4. QED
      BY <2>2, <2>4, <3>2, <3>3 DEF Same
  <2>5. QED
    BY <2>3, <2>4
<1>11. QED
  BY <1>8, <1>9, <1>10 DEF SteadyInv

\* Every step of a demo keeps the two alike.
LEMMA NextSteady == SteadyInv /\ [SteadyNext]_<<vars, devnetVars>> => SteadyInv'
<1> SUFFICES ASSUME SteadyInv, [SteadyNext]_<<vars, devnetVars>> PROVE SteadyInv'
  OBVIOUS
<1>1. RegistryInv'
  BY SteadyIsNext, NextRegistryInv DEF SteadyInv
<1>2. ASSUME UNCHANGED <<services, settled, scoreVars, devnetVars>> PROVE SteadyInv'
  BY <1>1, <1>2, StillSteady DEF devnetVars
<1>3. CASE UNCHANGED <<vars, devnetVars>>
  BY <1>2, <1>3 DEF vars, termsVars
<1>4. ASSUME NEW sender \in Account, NEW target \in Account, NEW witness \in Account,
             NEW url \in Url, NEW price \in Price,
             BothRegister(sender, url, price, target, witness)
      PROVE  SteadyInv'
  BY <1>1, <1>4, RegisterKeepsSteady
<1>5. ASSUME NEW account \in Account, NEW amount \in 1 .. MaxFaucet,
             Faucet(account, amount) /\ UNCHANGED vars
      PROVE  SteadyInv'
  BY <1>1, <1>5, StillSteady DEF Faucet, vars, termsVars
<1>6. ASSUME NEW payer \in Account, NEW payTo \in Account, NEW id \in ServiceId,
             NEW nonce \in Nonce, NEW amount \in Amount,
             BothPay(payer, id, nonce, payTo, amount)
      PROVE  SteadyInv'
  BY <1>1, <1>6, PayKeepsSteady
<1>7. ASSUME NEW id \in ServiceId, NEW nonce \in Nonce, NEW payer \in Account,
             Registered(id), GatewayVerifies(id, nonce, payer)
      PROVE  SteadyInv'
  BY <1>1, <1>7, VerifyKeepsSteady
<1>8. ASSUME NEW sender \in Account, NEW payer \in Account, NEW id \in ServiceId,
             NEW nonce \in Nonce, NEW success \in BOOLEAN, Registered(id),
             sender # services[id].owner, GatewayAttests(id, nonce, payer),
             BothRecord(sender, id, nonce, payer, services[id].paymentTarget, success)
      PROVE  SteadyInv'
  <2> DEFINE tx == <<id, nonce, payer, services[id].paymentTarget>>
  <2>1. RegistryAccepts(sender, id, nonce, payer) <=> DevnetAccepts(sender, id, tx)
    BY <1>8, SteadyRulesAgree
  <2>2. CASE RegistryAccepts(sender, id, nonce, payer)
    <3>1. /\ RecordAttestation(sender, id, nonce, payer, success)
          /\ DevnetRecordAttestation(id, tx, success)
      BY <1>8, <2>1, <2>2 DEF BothRecord
    <3>2. QED
      BY <1>1, <1>8, <3>1, RecordKeepsSteady
  <2>3. CASE ~RegistryAccepts(sender, id, nonce, payer)
    <3>1. UNCHANGED vars /\ UNCHANGED devnetVars
      BY <1>8, <2>1, <2>3 DEF BothRecord
    <3>2. QED
      BY <1>2, <3>1 DEF vars, termsVars
  <2>4. QED
    BY <2>2, <2>3
<1>9. CASE Tick /\ UNCHANGED <<settled, scoreVars, devnetVars>>
  BY <1>2, <1>9 DEF Tick
<1>10. QED
  BY <1>3, <1>4, <1>5, <1>6, <1>7, <1>8, <1>9 DEF SteadyNext

\* A demo's services, payments and scores on the devnet are those of the contracts.
LEMMA SteadyInvariant == SteadySpec => []SteadyInv
BY InitSteady, NextSteady, PTL DEF SteadySpec

\* While terms stay as registered and owners do not attest, a demo shows the score
\* the contracts would, for any services, ring capacity and counter width.
THEOREM DemoShowsTheScore == SteadySpec => []DevnetMirrorsRegistry
<1>1. SteadyInv => DevnetMirrorsRegistry
  BY DEF SteadyInv, Same, SameScore, Width, DevnetMirrorsRegistry
<1>2. QED
  BY <1>1, SteadyInvariant, PTL

=============================================================================
