------------------------- MODULE ServiceTermsProofs -------------------------
(***************************************************************************)
(* Proofs about ServiceTerms, for any accounts, prices, delays and bounds. *)
(* The inductive invariant is a predicate of one record and the clock,     *)
(* since every transaction rewrites at most one record.                    *)
(***************************************************************************)
EXTENDS ServiceTerms, TLAPS

\* A slot is well formed: typed, each queue slot occupied exactly while its
\* maturity is set, and set up if registered.
WellFormed(s) ==
  /\ s \in Service
  /\ s.attestorEffectiveAt # 0 <=> s.pendingAttestor # NoOne
  /\ s.paymentTargetEffectiveAt # 0 <=> s.pendingPaymentTarget # NoOne
  /\ s.acceptsEffectiveAt # 0 <=> s.pendingAccepts # 0
  /\ s.owner # NoOne => /\ s.attestor # NoOne
                        /\ s.paymentTarget # NoOne
                        /\ s.accepts # 0

\* The witnesses of a record, stored and queued, against its payees.
WitnessApart(s) == {s.attestor, s.pendingAttestor} \cap PayeesOf(s) = {}

\* The owner of a record against the witness live now and the queued one.
OwnerApart(s) ==
  s.owner # NoOne => s.owner \notin {EffectiveAttestor(s), s.pendingAttestor}

RecordOK(s) == WellFormed(s) /\ WitnessApart(s) /\ OwnerApart(s)

IInv ==
  /\ now \in Nat
  /\ servicesCount \in 0 .. MaxServices
  /\ services \in [ServiceId -> Service]
  /\ \A id \in ServiceId : RecordOK(services[id])
  /\ \A id \in ServiceId : Registered(id) <=> id <= servicesCount

-----------------------------------------------------------------------------

\* An unwritten slot is well formed.
LEMMA UnregisteredOK == RecordOK(Unregistered)
<1>1. Unregistered \in Service
  BY UrlAssumption DEF Unregistered, Service, Address
<1>2. QED
  BY <1>1 DEF RecordOK, WellFormed, WitnessApart, OwnerApart, PayeesOf, Unregistered

\* The invariant is the conjunction of the properties the runs check.
LEMMA IInvImplies ==
  IInv => TermsTypeOK /\ WitnessIsNoPayee /\ WitnessIsNotOwner
  BY DEF IInv, TermsTypeOK, WitnessIsNoPayee, WitnessIsNotOwner,
         RecordOK, WellFormed, WitnessApart, OwnerApart, Registered

\* The empty registry satisfies the invariant.
LEMMA InitIInv == TermsInit => IInv
<1> SUFFICES ASSUME TermsInit PROVE IInv
  OBVIOUS
<1>1. Unregistered \in Service
  BY UnregisteredOK DEF RecordOK, WellFormed
<1>2. servicesCount \in 0 .. MaxServices
  BY BoundAssumption DEF TermsInit
<1>3. \A id \in ServiceId : ~Registered(id) /\ ~(id <= servicesCount)
  BY DEF TermsInit, Registered, Unregistered, ServiceId
<1>4. QED
  BY <1>1, <1>2, <1>3, UnregisteredOK DEF TermsInit, IInv

-----------------------------------------------------------------------------
(***************************************************************************)
(* Folding a matured change keeps a record in order.                       *)
(***************************************************************************)

\* Folding a matured witness keeps a record in order and every party where
\* it was.
LEMMA PromoteAttestorOK ==
  ASSUME NEW s, RecordOK(s)
  PROVE  /\ RecordOK(PromoteAttestor(s))
         /\ PromoteAttestor(s).attestor = EffectiveAttestor(s)
         /\ PromoteAttestor(s).owner = s.owner
<1>1. CASE ~Matured(s.attestorEffectiveAt)
  BY <1>1 DEF PromoteAttestor, EffectiveAttestor
<1>2. CASE Matured(s.attestorEffectiveAt)
  <2> DEFINE r == [s EXCEPT !.attestor = s.pendingAttestor,
                            !.pendingAttestor = NoOne,
                            !.attestorEffectiveAt = 0]
  <2>1. PromoteAttestor(s) = r
    BY <1>2 DEF PromoteAttestor
  <2>2. WellFormed(r)
    BY <1>2 DEF RecordOK, WellFormed, Matured, Service, Address
  <2>3. WitnessApart(r)
    BY DEF RecordOK, WellFormed, WitnessApart, PayeesOf, Service
  <2>4. OwnerApart(r) /\ r.attestor = EffectiveAttestor(s) /\ r.owner = s.owner
    BY <1>2 DEF RecordOK, WellFormed, OwnerApart, EffectiveAttestor, Matured, Service
  <2>5. QED
    BY <2>1, <2>2, <2>3, <2>4 DEF RecordOK
<1>3. QED
  BY <1>1, <1>2

\* Folding a matured payee keeps a record in order, and adds no payee.
LEMMA PromotePaymentTargetOK ==
  ASSUME NEW s, RecordOK(s)
  PROVE  /\ RecordOK(PromotePaymentTarget(s))
         /\ PromotePaymentTarget(s).owner = s.owner
         /\ PromotePaymentTarget(s).attestor = s.attestor
         /\ PromotePaymentTarget(s).pendingAttestor = s.pendingAttestor
<1>1. CASE ~Matured(s.paymentTargetEffectiveAt)
  BY <1>1 DEF PromotePaymentTarget
<1>2. CASE Matured(s.paymentTargetEffectiveAt)
  <2> DEFINE r == [s EXCEPT !.previousPaymentTarget = s.paymentTarget,
                            !.paymentTarget = s.pendingPaymentTarget,
                            !.pendingPaymentTarget = NoOne,
                            !.paymentTargetEffectiveAt = 0]
  <2>1. PromotePaymentTarget(s) = r
    BY <1>2 DEF PromotePaymentTarget
  <2>2. WellFormed(r)
    BY <1>2 DEF RecordOK, WellFormed, Matured, Service, Address
  <2>3. WitnessApart(r)
    BY DEF RecordOK, WellFormed, WitnessApart, PayeesOf, Service
  <2>4. OwnerApart(r)
    BY DEF RecordOK, WellFormed, OwnerApart, EffectiveAttestor, Service
  <2>5. QED
    BY <2>1, <2>2, <2>3, <2>4 DEF RecordOK, WellFormed, Service
<1>3. QED
  BY <1>1, <1>2

\* Folding a matured price keeps a record in order and leaves its parties.
LEMMA PromoteAcceptsOK ==
  ASSUME NEW s, RecordOK(s)
  PROVE  /\ RecordOK(PromoteAccepts(s))
         /\ PromoteAccepts(s).owner = s.owner
<1>1. CASE ~Matured(s.acceptsEffectiveAt)
  BY <1>1 DEF PromoteAccepts
<1>2. CASE Matured(s.acceptsEffectiveAt)
  <2> DEFINE r == [s EXCEPT !.previousNativePrice = s.accepts,
                            !.accepts = s.pendingAccepts,
                            !.pendingAccepts = 0,
                            !.acceptsEffectiveAt = 0]
  <2>1. PromoteAccepts(s) = r
    BY <1>2 DEF PromoteAccepts
  <2>2. WellFormed(r)
    BY <1>2 DEF RecordOK, WellFormed, Matured, Service, Address
  <2>3. WitnessApart(r) /\ OwnerApart(r) /\ r.owner = s.owner
    BY DEF RecordOK, WellFormed, WitnessApart, OwnerApart, EffectiveAttestor,
           PayeesOf, Service
  <2>4. QED
    BY <2>1, <2>2, <2>3 DEF RecordOK
<1>3. QED
  BY <1>1, <1>2

-----------------------------------------------------------------------------
(***************************************************************************)
(* Each transaction stores one record that is in order.                    *)
(***************************************************************************)

\* Storing a record that is in order, for an owner, keeps the invariant.
LEMMA StoreOK ==
  ASSUME IInv, NEW id \in ServiceId, Registered(id),
         NEW r, RecordOK(r), r.owner # NoOne,
         services' = [services EXCEPT ![id] = r],
         UNCHANGED <<now, servicesCount>>
  PROVE  IInv'
<1>1. RecordOK(r)'
  BY DEF RecordOK, WellFormed, WitnessApart, OwnerApart, PayeesOf, EffectiveAttestor, Matured
<1>2. services' \in [ServiceId -> Service]
  BY DEF IInv, RecordOK, WellFormed
<1>3. \A k \in ServiceId : RecordOK(services[k])'
  <2> TAKE k \in ServiceId
  <2>1. CASE k = id
    BY <2>1, <1>1 DEF IInv
  <2>2. CASE k # id
    <3>1. services'[k] = services[k] /\ RecordOK(services[k])
      BY <2>2 DEF IInv
    <3>2. QED
      BY <3>1 DEF RecordOK, WellFormed, WitnessApart, OwnerApart, PayeesOf,
                  EffectiveAttestor, Matured
  <2>3. QED
    BY <2>1, <2>2
<1>4. \A k \in ServiceId : Registered(k)' <=> k <= servicesCount'
  BY DEF IInv, Registered
<1>5. QED
  BY <1>2, <1>3, <1>4 DEF IInv

\* registerService stores a record in order under the next id.
LEMMA RegisterServiceOK ==
  ASSUME IInv, NEW sender \in Account, NEW url \in Url, NEW price \in Price,
         NEW target \in Account, NEW witness \in Account,
         RegisterService(sender, url, price, target, witness)
  PROVE  IInv'
<1> DEFINE id == servicesCount + 1
           r == [Unregistered EXCEPT !.owner = sender, !.active = TRUE,
                                     !.gatewayBaseUrl = url, !.accepts = price,
                                     !.paymentTarget = target, !.attestor = witness]
<1>1. id \in ServiceId /\ servicesCount' = id /\ now' = now
  BY BoundAssumption DEF RegisterService, IInv, ServiceId
<1>2. services' = [services EXCEPT ![id] = r]
  BY DEF RegisterService
<1>3. r \in Service
  BY UrlAssumption, AccountAssumption DEF Unregistered, Service, Address
<1>4. RecordOK(r)' /\ r.owner # NoOne
  BY <1>3, AccountAssumption, PriceAssumption
     DEF RegisterService, RecordOK, WellFormed, WitnessApart, OwnerApart, PayeesOf,
         EffectiveAttestor, Matured, Unregistered
<1>5. \A k \in ServiceId : RecordOK(services[k])'
  <2> TAKE k \in ServiceId
  <2>1. CASE k = id
    BY <2>1, <1>1, <1>2, <1>4 DEF IInv
  <2>2. CASE k # id
    <3>1. services'[k] = services[k] /\ RecordOK(services[k]) /\ now' = now
      BY <2>2, <1>1, <1>2 DEF IInv
    <3>2. QED
      BY <3>1 DEF RecordOK, WellFormed, WitnessApart, OwnerApart, PayeesOf,
                  EffectiveAttestor, Matured
  <2>3. QED
    BY <2>1, <2>2
<1>6. services' \in [ServiceId -> Service]
  BY <1>1, <1>2, <1>3 DEF IInv
<1>7. \A k \in ServiceId : Registered(k)' <=> k <= servicesCount'
  <2> TAKE k \in ServiceId
  <2>1. CASE k = id
    BY <2>1, <1>1, <1>2, <1>4 DEF IInv, Registered
  <2>2. CASE k # id
    BY <2>2, <1>1, <1>2 DEF IInv, Registered, ServiceId
  <2>3. QED
    BY <2>1, <2>2
<1>8. QED
  BY <1>1, <1>5, <1>6, <1>7 DEF IInv, ServiceId

\* setAttestor keeps the invariant: it refuses the owner and every payee,
\* live, queued or displaced.
LEMMA SetAttestorOK ==
  ASSUME IInv, NEW sender \in Account, NEW id \in ServiceId, NEW witness \in Account,
         SetAttestor(sender, id, witness)
  PROVE  IInv'
<1> DEFINE s == services[id]
           p == PromoteAttestor(s)
           r == [p EXCEPT !.pendingAttestor = witness,
                          !.attestorEffectiveAt = now + AttestorDelay]
<1>1. /\ Registered(id) /\ s.owner # NoOne
      /\ witness \notin {NoOne, s.owner, s.paymentTarget,
                         s.pendingPaymentTarget, s.previousPaymentTarget}
      /\ services' = [services EXCEPT ![id] = r]
      /\ UNCHANGED <<now, servicesCount>>
  BY DEF SetAttestor, OwnerSets, Registered
<1>2. RecordOK(s) /\ now \in Nat
  BY DEF IInv
<1>3. RecordOK(p) /\ p.attestor = EffectiveAttestor(s) /\ p.owner = s.owner
  BY <1>2, PromoteAttestorOK
<1>4. PayeesOf(p) = PayeesOf(s) /\ witness \notin PayeesOf(s)
  BY <1>1, <1>2 DEF PromoteAttestor, PayeesOf, RecordOK, WellFormed, Service
<1>5. WellFormed(r)
  <2>1. now + AttestorDelay \in Nat \ {0}
    BY <1>2, DelayAssumption
  <2>2. p \in Service /\ WellFormed(p)
    BY <1>3 DEF RecordOK, WellFormed
  <2> HIDE DEF p
  <2>3. r \in Service
    BY <2>1, <2>2 DEF Service, Address
  <2>4. QED
    BY <1>1, <1>3, <2>1, <2>2, <2>3 DEF WellFormed, Service
<1>6. WitnessApart(r)
  BY <1>3, <1>4 DEF RecordOK, WellFormed, WitnessApart, PayeesOf, Service
<1>7. OwnerApart(r)
  <2>1. r.owner = s.owner /\ r.pendingAttestor = witness
    BY <1>3 DEF RecordOK, WellFormed, Service
  <2>2. EffectiveAttestor(r) \in {witness, p.attestor}
    BY <1>3 DEF RecordOK, WellFormed, Service, EffectiveAttestor
  <2>3. s.owner # EffectiveAttestor(s)
    BY <1>1, <1>2 DEF RecordOK, OwnerApart
  <2>4. QED
    BY <1>1, <1>3, <2>1, <2>2, <2>3 DEF OwnerApart
<1>8. r.owner # NoOne
  BY <1>1, <1>3 DEF RecordOK, WellFormed, Service
<1>9. RecordOK(r)
  BY <1>5, <1>6, <1>7 DEF RecordOK
<1> HIDE DEF r
<1>10. QED
  BY <1>1, <1>8, <1>9, StoreOK

\* setPaymentTarget keeps the invariant: it refuses the live and the queued
\* witness.
LEMMA SetPaymentTargetOK ==
  ASSUME IInv, NEW sender \in Account, NEW id \in ServiceId, NEW target \in Account,
         SetPaymentTarget(sender, id, target)
  PROVE  IInv'
<1> DEFINE s == services[id]
           p == PromotePaymentTarget(s)
           r == [p EXCEPT !.pendingPaymentTarget = target,
                          !.paymentTargetEffectiveAt = now + TermsDelay]
<1>1. /\ Registered(id) /\ s.owner # NoOne
      /\ target \notin {NoOne, s.attestor, s.pendingAttestor}
      /\ services' = [services EXCEPT ![id] = r]
      /\ UNCHANGED <<now, servicesCount>>
  BY DEF SetPaymentTarget, OwnerSets, Registered
<1>2. RecordOK(s) /\ now \in Nat
  BY DEF IInv
<1>3. /\ RecordOK(p) /\ p.owner = s.owner
      /\ p.attestor = s.attestor /\ p.pendingAttestor = s.pendingAttestor
  BY <1>2, PromotePaymentTargetOK
<1>4. WellFormed(r) /\ r.owner = s.owner
  <2>1. now + TermsDelay \in Nat \ {0}
    BY <1>2, DelayAssumption
  <2>2. p \in Service /\ WellFormed(p)
    BY <1>3 DEF RecordOK, WellFormed
  <2> HIDE DEF p
  <2>3. r \in Service
    BY <2>1, <2>2 DEF Service, Address
  <2>4. QED
    BY <1>1, <1>3, <2>1, <2>2, <2>3 DEF WellFormed, Service
<1>5. WitnessApart(r)
  BY <1>1, <1>3 DEF RecordOK, WellFormed, WitnessApart, PayeesOf, Service
<1>6. OwnerApart(r)
  BY <1>3 DEF RecordOK, WellFormed, OwnerApart, EffectiveAttestor, Service
<1>7. RecordOK(r)
  BY <1>4, <1>5, <1>6 DEF RecordOK
<1> HIDE DEF r
<1>8. QED
  BY <1>1, <1>4, <1>7, StoreOK

\* setAccepts keeps the invariant: it moves no address.
LEMMA SetAcceptsOK ==
  ASSUME IInv, NEW sender \in Account, NEW id \in ServiceId, NEW price \in Price,
         SetAccepts(sender, id, price)
  PROVE  IInv'
<1> DEFINE s == services[id]
           p == PromoteAccepts(s)
           r == [p EXCEPT !.pendingAccepts = price,
                          !.acceptsEffectiveAt = now + TermsDelay]
<1>1. /\ Registered(id) /\ s.owner # NoOne
      /\ services' = [services EXCEPT ![id] = r]
      /\ UNCHANGED <<now, servicesCount>>
  BY DEF SetAccepts, OwnerSets, Registered
<1>2. RecordOK(s) /\ now \in Nat
  BY DEF IInv
<1>3. RecordOK(p) /\ p.owner = s.owner
  BY <1>2, PromoteAcceptsOK
<1>4. WellFormed(r) /\ r.owner = s.owner
  <2>1. now + TermsDelay \in Nat \ {0}
    BY <1>2, DelayAssumption
  <2>2. p \in Service /\ WellFormed(p)
    BY <1>3 DEF RecordOK, WellFormed
  <2> HIDE DEF p
  <2>3. r \in Service
    BY <2>1, <2>2, PriceAssumption DEF Service, Address
  <2>4. QED
    BY <1>1, <1>3, <2>1, <2>2, <2>3, PriceAssumption DEF WellFormed, Service
<1>5. WitnessApart(r) /\ OwnerApart(r)
  BY <1>3 DEF RecordOK, WellFormed, WitnessApart, OwnerApart, EffectiveAttestor,
              PayeesOf, Service
<1>6. RecordOK(r)
  BY <1>4, <1>5 DEF RecordOK
<1> HIDE DEF r
<1>7. QED
  BY <1>1, <1>4, <1>6, StoreOK

\* setActive, setGatewayBaseUrl, transferOwnership: no field of the rule moves.
LEMMA PlainSettersOK ==
  ASSUME IInv, NEW sender \in Account, NEW id \in ServiceId,
         \/ \E active \in BOOLEAN : SetActive(sender, id, active)
         \/ \E url \in Url : SetGatewayBaseUrl(sender, id, url)
         \/ \E newOwner \in Address : TransferOwnership(sender, id, newOwner)
  PROVE  IInv'
<1> DEFINE s == services[id]
<1>1. RecordOK(s)
  BY DEF IInv
<1>2. PICK r : /\ Registered(id)
               /\ services' = [services EXCEPT ![id] = r]
               /\ UNCHANGED <<now, servicesCount>>
               /\ \/ \E active \in BOOLEAN : r = [s EXCEPT !.active = active]
                  \/ \E url \in Url : r = [s EXCEPT !.gatewayBaseUrl = url]
                  \/ \E newOwner \in Address : r = [s EXCEPT !.pendingOwner = newOwner]
  BY DEF SetActive, SetGatewayBaseUrl, TransferOwnership, OwnerSets
<1>3. WellFormed(r) /\ r.owner = s.owner
  BY <1>1, <1>2 DEF RecordOK, WellFormed, Service
<1>4. WitnessApart(r) /\ OwnerApart(r)
  BY <1>1, <1>2 DEF RecordOK, WellFormed, WitnessApart, OwnerApart, EffectiveAttestor,
                    PayeesOf, Service
<1>5. RecordOK(r) /\ r.owner # NoOne
  BY <1>2, <1>3, <1>4 DEF RecordOK, Registered
<1>6. QED
  BY <1>2, <1>5, StoreOK

\* acceptOwnership keeps the invariant: it refuses the live and the queued
\* witness as owner.
LEMMA AcceptOwnershipOK ==
  ASSUME IInv, NEW sender \in Account, NEW id \in ServiceId,
         AcceptOwnership(sender, id)
  PROVE  IInv'
<1> DEFINE s == services[id]
           r == [s EXCEPT !.owner = sender, !.pendingOwner = NoOne]
<1>1. RecordOK(s) /\ s \in Service
  BY DEF IInv, RecordOK, WellFormed
<1>2. /\ Registered(id)
      /\ sender \notin {EffectiveAttestor(s), s.pendingAttestor}
      /\ services' = [services EXCEPT ![id] = r]
      /\ UNCHANGED <<now, servicesCount>>
  BY <1>1 DEF AcceptOwnership, IInv
<1>3. WellFormed(r) /\ r.owner # NoOne
  BY <1>1, <1>2, AccountAssumption
     DEF RecordOK, WellFormed, Service, Address, Registered
<1>4. WitnessApart(r) /\ OwnerApart(r)
  BY <1>1, <1>2 DEF RecordOK, WellFormed, WitnessApart, OwnerApart, EffectiveAttestor,
                    PayeesOf, Service
<1>5. RecordOK(r)
  BY <1>3, <1>4 DEF RecordOK
<1> HIDE DEF r
<1>6. QED
  BY <1>2, <1>3, <1>5, StoreOK

\* A rotation that matures hands over to a witness that was checked when queued.
LEMMA TickOK ==
  ASSUME IInv, Tick
  PROVE  IInv'
<1>1. now' \in Nat /\ UNCHANGED <<servicesCount, services>>
  BY DEF IInv, Tick
<1>2. \A id \in ServiceId : RecordOK(services[id])'
  <2> TAKE id \in ServiceId
  <2>1. RecordOK(services[id]) /\ services'[id] = services[id]
    BY <1>1 DEF IInv
  <2>2. WellFormed(services[id])' /\ WitnessApart(services[id])'
    BY <2>1 DEF RecordOK, WellFormed, WitnessApart, PayeesOf
  <2>3. OwnerApart(services[id])'
    <3>1. EffectiveAttestor(services[id])' \in
            {services[id].attestor, services[id].pendingAttestor}
      BY <2>1 DEF EffectiveAttestor
    <3>2. Matured(services[id].attestorEffectiveAt)
            => EffectiveAttestor(services[id])' = services[id].pendingAttestor
      BY <2>1, <1>1 DEF EffectiveAttestor, Matured, IInv, Tick, RecordOK, WellFormed, Service
    <3>3. QED
      BY <2>1, <3>1, <3>2 DEF RecordOK, OwnerApart, EffectiveAttestor
  <2>4. QED
    BY <2>2, <2>3 DEF RecordOK
<1>3. QED
  BY <1>1, <1>2 DEF IInv, Registered

\* Every step of the registry's terms keeps the invariant.
LEMMA NextIInv == IInv /\ [TermsNext]_termsVars => IInv'
<1> SUFFICES ASSUME IInv, [TermsNext]_termsVars PROVE IInv'
  OBVIOUS
<1>1. CASE \E sender, target, witness \in Account, url \in Url, price \in Price :
             RegisterService(sender, url, price, target, witness)
  BY <1>1, RegisterServiceOK
<1>2. CASE \E sender \in Account, id \in ServiceId : OwnerTransaction(sender, id)
  <2>1. PICK sender \in Account, id \in ServiceId : OwnerTransaction(sender, id)
    BY <1>2
  <2>2. QED
    BY <2>1, SetAttestorOK, SetPaymentTargetOK, SetAcceptsOK, PlainSettersOK
       DEF OwnerTransaction
<1>3. CASE \E sender \in Account, id \in ServiceId : AcceptOwnership(sender, id)
  BY <1>3, AcceptOwnershipOK
<1>4. CASE Tick
  BY <1>4, TickOK
<1>5. CASE UNCHANGED termsVars
  BY <1>5 DEF termsVars, IInv, RecordOK, WellFormed, WitnessApart, OwnerApart,
              PayeesOf, EffectiveAttestor, Matured, Registered
<1>6. QED
  BY <1>1, <1>2, <1>3, <1>4, <1>5 DEF TermsNext

\* The invariant of the service records holds throughout: every record is
\* well typed and no witness is a party to the money or to the ownership.
THEOREM TermsInvariant == TermsSpec => []IInv
<1>1. TermsInit => IInv
  BY InitIInv
<1>2. IInv /\ [TermsNext]_termsVars => IInv'
  BY NextIInv
<1>3. QED
  BY <1>1, <1>2, PTL DEF TermsSpec

\* Every behaviour of the service records is type correct.
THEOREM TermsTypeCorrect == TermsSpec => []TermsTypeOK
<1>1. IInv => TermsTypeOK
  BY IInvImplies
<1>2. QED
  BY <1>1, TermsInvariant, PTL

\* Under any interleaving of the owner's transactions and the clock, the
\* witness of a service and the one it has queued stay apart from the current,
\* the queued and the displaced payee.
THEOREM WitnessNeverPayee == TermsSpec => []WitnessIsNoPayee
<1>1. IInv => WitnessIsNoPayee
  BY IInvImplies
<1>2. QED
  BY <1>1, TermsInvariant, PTL

\* No handover and no rotation ever makes a service's owner its live witness.
THEOREM WitnessNeverOwner == TermsSpec => []WitnessIsNotOwner
<1>1. IInv => WitnessIsNotOwner
  BY IInvImplies
<1>2. QED
  BY <1>1, TermsInvariant, PTL

-----------------------------------------------------------------------------
(***************************************************************************)
(* Only time moves the terms: folding a matured change shows the same live *)
(* and displaced values, and a change queued now is not mature.            *)
(***************************************************************************)

\* What setAttestor stores has the live terms of what it found.
LEMMA QueueAttestorTerms ==
  ASSUME now \in Nat, NEW s \in Service, NEW witness \in Account,
         NEW r, r = [PromoteAttestor(s) EXCEPT !.pendingAttestor = witness,
                                               !.attestorEffectiveAt = now + AttestorDelay]
  PROVE  Terms(r) = Terms(s)
<1>1. ~Matured(now + AttestorDelay)
  BY DelayAssumption DEF Matured
<1>2. ~Matured(0)
  BY DEF Matured
<1>3. EffectiveAttestor(r) = EffectiveAttestor(s)
  BY <1>1, <1>2 DEF PromoteAttestor, EffectiveAttestor, Service
<1>4. QED
  BY <1>3 DEF Terms, PromoteAttestor, EffectivePaymentTarget, DisplacedPaymentTarget,
              EffectiveNativePrice, DisplacedNativePrice, Service

\* What setPaymentTarget stores has the live terms of what it found.
LEMMA QueuePaymentTargetTerms ==
  ASSUME now \in Nat, NEW s \in Service, NEW target \in Account,
         NEW r, r = [PromotePaymentTarget(s) EXCEPT !.pendingPaymentTarget = target,
                                                    !.paymentTargetEffectiveAt = now + TermsDelay]
  PROVE  Terms(r) = Terms(s)
<1>1. ~Matured(now + TermsDelay)
  BY DelayAssumption DEF Matured
<1>2. /\ EffectivePaymentTarget(r) = EffectivePaymentTarget(s)
      /\ DisplacedPaymentTarget(r) = DisplacedPaymentTarget(s)
  BY <1>1 DEF PromotePaymentTarget, EffectivePaymentTarget, DisplacedPaymentTarget, Service
<1>3. QED
  BY <1>2 DEF Terms, PromotePaymentTarget, EffectiveAttestor,
              EffectiveNativePrice, DisplacedNativePrice, Service

\* What setAccepts stores has the live terms of what it found.
LEMMA QueueAcceptsTerms ==
  ASSUME now \in Nat, NEW s \in Service, NEW price \in Price,
         NEW r, r = [PromoteAccepts(s) EXCEPT !.pendingAccepts = price,
                                              !.acceptsEffectiveAt = now + TermsDelay]
  PROVE  Terms(r) = Terms(s)
<1>1. ~Matured(now + TermsDelay)
  BY DelayAssumption DEF Matured
<1>2. /\ EffectiveNativePrice(r) = EffectiveNativePrice(s)
      /\ DisplacedNativePrice(r) = DisplacedNativePrice(s)
  BY <1>1 DEF PromoteAccepts, EffectiveNativePrice, DisplacedNativePrice, Service
<1>3. QED
  BY <1>2 DEF Terms, PromoteAccepts, EffectiveAttestor,
              EffectivePaymentTarget, DisplacedPaymentTarget, Service

\* The other owner transactions touch no field that Terms reads.
LEMMA PlainFieldTerms ==
  ASSUME NEW s \in Service, NEW r,
         \/ \E active \in BOOLEAN : r = [s EXCEPT !.active = active]
         \/ \E url \in Url : r = [s EXCEPT !.gatewayBaseUrl = url]
         \/ \E newOwner \in Address : r = [s EXCEPT !.pendingOwner = newOwner]
         \/ \E sender \in Account : r = [s EXCEPT !.owner = sender, !.pendingOwner = NoOne]
  PROVE  Terms(r) = Terms(s)
  BY DEF Terms, EffectiveAttestor, EffectivePaymentTarget, DisplacedPaymentTarget,
         EffectiveNativePrice, DisplacedNativePrice, Service

\* A transaction on `id` stores a record with the terms it had.
LEMMA TransactionTerms ==
  ASSUME IInv, NEW sender \in Account, NEW id \in ServiceId,
         OwnerTransaction(sender, id) \/ AcceptOwnership(sender, id)
  PROVE  /\ now' = now
         /\ \E r : services' = [services EXCEPT ![id] = r] /\ Terms(r) = Terms(services[id])
<1> DEFINE s == services[id]
<1>1. now \in Nat /\ s \in Service
  BY DEF IInv
<1>2. CASE \E witness \in Account : SetAttestor(sender, id, witness)
  <2>1. PICK witness \in Account : SetAttestor(sender, id, witness)
    BY <1>2
  <2> DEFINE r == [PromoteAttestor(s) EXCEPT !.pendingAttestor = witness,
                            !.attestorEffectiveAt = now + AttestorDelay]
  <2>2. now' = now /\ services' = [services EXCEPT ![id] = r]
    BY <2>1 DEF SetAttestor, OwnerSets
  <2>3. Terms(r) = Terms(s)
    BY <1>1, QueueAttestorTerms
  <2>4. QED
    BY <2>2, <2>3
<1>3. CASE \E target \in Account : SetPaymentTarget(sender, id, target)
  <2>1. PICK target \in Account : SetPaymentTarget(sender, id, target)
    BY <1>3
  <2> DEFINE r == [PromotePaymentTarget(s) EXCEPT !.pendingPaymentTarget = target,
                            !.paymentTargetEffectiveAt = now + TermsDelay]
  <2>2. now' = now /\ services' = [services EXCEPT ![id] = r]
    BY <2>1 DEF SetPaymentTarget, OwnerSets
  <2>3. Terms(r) = Terms(s)
    BY <1>1, QueuePaymentTargetTerms
  <2>4. QED
    BY <2>2, <2>3
<1>4. CASE \E price \in Price : SetAccepts(sender, id, price)
  <2>1. PICK price \in Price : SetAccepts(sender, id, price)
    BY <1>4
  <2> DEFINE r == [PromoteAccepts(s) EXCEPT !.pendingAccepts = price,
                            !.acceptsEffectiveAt = now + TermsDelay]
  <2>2. now' = now /\ services' = [services EXCEPT ![id] = r]
    BY <2>1 DEF SetAccepts, OwnerSets
  <2>3. Terms(r) = Terms(s)
    BY <1>1, QueueAcceptsTerms
  <2>4. QED
    BY <2>2, <2>3
<1>5. CASE \/ \E active \in BOOLEAN : SetActive(sender, id, active)
           \/ \E url \in Url : SetGatewayBaseUrl(sender, id, url)
           \/ \E newOwner \in Address : TransferOwnership(sender, id, newOwner)
           \/ AcceptOwnership(sender, id)
  <2>1. PICK r :
          /\ now' = now
          /\ services' = [services EXCEPT ![id] = r]
          /\ \/ \E active \in BOOLEAN : r = [s EXCEPT !.active = active]
             \/ \E url \in Url : r = [s EXCEPT !.gatewayBaseUrl = url]
             \/ \E newOwner \in Address : r = [s EXCEPT !.pendingOwner = newOwner]
             \/ r = [s EXCEPT !.owner = sender, !.pendingOwner = NoOne]
    <3>1. CASE AcceptOwnership(sender, id)
      <4>1. services' = [services EXCEPT ![id] = [s EXCEPT !.owner = sender, !.pendingOwner = NoOne]]
        BY <3>1 DEF AcceptOwnership, IInv
      <4>2. QED
        BY <3>1, <4>1 DEF AcceptOwnership
    <3>2. QED
      BY <1>5, <3>1 DEF SetActive, SetGatewayBaseUrl, TransferOwnership, OwnerSets
  <2>2. Terms(r) = Terms(s)
    BY <1>1, <2>1, PlainFieldTerms
  <2>3. QED
    BY <2>1, <2>2
<1>6. QED
  BY <1>2, <1>3, <1>4, <1>5 DEF OwnerTransaction

\* A step at one instant leaves the live terms of a registered service.
LEMMA TermsStep ==
  ASSUME IInv, TermsNext, NEW id \in ServiceId, Registered(id), now' = now
  PROVE  Terms(services[id])' = Terms(services[id])
<1>1. services'[id] = services[id] => Terms(services[id])' = Terms(services[id])
  BY DEF Terms, EffectiveAttestor, EffectivePaymentTarget, DisplacedPaymentTarget,
         EffectiveNativePrice, DisplacedNativePrice, Matured
<1>2. CASE \E sender, target, witness \in Account, url \in Url, price \in Price :
             RegisterService(sender, url, price, target, witness)
  <2>1. id # servicesCount + 1
    BY DEF IInv, ServiceId
  <2>2. services'[id] = services[id]
    BY <1>2, <2>1 DEF RegisterService, IInv
  <2>3. QED
    BY <1>1, <2>2
<1>3. CASE \E sender \in Account, k \in ServiceId :
             OwnerTransaction(sender, k) \/ AcceptOwnership(sender, k)
  <2>1. PICK sender \in Account, k \in ServiceId :
          OwnerTransaction(sender, k) \/ AcceptOwnership(sender, k)
    BY <1>3
  <2>2. PICK r : services' = [services EXCEPT ![k] = r] /\ Terms(r) = Terms(services[k])
    BY <2>1, TransactionTerms
  <2>3. CASE k = id
    <3>1. services'[id] = r /\ Terms(r) = Terms(services[id])
      BY <2>2, <2>3 DEF IInv
    <3>2. QED
      BY <3>1 DEF Terms, EffectiveAttestor, EffectivePaymentTarget, DisplacedPaymentTarget,
                  EffectiveNativePrice, DisplacedNativePrice, Matured
  <2>4. CASE k # id
    BY <1>1, <2>2, <2>4 DEF IInv
  <2>5. QED
    BY <2>3, <2>4
<1>4. ~Tick
  BY DEF Tick, IInv
<1>5. QED
  BY <1>2, <1>3, <1>4 DEF TermsNext

\* No transaction of anybody moves the live attestor, payee or price of a
\* registered service, or the displaced ones.
THEOREM TermsMoveWithTime == TermsSpec => OnlyTimeMovesTerms
<1> DEFINE A == \A id \in ServiceId :
                  Registered(id) /\ Terms(services[id])' # Terms(services[id]) => now' > now
<1>1. IInv /\ [TermsNext]_termsVars => [A]_termsVars
  <2> SUFFICES ASSUME IInv, TermsNext PROVE A
    OBVIOUS
  <2>1. now' = now \/ now' > now
    <3>1. now' = now \/ Tick
      BY TransactionTerms DEF TermsNext, RegisterService
    <3>2. QED
      BY <3>1 DEF Tick, IInv
  <2>2. QED
    BY <2>1, TermsStep
<1>2. QED
  BY <1>1, TermsInvariant, PTL DEF TermsSpec, OnlyTimeMovesTerms

\* A slot after a transaction: as it was, emptied once its change matured, or
\* queued for a whole delay from now.
QueuedLate(before, after) ==
  \/ after \in {before, now + TermsDelay}
  \/ Matured(before) /\ after = 0

\* No transaction queues a change for sooner than a whole delay from now.
LEMMA TermsAreQueuedLate ==
  ASSUME IInv, TermsNext, NEW id \in ServiceId, Registered(id), now' = now
  PROVE  /\ QueuedLate(services[id].paymentTargetEffectiveAt,
                       services'[id].paymentTargetEffectiveAt)
         /\ QueuedLate(services[id].acceptsEffectiveAt, services'[id].acceptsEffectiveAt)
<1> DEFINE s == services[id]
<1>1. s \in Service /\ services \in [ServiceId -> Service]
  BY DEF IInv
<1>2. CASE s' = s
  BY <1>2 DEF QueuedLate
<1>3. CASE \E sender, target, witness \in Account, url \in Url, price \in Price :
             RegisterService(sender, url, price, target, witness)
  <2>1. id # servicesCount + 1
    BY DEF IInv, ServiceId
  <2>2. QED
    BY <1>1, <1>2, <1>3, <2>1 DEF RegisterService
<1>4. CASE \E sender \in Account, k \in ServiceId :
             OwnerTransaction(sender, k) \/ AcceptOwnership(sender, k)
  <2>1. PICK sender \in Account, k \in ServiceId :
          OwnerTransaction(sender, k) \/ AcceptOwnership(sender, k)
    BY <1>4
  <2>2. PICK r : services' = [services EXCEPT ![k] = r]
    BY <2>1, TransactionTerms
  <2>3. CASE k # id
    BY <1>1, <1>2, <2>2, <2>3
  <2>4. CASE k = id
    <3>1. CASE \E target \in Account : SetPaymentTarget(sender, id, target)
      BY <1>1, <3>1 DEF SetPaymentTarget, OwnerSets, PromotePaymentTarget, QueuedLate, Service
    <3>2. CASE \E price \in Price : SetAccepts(sender, id, price)
      BY <1>1, <3>2 DEF SetAccepts, OwnerSets, PromoteAccepts, QueuedLate, Service
    <3>3. CASE \E witness \in Account : SetAttestor(sender, id, witness)
      BY <1>1, <3>3 DEF SetAttestor, OwnerSets, PromoteAttestor, QueuedLate, Service
    <3>4. CASE \/ \E active \in BOOLEAN : SetActive(sender, id, active)
               \/ \E url \in Url : SetGatewayBaseUrl(sender, id, url)
               \/ \E newOwner \in Address : TransferOwnership(sender, id, newOwner)
      BY <1>1, <3>4 DEF SetActive, SetGatewayBaseUrl, TransferOwnership, OwnerSets, QueuedLate, Service
    <3>5. CASE AcceptOwnership(sender, id)
      BY <1>1, <3>5 DEF AcceptOwnership, QueuedLate, Service
    <3>6. QED
      BY <2>1, <2>4, <3>1, <3>2, <3>3, <3>4, <3>5 DEF OwnerTransaction
  <2>5. QED
    BY <2>3, <2>4
<1>5. ~Tick
  BY DEF Tick, IInv
<1>6. QED
  BY <1>2, <1>3, <1>4, <1>5 DEF TermsNext

-----------------------------------------------------------------------------
(***************************************************************************)
(* What getService shows.                                                  *)
(***************************************************************************)

\* The record getService returns is the record of the live terms: folding one
\* term leaves the others as they were.
LEMMA FoldedRecord ==
  ASSUME NEW id \in ServiceId, IInv
  PROVE  LET s == services[id]
             out == GetService(id)
         IN  /\ out.attestor = EffectiveAttestor(s)
             /\ out.paymentTarget = EffectivePaymentTarget(s)
             /\ out.previousPaymentTarget = DisplacedPaymentTarget(s)
             /\ out.accepts = EffectiveNativePrice(s)
             /\ out.previousNativePrice = DisplacedNativePrice(s)
             /\ out.owner = s.owner /\ out.active = s.active
<1> DEFINE s == services[id]
           p == PromoteAccepts(s)
           q == PromotePaymentTarget(p)
           out == PromoteAttestor(q)
<1>1. s \in Service
  BY DEF IInv, RecordOK, WellFormed
<1>2. /\ p \in Service /\ p.owner = s.owner /\ p.active = s.active
      /\ p.accepts = EffectiveNativePrice(s)
      /\ p.previousNativePrice = DisplacedNativePrice(s)
      /\ p.attestor = s.attestor
      /\ p.pendingAttestor = s.pendingAttestor
      /\ p.attestorEffectiveAt = s.attestorEffectiveAt
      /\ p.paymentTarget = s.paymentTarget
      /\ p.pendingPaymentTarget = s.pendingPaymentTarget
      /\ p.previousPaymentTarget = s.previousPaymentTarget
      /\ p.paymentTargetEffectiveAt = s.paymentTargetEffectiveAt
  BY <1>1 DEF PromoteAccepts, EffectiveNativePrice, DisplacedNativePrice, Service
<1>3. /\ q \in Service /\ q.owner = p.owner /\ q.active = p.active
      /\ q.accepts = p.accepts
      /\ q.previousNativePrice = p.previousNativePrice
      /\ q.attestor = p.attestor
      /\ q.pendingAttestor = p.pendingAttestor
      /\ q.attestorEffectiveAt = p.attestorEffectiveAt
      /\ q.paymentTarget = EffectivePaymentTarget(s)
      /\ q.previousPaymentTarget = DisplacedPaymentTarget(s)
  <2> HIDE DEF p
  <2>1. CASE ~Matured(s.paymentTargetEffectiveAt)
    <3>1. q = p
      BY <1>2, <2>1 DEF PromotePaymentTarget
    <3>2. QED
      BY <1>2, <2>1, <3>1 DEF EffectivePaymentTarget, DisplacedPaymentTarget
  <2>2. CASE Matured(s.paymentTargetEffectiveAt)
    <3>1. q = [p EXCEPT !.previousPaymentTarget = p.paymentTarget,
                        !.paymentTarget = p.pendingPaymentTarget,
                        !.pendingPaymentTarget = NoOne,
                        !.paymentTargetEffectiveAt = 0]
      BY <1>2, <2>2 DEF PromotePaymentTarget
    <3> HIDE DEF q
    <3>2. q \in Service
      BY <1>2, <3>1 DEF Service, Address
    <3>3. QED
      BY <1>2, <2>2, <3>1, <3>2 DEF EffectivePaymentTarget, DisplacedPaymentTarget, Service
  <2>3. QED
    BY <2>1, <2>2
<1>4. /\ out.attestor = EffectiveAttestor(s)
      /\ out.owner = q.owner /\ out.active = q.active
      /\ out.accepts = q.accepts
      /\ out.previousNativePrice = q.previousNativePrice
      /\ out.paymentTarget = q.paymentTarget
      /\ out.previousPaymentTarget = q.previousPaymentTarget
  <2> HIDE DEF q, p
  <2>1. QED
    BY <1>2, <1>3 DEF PromoteAttestor, EffectiveAttestor, Service, Address
<1>5. QED
  <2>1. GetService(id) = out
    BY DEF GetService
  <2> HIDE DEF out, q, p
  <2>2. QED
    BY <1>2, <1>3, <1>4, <2>1

\* getService shows the terms that are live, and those they displaced, however
\* many matured changes nobody has written down.
THEOREM ReadersSeeLiveTerms == TermsSpec => []GetServiceShowsLiveTerms
<1>1. IInv => GetServiceShowsLiveTerms
  BY FoldedRecord DEF GetServiceShowsLiveTerms
<1>2. QED
  BY <1>1, TermsInvariant, PTL

=============================================================================
