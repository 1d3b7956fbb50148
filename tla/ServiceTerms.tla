---------------------------- MODULE ServiceTerms ----------------------------
(***************************************************************************)
(* The service records of AgentGateRegistry and the delayed changes to     *)
(* them.  An owner may queue a new attestor, a new payout address or a new *)
(* price list; each is authoritative only once its delay has passed, from  *)
(* that instant on whether or not a later transaction has folded it into   *)
(* storage.  The record keeps what the last matured change displaced.      *)
(*                                                                         *)
(* A transaction is one atomic action taken by its sender; a transaction   *)
(* that reverts changes nothing and is no action here.  A price list is    *)
(* represented by its listed native price, the only part the settlement    *)
(* path reads; the lists registerService and setAccepts refuse are the     *)
(* ones outside Price.                                                     *)
(***************************************************************************)
EXTENDS Integers

CONSTANTS
  Account,        \* addresses that can send a transaction
  NoOne,          \* address(0)
  Url,            \* gateway base URLs
  Price,          \* listed native prices at or above the floor
  MaxServices,    \* bound: services ever registered
  AttestorDelay,  \* ATTESTOR_ROTATION_DELAY_MS, in ticks of the clock
  TermsDelay,     \* TERMS_CHANGE_DELAY_MS, in ticks of the clock
  MaxTime         \* bound: the last block time of a behaviour

ASSUME AccountAssumption == NoOne \notin Account
ASSUME UrlAssumption == Url # {}
ASSUME PriceAssumption == Price \subseteq Nat \ {0}
ASSUME DelayAssumption ==
  /\ AttestorDelay \in Nat \ {0}
  /\ TermsDelay \in Nat \ {0}
ASSUME BoundAssumption == MaxServices \in Nat /\ MaxTime \in Nat

VARIABLES
  now,            \* block.timestamp
  servicesCount,  \* ids 1..servicesCount are registered
  services        \* _services, with _pendingAccepts folded into the record

termsVars == <<now, servicesCount, services>>

ServiceId == 1 .. MaxServices

Address == Account \cup {NoOne}

Service ==
  [ owner : Address, pendingOwner : Address, active : BOOLEAN, gatewayBaseUrl : Url,
    attestor : Address, pendingAttestor : Address, attestorEffectiveAt : Nat,
    paymentTarget : Address, pendingPaymentTarget : Address,
    previousPaymentTarget : Address, paymentTargetEffectiveAt : Nat,
    accepts : Price \cup {0}, pendingAccepts : Price \cup {0},
    previousNativePrice : Price \cup {0}, acceptsEffectiveAt : Nat ]

\* The all-zero slot of a mapping nobody has written.
Unregistered ==
  [ owner |-> NoOne, pendingOwner |-> NoOne, active |-> FALSE,
    gatewayBaseUrl |-> CHOOSE u \in Url : TRUE,
    attestor |-> NoOne, pendingAttestor |-> NoOne, attestorEffectiveAt |-> 0,
    paymentTarget |-> NoOne, pendingPaymentTarget |-> NoOne,
    previousPaymentTarget |-> NoOne, paymentTargetEffectiveAt |-> 0,
    accepts |-> 0, pendingAccepts |-> 0,
    previousNativePrice |-> 0, acceptsEffectiveAt |-> 0 ]

-----------------------------------------------------------------------------
(***************************************************************************)
(* Reading a record: what is authoritative at this instant.                *)
(***************************************************************************)

Matured(effectiveAt) == effectiveAt # 0 /\ now >= effectiveAt

EffectiveAttestor(s) ==
  IF Matured(s.attestorEffectiveAt) THEN s.pendingAttestor ELSE s.attestor

EffectivePaymentTarget(s) ==
  IF Matured(s.paymentTargetEffectiveAt)
    THEN s.pendingPaymentTarget ELSE s.paymentTarget

DisplacedPaymentTarget(s) ==
  IF Matured(s.paymentTargetEffectiveAt)
    THEN s.paymentTarget ELSE s.previousPaymentTarget

EffectiveNativePrice(s) ==
  IF Matured(s.acceptsEffectiveAt) THEN s.pendingAccepts ELSE s.accepts

DisplacedNativePrice(s) ==
  IF Matured(s.acceptsEffectiveAt) THEN s.accepts ELSE s.previousNativePrice

\* The terms a settlement is judged by: who and how much, now and one change ago.
Terms(s) ==
  [ attestor |-> EffectiveAttestor(s),
    payee |-> EffectivePaymentTarget(s), displacedPayee |-> DisplacedPaymentTarget(s),
    price |-> EffectiveNativePrice(s), displacedPrice |-> DisplacedNativePrice(s) ]

Registered(id) == services[id].owner # NoOne

-----------------------------------------------------------------------------
(***************************************************************************)
(* Folding a matured change into the stored record.                        *)
(***************************************************************************)

PromoteAttestor(s) ==
  IF Matured(s.attestorEffectiveAt)
    THEN [s EXCEPT !.attestor = s.pendingAttestor,
                   !.pendingAttestor = NoOne,
                   !.attestorEffectiveAt = 0]
    ELSE s

PromotePaymentTarget(s) ==
  IF Matured(s.paymentTargetEffectiveAt)
    THEN [s EXCEPT !.previousPaymentTarget = s.paymentTarget,
                   !.paymentTarget = s.pendingPaymentTarget,
                   !.pendingPaymentTarget = NoOne,
                   !.paymentTargetEffectiveAt = 0]
    ELSE s

PromoteAccepts(s) ==
  IF Matured(s.acceptsEffectiveAt)
    THEN [s EXCEPT !.previousNativePrice = s.accepts,
                   !.accepts = s.pendingAccepts,
                   !.pendingAccepts = 0,
                   !.acceptsEffectiveAt = 0]
    ELSE s

\* Mutant: getService folds the two rotations and forgets the price list.
GetServiceStalePrice(id) == PromoteAttestor(PromotePaymentTarget(services[id]))

\* What getService returns: the record with every matured change folded in.
GetService(id) == PromoteAttestor(PromotePaymentTarget(PromoteAccepts(services[id])))

-----------------------------------------------------------------------------
(***************************************************************************)
(* The transactions.                                                       *)
(***************************************************************************)

RegisterService(sender, url, price, target, witness) ==
  LET id == servicesCount + 1 IN
  /\ servicesCount < MaxServices
  /\ target # NoOne
  /\ witness \notin {NoOne, sender, target}
  /\ servicesCount' = id
  /\ services' = [services EXCEPT ![id] =
       [Unregistered EXCEPT !.owner = sender, !.active = TRUE,
                            !.gatewayBaseUrl = url, !.accepts = price,
                            !.paymentTarget = target, !.attestor = witness]]
  /\ UNCHANGED now

\* The owner's transaction on a registered service, storing `record`.
OwnerSets(sender, id, record) ==
  /\ Registered(id)
  /\ sender = services[id].owner
  /\ services' = [services EXCEPT ![id] = record]
  /\ UNCHANGED <<now, servicesCount>>

SetActive(sender, id, active) ==
  OwnerSets(sender, id, [services[id] EXCEPT !.active = active])

SetGatewayBaseUrl(sender, id, url) ==
  OwnerSets(sender, id, [services[id] EXCEPT !.gatewayBaseUrl = url])

\* Mutant: the payee a rotation displaced is not refused as a witness.
SetAttestorIgnoresDisplaced(sender, id, witness) ==
  LET s == services[id] IN
  /\ witness \notin {NoOne, s.owner, s.paymentTarget, s.pendingPaymentTarget}
  /\ OwnerSets(sender, id,
       [PromoteAttestor(s) EXCEPT !.pendingAttestor = witness,
                                  !.attestorEffectiveAt = now + AttestorDelay])

SetAttestor(sender, id, witness) ==
  LET s == services[id] IN
  /\ witness \notin {NoOne, s.owner, s.paymentTarget,
                     s.pendingPaymentTarget, s.previousPaymentTarget}
  /\ OwnerSets(sender, id,
       [PromoteAttestor(s) EXCEPT !.pendingAttestor = witness,
                                  !.attestorEffectiveAt = now + AttestorDelay])

\* Mutant: the queue is overwritten without folding what has matured.
SetPaymentTargetNoFold(sender, id, target) ==
  LET s == services[id] IN
  /\ target \notin {NoOne, s.attestor, s.pendingAttestor}
  /\ OwnerSets(sender, id,
       [s EXCEPT !.pendingPaymentTarget = target,
                 !.paymentTargetEffectiveAt = now + TermsDelay])

SetPaymentTarget(sender, id, target) ==
  LET s == services[id] IN
  /\ target \notin {NoOne, s.attestor, s.pendingAttestor}
  /\ OwnerSets(sender, id,
       [PromotePaymentTarget(s) EXCEPT !.pendingPaymentTarget = target,
                                       !.paymentTargetEffectiveAt = now + TermsDelay])

\* Mutant: asking for the live price again empties the queue, not its maturity.
SetAcceptsHalfCancels(sender, id, price) ==
  LET s == services[id] IN
  OwnerSets(sender, id,
    [PromoteAccepts(s) EXCEPT !.pendingAccepts = IF price = s.accepts THEN 0 ELSE price,
                              !.acceptsEffectiveAt = now + TermsDelay])

SetAccepts(sender, id, price) ==
  OwnerSets(sender, id,
    [PromoteAccepts(services[id]) EXCEPT !.pendingAccepts = price,
                                         !.acceptsEffectiveAt = now + TermsDelay])

\* Offering to NoOne withdraws the offer.
TransferOwnership(sender, id, newOwner) ==
  OwnerSets(sender, id, [services[id] EXCEPT !.pendingOwner = newOwner])

\* Mutant: only the live witness, not the queued one, is refused as an heir.
AcceptOwnershipIgnoresQueued(sender, id) ==
  LET s == services[id] IN
  /\ Registered(id)
  /\ s.pendingOwner # NoOne /\ sender = s.pendingOwner
  /\ sender # EffectiveAttestor(s)
  /\ services' = [services EXCEPT ![id].owner = sender, ![id].pendingOwner = NoOne]
  /\ UNCHANGED <<now, servicesCount>>

AcceptOwnership(sender, id) ==
  LET s == services[id] IN
  /\ Registered(id)
  /\ s.pendingOwner # NoOne /\ sender = s.pendingOwner
  /\ sender \notin {EffectiveAttestor(s), s.pendingAttestor}
  /\ services' = [services EXCEPT ![id].owner = sender, ![id].pendingOwner = NoOne]
  /\ UNCHANGED <<now, servicesCount>>

\* The next block has a later timestamp.
Tick ==
  /\ now < MaxTime
  /\ now' = now + 1
  /\ UNCHANGED <<servicesCount, services>>

-----------------------------------------------------------------------------

TermsInit ==
  /\ now = 0
  /\ servicesCount = 0
  /\ services = [id \in ServiceId |-> Unregistered]

OwnerTransaction(sender, id) ==
  \/ \E active \in BOOLEAN : SetActive(sender, id, active)
  \/ \E url \in Url : SetGatewayBaseUrl(sender, id, url)
  \/ \E witness \in Account : SetAttestor(sender, id, witness)
  \/ \E target \in Account : SetPaymentTarget(sender, id, target)
  \/ \E price \in Price : SetAccepts(sender, id, price)
  \/ \E newOwner \in Address : TransferOwnership(sender, id, newOwner)

TermsNext ==
  \/ \E sender, target, witness \in Account, url \in Url, price \in Price :
       RegisterService(sender, url, price, target, witness)
  \/ \E sender \in Account, id \in ServiceId :
       OwnerTransaction(sender, id) \/ AcceptOwnership(sender, id)
  \/ Tick

TermsSpec == TermsInit /\ [][TermsNext]_termsVars

-----------------------------------------------------------------------------
(***************************************************************************)
(* Properties.                                                             *)
(***************************************************************************)

\* Every record has its type, a queue slot is occupied exactly while its
\* maturity is set, and exactly the ids up to servicesCount are registered.
TermsTypeOK ==
  /\ now \in Nat
  /\ servicesCount \in 0 .. MaxServices
  /\ services \in [ServiceId -> Service]
  /\ \A id \in ServiceId :
       LET s == services[id] IN
       /\ Registered(id) <=> id <= servicesCount
       /\ s.attestorEffectiveAt # 0 <=> s.pendingAttestor # NoOne
       /\ s.paymentTargetEffectiveAt # 0 <=> s.pendingPaymentTarget # NoOne
       /\ s.acceptsEffectiveAt # 0 <=> s.pendingAccepts # 0
       /\ Registered(id) => /\ s.attestor # NoOne
                            /\ s.paymentTarget # NoOne
                            /\ s.accepts # 0

\* The addresses whose settlements recordAttestation honours, or will once the
\* queue matures.
PayeesOf(s) ==
  {s.paymentTarget, s.pendingPaymentTarget, s.previousPaymentTarget} \ {NoOne}

\* The witness a service has and the one it has queued are never among its
\* payees: the current one, the queued one or the displaced one (the rule the
\* checks of registerService, setAttestor and setPaymentTarget share, each of
\* them against the stored fields only).
WitnessIsNoPayee ==
  \A id \in ServiceId :
    {services[id].attestor, services[id].pendingAttestor} \cap PayeesOf(services[id]) = {}

\* The address that may attest for a service right now is never its owner, not
\* even after an ownership handover and a rotation that mature in any order
\* (registerService, setAttestor, acceptOwnership).
WitnessIsNotOwner ==
  \A id \in ServiceId :
    Registered(id) =>
      services[id].owner \notin
        {EffectiveAttestor(services[id]), services[id].pendingAttestor}

\* No transaction moves the live attestor, payee or price of a service, nor the
\* displaced ones its earlier settlements are judged by: only the passing of
\* time does (the fold-before-queue of setAttestor, setPaymentTarget,
\* setAccepts).
OnlyTimeMovesTerms ==
  [][ \A id \in ServiceId :
        Registered(id) /\ Terms(services[id])' # Terms(services[id]) => now' > now
    ]_termsVars

\* getService returns exactly the terms the settlement path applies: its fold
\* and the two effective/displaced pairs agree on every record.
GetServiceShowsLiveTerms ==
  \A id \in ServiceId :
    Registered(id) =>
      LET s == services[id]
          out == GetService(id)
      IN  /\ out.attestor = EffectiveAttestor(s)
          /\ out.paymentTarget = EffectivePaymentTarget(s)
          /\ out.previousPaymentTarget = DisplacedPaymentTarget(s)
          /\ out.accepts = EffectiveNativePrice(s)
          /\ out.previousNativePrice = DisplacedNativePrice(s)

=============================================================================
