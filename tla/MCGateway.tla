----------------------------- MODULE MCGateway ------------------------------
(***************************************************************************)
(* Gateway from a registered service on, in two scenes: "open", where      *)
(* anybody presents any payment for any nonce, and "client", where all     *)
(* buyers use fetchPaid and the gateway may start with a record it cached  *)
(* before the terms last moved.  For MovingSpec there are also the owner's *)
(* transactions a proof can meet: a new payee, a new price, a pause.       *)
(***************************************************************************)
EXTENDS FetchPaid, TLC

CONSTANTS
  owner, witness, former,
  Presenter  \* who pays and presents in the open scene

VARIABLE scene

mcVars == <<vars, calls, scene>>

\* Whoever pays in a scene, client or not, may trade places with any other.
Symmetry == Permutations(Presenter)

Cheapest == CHOOSE p \in Price : \A q \in Price : p <= q

\* What a gateway may hold of a service that has just changed its payee or price.
StaleRecords(id) ==
  {[Record(id) EXCEPT !.amount = price] : price \in Price}
    \cup {[Record(id) EXCEPT !.payTo = former]}

MCInit ==
  /\ now = 0
  /\ servicesCount = MaxServices
  /\ services = [id \in ServiceId |->
       [Unregistered EXCEPT !.owner = owner, !.active = TRUE, !.accepts = Cheapest,
                            !.paymentTarget = owner, !.attestor = witness]]
  /\ scene \in {"open", "client"}
  /\ \/ cache = [id \in ServiceId |-> {}]
     \/ /\ scene = "client"
        /\ \E record \in StaleRecords(1) :
             cache = [id \in ServiceId |-> IF id = 1 THEN {[record |-> record, fetchedAt |-> 0]} ELSE {}]
  /\ issued = <<>> /\ invoices = {} /\ file = {} /\ faults = 0 /\ paid = {}
  /\ requests = {} /\ served = <<>> /\ crashes = 0 /\ lost = {}
  /\ CallsInit

\* Buyers pay the payee of the day, for a nonce they were quoted or heard of.
PayNext ==
  \E payer \in Presenter, id \in ServiceId, nonce \in Nonce :
    Pay(payer, id, nonce, EffectivePaymentTarget(services[id]), services[id].accepts)

\* Nothing changes on the chain but time.
StillNext ==
  \/ /\ scene = "open"
     /\ PaywallNext(Presenter) \/ PayNext
     /\ UNCHANGED <<calls, scene>>
  \/ scene = "client" /\ CallNext /\ UNCHANGED scene
  \/ Tick /\ UNCHANGED <<gatewayVars, paid, calls, scene>>

StillSpec == MCInit /\ [][StillNext]_mcVars

\* The owner moves the money terms.
OwnerNext ==
  /\ \E id \in ServiceId :
       \/ \E active \in BOOLEAN : SetActive(owner, id, active)
       \/ \E target \in Account : SetPaymentTarget(owner, id, target)
       \/ \E price \in Price : SetAccepts(owner, id, price)
  /\ UNCHANGED <<gatewayVars, paid, calls, scene>>

MovingSpec == MCInit /\ [][StillNext \/ OwnerNext]_mcVars

=============================================================================
