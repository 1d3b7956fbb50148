------------------------------- MODULE Devnet -------------------------------
(***************************************************************************)
(* The mock chain of the demos: DevnetState, which keeps balances, the     *)
(* latest transfers and a registry of its own in memory, beside the        *)
(* contracts it stands in for.  A transfer's hash is the settlement it     *)
(* makes, which is enough for the payments the contracts can make too; the *)
(* activity feed is left out.                                              *)
(***************************************************************************)
EXTENDS Registry, Functions

CONSTANTS
  TransferLogCap,  \* TRANSFER_LOG_CAP
  MaxFaucet        \* bound: coins the faucet ever gives out

ASSUME DevnetAssumption == TransferLogCap \in Nat \ {0} /\ MaxFaucet \in Nat
ASSUME AddressesAreFinite == IsFiniteSet(Account)  \* 20 bytes

VARIABLES
  balances,
  faucetTotal,    \* history: what the faucet gave out
  transfers,      \* the transfer log, oldest first
  devServices,    \* the services of the devnet, by id
  devSeen,        \* seenPayments, by service
  devScores,
  devAttestations, \* by service, newest first
  verified        \* the payments the gateway has found good, and may attest

devnetVars ==
  <<balances, faucetTotal, transfers, devServices, devSeen, devScores, devAttestations, verified>>

NoService == [owner |-> NoOne, attestor |-> NoOne, paymentTarget |-> NoOne, active |-> FALSE]

-----------------------------------------------------------------------------

Faucet(account, amount) ==
  /\ faucetTotal + amount <= MaxFaucet
  /\ faucetTotal' = faucetTotal + amount
  /\ balances' = [balances EXCEPT ![account] = @ + amount]
  /\ UNCHANGED <<transfers, devServices, devSeen, devScores, devAttestations, verified>>

\* Mutant of Moved: both balances are read before either is written.
MovedAtOnce(from, to, amount) ==
  [balances EXCEPT ![from] = @ - amount, ![to] = balances[to] + amount]

\* The sender's balance is written before the receiver's is read.
Moved(from, to, amount) ==
  [[balances EXCEPT ![from] = @ - amount] EXCEPT ![to] = @ + amount]

Transfer(from, id, nonce, to, amount) ==
  /\ balances[from] >= amount
  /\ balances' = Moved(from, to, amount)
  /\ LET log == Append(transfers, [tx |-> <<id, nonce, from, to>>, amount |-> amount])
     IN  transfers' = IF Len(log) > TransferLogCap THEN Tail(log) ELSE log
  /\ UNCHANGED <<faucetTotal, devServices, devSeen, devScores, devAttestations, verified>>

\* The gateway's proof check, through verifyTransfer of the mock client: the log
\* must still hold the transfer.
GatewayVerifies(id, nonce, payer) ==
  LET tx == <<id, nonce, payer, services[id].paymentTarget>> IN
  /\ \E i \in DOMAIN transfers :
       transfers[i].tx = tx /\ transfers[i].amount >= services[id].accepts
  /\ verified' = verified \cup {tx}
  /\ UNCHANGED <<vars, balances, faucetTotal, transfers, devServices, devSeen, devScores, devAttestations>>

\* registerService, for the next id.
DevnetRegister(id, sender, target, witness) ==
  /\ devServices' = [devServices EXCEPT ![id] =
       [owner |-> sender, attestor |-> witness, paymentTarget |-> target, active |-> TRUE]]
  /\ UNCHANGED <<balances, faucetTotal, transfers, devSeen, devScores, devAttestations, verified>>

DevnetAccepts(sender, id, tx) ==
  LET s == devServices[id] IN
  /\ s # NoService
  /\ sender \in {s.attestor, s.owner}
  /\ s.active
  /\ tx \notin devSeen[id]

\* Mutant of CappedAttestations: the cap cuts the new end of the list.
CappedAttestationsOldest(list) ==
  IF Len(list) > MaxAttestations
    THEN SubSeq(list, Len(list) - MaxAttestations + 1, Len(list)) ELSE list

CappedAttestations(list) ==
  SubSeq(list, 1, IF Len(list) > MaxAttestations THEN MaxAttestations ELSE Len(list))

DevnetRecordAttestation(id, tx, success) ==
  /\ devSeen' = [devSeen EXCEPT ![id] = @ \cup {tx}]
  /\ devScores' = [devScores EXCEPT ![id] =
       [total |-> @.total + 1, success |-> IF success THEN @.success + 1 ELSE @.success]]
  /\ devAttestations' = [devAttestations EXCEPT ![id] =
       CappedAttestations(<<[nonce |-> tx[2], payer |-> tx[3],
                             success |-> success, timestamp |-> now]>> \o @)]
  /\ UNCHANGED <<balances, faucetTotal, transfers, devServices, verified>>

DevnetInit ==
  /\ balances = [a \in Account |-> 0] /\ faucetTotal = 0
  /\ transfers = <<>>
  /\ devServices = [id \in ServiceId |-> NoService]
  /\ devSeen = [id \in ServiceId |-> {}]
  /\ devScores = [id \in ServiceId |-> [total |-> 0, success |-> 0]]
  /\ devAttestations = [id \in ServiceId |-> <<>>]
  /\ verified = {}

-----------------------------------------------------------------------------
(***************************************************************************)
(* The devnet and the contracts, fed the same transactions.                *)
(***************************************************************************)

BothRegister(sender, url, price, target, witness) ==
  /\ RegisterService(sender, url, price, target, witness)
  /\ DevnetRegister(servicesCount', sender, target, witness)
  /\ UNCHANGED <<settled, scoreVars>>

BothPay(payer, id, nonce, payTo, amount) ==
  Pay(payer, id, nonce, payTo, amount) /\ Transfer(payer, id, nonce, payTo, amount)

RegistryAccepts(sender, id, nonce, payer) ==
  sender = EffectiveAttestor(services[id]) /\ Attestable(id, nonce, payer)

\* Each of the two takes an outcome or refuses it by its own rules.
BothRecord(sender, id, nonce, payer, payTo, success) ==
  /\ IF RegistryAccepts(sender, id, nonce, payer)
       THEN RecordAttestation(sender, id, nonce, payer, success)
       ELSE UNCHANGED vars
  /\ IF DevnetAccepts(sender, id, <<id, nonce, payer, payTo>>)
       THEN DevnetRecordAttestation(id, <<id, nonce, payer, payTo>>, success)
       ELSE UNCHANGED devnetVars

\* What a gateway attests on either: a call whose payment it has verified, from
\* anybody but those isSelfPayment names.
GatewayAttests(id, nonce, payer) ==
  /\ <<id, nonce, payer, services[id].paymentTarget>> \in verified
  /\ payer \notin {services[id].owner, services[id].paymentTarget, services[id].attestor}

\* A demo: services whose terms stay as registered, payments of anybody to
\* anybody, and outcomes of verified payments sent by anybody but the owner.
SteadyInit == Init /\ DevnetInit

SteadyNext ==
  \/ \E sender, target, witness \in Account, url \in Url, price \in Price :
       BothRegister(sender, url, price, target, witness)
  \/ \E account \in Account, amount \in 1 .. MaxFaucet :
       Faucet(account, amount) /\ UNCHANGED vars
  \/ \E payer, payTo \in Account, id \in ServiceId, nonce \in Nonce, amount \in Amount :
       BothPay(payer, id, nonce, payTo, amount)
  \/ \E id \in ServiceId, nonce \in Nonce, payer \in Account :
       Registered(id) /\ GatewayVerifies(id, nonce, payer)
  \/ \E sender, payer \in Account, id \in ServiceId, nonce \in Nonce, success \in BOOLEAN :
       /\ Registered(id)
       /\ sender # services[id].owner
       /\ GatewayAttests(id, nonce, payer)
       /\ BothRecord(sender, id, nonce, payer, services[id].paymentTarget, success)
  \/ Tick /\ UNCHANGED <<settled, scoreVars, devnetVars>>

SteadySpec == SteadyInit /\ [][SteadyNext]_<<vars, devnetVars>>

-----------------------------------------------------------------------------
(***************************************************************************)
(* Properties.                                                             *)
(***************************************************************************)

\* No coin appears or vanishes but from the faucet, whoever pays whom, itself
\* included.
MoneyIsConserved == SumFunction(balances) = faucetTotal

\* A demo shows the score the contracts would: for what the gateway attests of a
\* service that is never paused, the devnet's counters and its list of outcomes
\* are those of the registry, ring, saturation and all.
DevnetMirrorsRegistry ==
  \A id \in ServiceId :
    LET width(n) == IF n < MaxCalls THEN n ELSE MaxCalls IN
    /\ totalCalls[id] = width(devScores[id].total)
    /\ successCalls[id] = width(devScores[id].success)
    /\ GetAttestations(id) = devAttestations[id]

=============================================================================
