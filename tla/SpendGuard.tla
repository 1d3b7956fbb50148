----------------------------- MODULE SpendGuard -----------------------------
(***************************************************************************)
(* SpendGuard: escrowed spending policies whose gate may debit them, under *)
(* the owner's allowlist, a trust tier, the service's own terms, a budget  *)
(* and a rate cap, each debit settled through PaymentRouter.               *)
(*                                                                         *)
(* debit and withdraw end by handing control to the recipient, which may   *)
(* call back before they return, and whose refusal undoes everything done  *)
(* since they began.  `world` is the storage of the contracts, `frames`    *)
(* the worlds to return to, innermost last.                                *)
(***************************************************************************)
EXTENDS Integers, Sequences, FiniteSets, Functions, TrustTier

CONSTANTS
  Account,      \* addresses that can send a transaction or be paid
  NoOne,        \* address(0)
  ServiceId,
  Nonce,
  Amount,       \* amounts deposited, debited or withdrawn in one call
  Terms,        \* what the registry may answer for a service
  Config,       \* the arguments openPolicy is called with
  MaxPolicies,  \* bound: policies ever opened
  MaxDeposits,  \* bound: value ever deposited
  MaxDepth,     \* bound: calls nested in one transaction
  MaxTime       \* bound: the last block time of a behaviour

ASSUME AccountAssumption == NoOne \notin Account
ASSUME AmountAssumption == Amount \subseteq Nat \ {0}
ASSUME ConfigAssumption ==
  Config \subseteq [gate : Account \cup {NoOne}, budget : Nat, perCallCap : Nat,
                    window : Nat, maxCallsInWindow : Nat, minTrustTier : Nat]
ASSUME TermsAssumption ==
  Terms \subseteq [payTo : Account, price : Nat \ {0}, active : BOOLEAN,
                   totalCalls : Nat, successCalls : Nat]
ASSUME BoundAssumption ==
  MaxPolicies \in Nat /\ MaxDeposits \in Nat /\ MaxDepth \in Nat /\ MaxTime \in Nat

VARIABLES now, world, frames

vars == <<now, world, frames>>

PolicyId == 1 .. MaxPolicies

NoPolicy ==
  [ owner |-> NoOne, gate |-> NoOne, budget |-> 0, spent |-> 0, balance |-> 0,
    perCallCap |-> 0, window |-> 0, maxCallsInWindow |-> 0, minTrustTier |-> 0,
    paused |-> FALSE ]

Opened(id) == world.policies[id].owner # NoOne

-----------------------------------------------------------------------------
(***************************************************************************)
(* The rules of a debit.                                                   *)
(***************************************************************************)

ValidConfig(c) ==
  /\ c.perCallCap # 0 /\ c.maxCallsInWindow # 0 /\ c.budget # 0
  /\ c.perCallCap <= c.budget
  /\ c.window >= 1
  /\ c.gate # NoOne
  /\ c.minTrustTier <= 2

\* Mutant of RateExceeded: an entry as old as the window still counts.
RateExceededInclusive(id) ==
  LET p == world.policies[id]
      times == world.callTimes[id]
  IN  /\ Len(times) = p.maxCallsInWindow
      /\ now - times[world.ringCursor[id] + 1] <= p.window

\* Mutant of RateExceeded: the window is one tick short.
RateExceededShort(id) ==
  LET p == world.policies[id]
      times == world.callTimes[id]
  IN  /\ Len(times) = p.maxCallsInWindow
      /\ now - times[world.ringCursor[id] + 1] < p.window - 1

\* The ring is full and its oldest entry, the one to be overwritten, is recent.
RateExceeded(id) ==
  LET p == world.policies[id]
      times == world.callTimes[id]
  IN  /\ Len(times) = p.maxCallsInWindow
      /\ now - times[world.ringCursor[id] + 1] < p.window

SettlementTermsMatch(service, payTo, amount) ==
  LET terms == world.terms[service]
  IN  terms.active /\ payTo = terms.payTo /\ amount = terms.price

\* Mutant of WithinBudget: the amount is not added before the cap is checked.
WithinBudgetSoFar(p, amount) == amount <= p.balance /\ p.spent <= p.budget

\* The amount fits both the escrow and the cumulative cap.
WithinBudget(p, amount) == amount <= p.balance /\ p.spent + amount <= p.budget

\* Everything debit itself demands, in whatever order it would refuse.
DebitRules(sender, id, service, amount, payTo, nonce) ==
  LET p == world.policies[id]
      terms == world.terms[service]
  IN  /\ Opened(id)
      /\ sender = p.gate
      /\ ~p.paused
      /\ amount <= p.perCallCap
      /\ TierOf(terms.totalCalls, terms.successCalls) >= p.minTrustTier
      /\ <<id, service>> \in world.serviceAllowed
      /\ SettlementTermsMatch(service, payTo, amount)
      /\ <<id, service, nonce>> \notin world.seenRefs
      /\ WithinBudget(p, amount)
      /\ ~RateExceeded(id)

\* Mutant of RouterRefuses: pay does not look for a duplicate.
RouterRefusesNothing(service, nonce, payTo) == FALSE

\* PaymentRouter's settlements made by this contract, which is their payer
\* whatever the policy.
RouterRefuses(service, nonce, payTo) == <<service, nonce, payTo>> \in world.settled

-----------------------------------------------------------------------------
(***************************************************************************)
(* Calls.  A step happens in the innermost frame: at the top, or inside    *)
(* the recipient of the last call.                                         *)
(***************************************************************************)

\* Hand control to a recipient, from the world `after` the call's own writes.
CallOut(after) ==
  /\ Len(frames) < MaxDepth
  /\ world' = after
  /\ frames' = Append(frames, world)

OpenPolicy(sender, c) ==
  LET id == world.policiesCount + 1 IN
  /\ world.policiesCount < MaxPolicies
  /\ ValidConfig(c)
  /\ world' = [world EXCEPT
       !.policiesCount = id,
       !.policies[id] =
         [NoPolicy EXCEPT !.owner = sender, !.gate = c.gate, !.budget = c.budget,
                          !.perCallCap = c.perCallCap, !.window = c.window,
                          !.maxCallsInWindow = c.maxCallsInWindow,
                          !.minTrustTier = c.minTrustTier]]
  /\ UNCHANGED <<now, frames>>

\* Mutant of Deposit: the new balance is the deposit.
DepositOverwrites(id, value) ==
  /\ Opened(id)
  /\ world.deposited + value <= MaxDeposits
  /\ world' = [world EXCEPT !.policies[id].balance = value,
                            !.held = @ + value, !.deposited = @ + value]
  /\ UNCHANGED <<now, frames>>

Deposit(id, value) ==
  /\ Opened(id)
  /\ world.deposited + value <= MaxDeposits
  /\ world' = [world EXCEPT !.policies[id].balance = @ + value,
                            !.held = @ + value, !.deposited = @ + value]
  /\ UNCHANGED <<now, frames>>

\* Push onto the ring, or overwrite the oldest slot once it is full.
RingAfter(id) ==
  LET times == world.callTimes[id]
      cursor == world.ringCursor[id]
  IN  IF Len(times) < world.policies[id].maxCallsInWindow
        THEN Append(times, now)
        ELSE [times EXCEPT ![cursor + 1] = now]

\* Every write lands before the router forwards the value to payTo.
Debit(sender, id, service, amount, payTo, nonce) ==
  /\ DebitRules(sender, id, service, amount, payTo, nonce)
  /\ ~RouterRefuses(service, nonce, payTo)
  /\ CallOut([world EXCEPT
       !.policies[id].balance = @ - amount,
       !.policies[id].spent = @ + amount,
       !.seenRefs = @ \cup {<<id, service, nonce>>},
       !.callTimes[id] = RingAfter(id),
       !.ringCursor[id] = (@ + 1) % world.policies[id].maxCallsInWindow,
       !.settled = @ \cup {<<service, nonce, payTo>>},
       !.held = @ - amount,
       !.ledger = Append(@, [policy |-> id, service |-> service, nonce |-> nonce,
                             payTo |-> payTo, amount |-> amount, at |-> now])])
  /\ UNCHANGED now

Withdraw(sender, id, amount, to) ==
  /\ Opened(id)
  /\ sender = world.policies[id].owner
  /\ amount <= world.policies[id].balance
  /\ CallOut([world EXCEPT !.policies[id].balance = @ - amount, !.held = @ - amount])
  /\ UNCHANGED now

\* The recipient is done and took the value.
CallReturns ==
  /\ frames # <<>>
  /\ frames' = SubSeq(frames, 1, Len(frames) - 1)
  /\ UNCHANGED <<now, world>>

\* The recipient refuses the value: TransferFailed undoes the call, and what
\* was done inside it.
CallReverts ==
  /\ frames # <<>>
  /\ world' = frames[Len(frames)]
  /\ frames' = SubSeq(frames, 1, Len(frames) - 1)
  /\ UNCHANGED now

SetServiceAllowed(sender, id, service, allowed) ==
  /\ Opened(id)
  /\ sender = world.policies[id].owner
  /\ world' = [world EXCEPT !.serviceAllowed =
       IF allowed THEN @ \cup {<<id, service>>} ELSE @ \ {<<id, service>>}]
  /\ UNCHANGED <<now, frames>>

Pause(sender, id, paused) ==
  /\ Opened(id)
  /\ sender = world.policies[id].owner
  /\ world' = [world EXCEPT !.policies[id].paused = paused]
  /\ UNCHANGED <<now, frames>>

\* The registry's answer for a service changes: its owner pauses it, its terms
\* mature or its score moves.
RegistryMoves(service, terms) ==
  /\ world.terms[service] # terms
  /\ world' = [world EXCEPT !.terms[service] = terms]
  /\ UNCHANGED <<now, frames>>

\* The next block has a later timestamp.
Tick ==
  /\ frames = <<>>
  /\ now < MaxTime
  /\ now' = now + 1
  /\ UNCHANGED <<world, frames>>

-----------------------------------------------------------------------------

Init ==
  /\ now = 0
  /\ frames = <<>>
  /\ \E terms \in [ServiceId -> Terms] :
       world = [ policiesCount |-> 0,
                 policies |-> [id \in PolicyId |-> NoPolicy],
                 serviceAllowed |-> {}, seenRefs |-> {}, settled |-> {},
                 callTimes |-> [id \in PolicyId |-> <<>>],
                 ringCursor |-> [id \in PolicyId |-> 0],
                 held |-> 0, deposited |-> 0, ledger |-> <<>>, terms |-> terms ]

Next ==
  \/ \E sender \in Account, c \in Config : OpenPolicy(sender, c)
  \/ \E id \in PolicyId, value \in Amount : Deposit(id, value)
  \/ \E sender, payTo \in Account, id \in PolicyId, service \in ServiceId,
        amount \in Amount, nonce \in Nonce :
       Debit(sender, id, service, amount, payTo, nonce)
  \/ \E sender, to \in Account, id \in PolicyId, amount \in Amount :
       Withdraw(sender, id, amount, to)
  \/ CallReturns
  \/ CallReverts
  \/ \E sender \in Account, id \in PolicyId, service \in ServiceId, allowed \in BOOLEAN :
       SetServiceAllowed(sender, id, service, allowed)
  \/ \E sender \in Account, id \in PolicyId, paused \in BOOLEAN :
       Pause(sender, id, paused)
  \/ \E service \in ServiceId, terms \in Terms : RegistryMoves(service, terms)
  \/ Tick

Spec == Init /\ [][Next]_vars

-----------------------------------------------------------------------------
(***************************************************************************)
(* Properties.                                                             *)
(***************************************************************************)

DebitsOf(id) == {i \in DOMAIN world.ledger : world.ledger[i].policy = id}

\* Types, and the shape of the rate ring: it never outgrows the cap, and until
\* it is full its cursor is the slot after the last one.
TypeOK ==
  /\ now \in 0 .. MaxTime
  /\ Len(frames) <= MaxDepth
  /\ world.policiesCount \in 0 .. MaxPolicies
  /\ \A id \in PolicyId :
       LET n == Len(world.callTimes[id])
           cap == world.policies[id].maxCallsInWindow
       IN  /\ Opened(id) <=> id <= world.policiesCount
           /\ world.policies[id].balance \in Nat /\ world.policies[id].spent \in Nat
           /\ n <= cap
           /\ n < cap => world.ringCursor[id] = n
           /\ Opened(id) => world.ringCursor[id] \in 0 .. cap - 1

\* Solvency: what the contract holds is what it owes its policies, at every
\* moment, a recipient being in the middle of calling back or refusing the
\* value included (debit and _withdraw write before they call out).
EscrowIsCovered ==
  world.held = SumFunction([id \in PolicyId |-> world.policies[id].balance])

\* The gate's spending never passes the owner's cap, and `spent` is what the
\* approved debits moved: withdrawals and undone calls never count.
SpendingWithinBudget ==
  \A id \in PolicyId :
    /\ world.policies[id].spent <= world.policies[id].budget
    /\ world.policies[id].spent =
         SumFunction([i \in DebitsOf(id) |-> world.ledger[i].amount])

\* The one read of the ring answers exactly the question of the rate rule: are
\* maxCallsInWindow approved debits of this policy inside the window now?
RateCheckIsExact ==
  \A id \in PolicyId :
    LET p == world.policies[id]
        recent == {i \in DebitsOf(id) : now - world.ledger[i].at < p.window}
    IN  Opened(id) => (RateExceeded(id) <=> Cardinality(recent) >= p.maxCallsInWindow)

\* However debits nest, no stretch of time as long as the window ever holds more
\* than maxCallsInWindow of a policy's approved debits.
RateCapHolds ==
  \A id \in PolicyId : \A last \in DebitsOf(id) :
    LET p == world.policies[id]
    IN  Cardinality({i \in DebitsOf(id) :
                       /\ world.ledger[i].at <= world.ledger[last].at
                       /\ world.ledger[last].at - world.ledger[i].at < p.window})
          <= p.maxCallsInWindow

\* The router's settlements by this contract are exactly its approved debits,
\* one each: no invoice is paid twice, none is paid without its debit being on
\* the books, none is on the books without having been paid.
EveryDebitSettlesOnce ==
  /\ Cardinality(world.settled) = Len(world.ledger)
  /\ \A i \in DOMAIN world.ledger :
       LET d == world.ledger[i]
       IN  /\ <<d.service, d.nonce, d.payTo>> \in world.settled
           /\ <<d.policy, d.service, d.nonce>> \in world.seenRefs

=============================================================================
