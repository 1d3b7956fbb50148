# A verification development of 0G Gate

AgentGate (0G Gate) is a pay-per-call gateway. A seller registers an API on
chain, a gateway answers calls without a payment with an HTTP 402 that quotes a
price, a buyer settles the quote through a router contract and presents the
transaction as its proof, the gateway proxies the call once, and the outcome is
recorded on chain as the seller's score. This directory models that system in
TLA+, checks the models with TLC and proves what matters most with TLAPS.

`tlc -workers 2 -config X.cfg M` checks a run, `tlapm M.tla` a proof module.
`PROJECT.json` lists the runs, the mutants that show each property can fail,
the source lines each definition stands for, the hazards and the theorems.

## 1. Inventory

| component | source | state | operations |
|---|---|---|---|
| AgentGateRegistry | `contracts-evm/src/AgentGateRegistry.sol` | service records with live, queued and displaced terms; scores; ring of outcomes | registerService, the owner's setters, two-step ownership, recordAttestation, reads |
| PaymentRouter | `contracts-evm/src/PaymentRouter.sol` | `settledAmount` by (service, nonce, payer, payTo) | pay |
| SpendGuard | `contracts-evm/src/SpendGuard.sol` | policies, escrow, allowlist, references seen, ring of call times | openPolicy, deposit, debit, withdraw, setServiceAllowed, pause |
| Service cache | `middleware/src/service-cache.ts` | records with the time they arrived | get, with overlapping reads |
| Paywall | `middleware/src/app.ts` | requests in flight | challenge, present, verify, burn, proxy, release |
| Invoice store | `middleware/src/invoice-store{,-file}.ts` | a Map, the file, the lock file | put, markUsed, release, sweep, load, lock, close |
| Attestation queue | `middleware/src/attestation-queue{,-file}.ts`, `app.ts` | queue and dead letters, in memory and in two files; attempt loops | enqueue, attempt, prune, load, replay |
| Upstream map | `middleware/src/upstream-store.ts`, `app.ts` | a Map, a queue of writes, a file; the newest signed timestamps | set, delete, the three mapping routes |
| Chain client | `chain/src/live-0g.ts`, `receipt.ts` | send queue and nonce floor of an address; shared catalog and identity reads | verifyTransfer, writes and their receipts, listServices |
| Trust tiers | `shared/src/trust.ts`, `SpendGuard._tierOf` | none | trustTier |
| Buyer client, agent | `client`, `buyer-agent` | a paid call under way | fetchPaid |
| CLI | `cli` | a registration and a mapping under way | wrap, map, buy |
| Mock chain, devnet | `chain/src/mock.ts`, `devnet` | simulated ledger and registry | faucet, transfer, registerService, setActive, recordAttestation |
| Oracle | `oracle/src/feed.ts` | a cached feed and the refresh under way | getFeed |
| Dashboard, scripts | `dashboard`, `scripts` | none | |

**How they interact.** The gateway and SpendGuard read the registry; the buyer
(or SpendGuard for it) calls the router; the registry asks the router whether a
settlement backs an outcome; the gateway's attestor account writes the outcome.
A seller registers on chain and then maps an upstream at the gateway. Nothing is
shared but the chain, so every read is old by the time it is used.

**What is hard.**

- *Staleness.* The 402 is priced from a cached record, is paid later, verified
  later still and attested last, while the owner may rotate the payee, the price,
  the witness and the ownership. The registry answers with delays and with a
  grace for what the last matured change displaced.
- *Interleaving.* Requests with one proof overlap in the gateway between the
  lookup of an invoice and its burn; recipients of a debit call back; callers
  share one read of the catalog; writes of the upstream map queue up.
- *Retries and lost answers.* A transaction may be taken without the client
  learning so, a proof may be pending, a mapping may be made after the seller has
  stopped waiting for it.
- *Crashes and restarts.* The stores rewrite whole files, one queue change
  is two file writes, and a lock file outlives its process.
- *Boundaries.* Two rings with a wrapping head, saturating counters, strict and
  inclusive time windows, thresholds of the tiers, nonces from nodes that lag.
- *Eventually.* Queue entries that nobody retries; a lock loop; a write behind a
  failed one; a service whose mapping failed.

Correctness, by component: who may be witness, payee and owner, and terms that
move with time only (registry records); a point costs a price and cannot be
censored (registry with router); the scoreboard (ring and counters, and the same on
the devnet); solvency, budget and rate (SpendGuard); one answer per payment, and
a failed one gives it back (paywall); a verdict the buyer can rely on
(client with paywall); nobody else's invoices are erased (store); an outcome that
was queued is not lost (queue); a mapping that was acknowledged stays (upstream
map); no transaction replaces a sibling, and an answer is true (chain client).

## 2. Modules

| module | extends | models |
|---|---|---|
| `ServiceTerms` | | the chain's clock and the service records |
| `Registry` | `ServiceTerms` | settlements and scores |
| `Scoreboard` | | what the scores promise, the abstract specification of `Registry` |
| `Grace`, `SelfPayment` | `Registry` | a settlement against later terms; the gateway's own rule of who may not score |
| `Devnet` | `Registry` | the mock chain beside the contracts |
| `Quotes` | `ServiceTerms` | the cached record and the quote priced from it |
| `Gateway` | `ServiceTerms` | the paywall and the invoice store's contents |
| `FetchPaid` | `Gateway` | the buyer's client against that paywall |
| `SpendGuard` | `TrustTier` | the guard, with recipients that call back |
| `AttestationQueue`, `InvoiceLock`, `UpstreamMap` | | the gateway's three files |
| `SendQueue`, `SharedRead` | | the chain client's writes, and the reads that callers share |
| `*Proofs` | what they prove about | the theorems (section 5 says which; `StoresProofs` is about the three files) |
| `Sums` | | nothing: facts about `SumFunction` that the proofs of money use |
| `MC*` | what a run needs | instances for TLC |

Time is a natural number: one tick stands for any length, and delays, TTLs and
windows are numbers of ticks. Several transactions may share a tick, as they
share a block. `SendQueue` and `SharedRead` have no clock but ages that stop
counting once nothing depends on them, so time has no bound there.

Three MC modules put several components into one run. They share no state there,
so a variable `scene`, chosen initially, says which of them moves
(`MCFreshness`, `MCStores`); `MCGateway` uses it for its two kinds of buyers.

### ServiceTerms

`services[id]` is the contract's `Service` struct less its name and description;
`accepts` is the native price of the price list, the only entry any rule reads.
A queue slot is a value and its maturity (`pendingX`, `xEffectiveAt`, 0 = none)
and, for payee and price, what the last matured change displaced. The actions
are the transactions by name. The setters fold a matured change first
(`PromoteAttestor`, `PromotePaymentTarget`, `PromoteAccepts` for the `_promote*`
functions) and then queue; `Effective*` and `Displaced*` are the lazy readers.
Reverts are guards that do not hold.

### Registry, Scoreboard, Grace, SelfPayment

`Pay` is `PaymentRouter.pay`: first write wins per key, any service id, any
payTo. `RecordAttestation` is `recordAttestation` with
`_requireBackingSettlement` as `BackingSettlement`: `PaidFor` (the live payee,
then the displaced one), `FloorWei` and `Interested`. The ring and its cursor
are `attestations` and `attHead`, and `GetAttestations` reads them backwards.
`paymentTxHash` is display data and left out.

`Scoreboard` promises that an outcome counts once and that the latest few are
shown, newest first; it knows of no ring. `Grace` adds one history variable, the
time of each settlement that followed the terms of its moment. `SelfPayment` is
the gateway's `isSelfPayment` on a record just read.

### Devnet

`DevnetState` keeps balances, a capped log of transfers and a registry written
by hand. `Both*` makes one call on the contracts and on the devnet,
each of which takes or refuses it by its own rules (`RegistryAccepts`,
`DevnetAccepts`). A transfer's hash is named by the settlement it makes.
`verified` is what the mock's `verifyTransfer` has found good, and
`GatewayAttests` what a gateway therefore attests on either. `SteadySpec` is a demo:
services keep the terms they were registered with, anybody pays anybody, and
verified payments are attested by anybody but the service's owner. Its
`setActive` is not modelled, since a pause parts the two by their rules (section 4).

### Quotes

The part of the gateway before a payment: `FetchService` takes the chain's answer,
`FillCache` stores it up to `FetchLatency` ticks later, in any order with other
reads, `IssueQuote` prices a 402. `StalenessAssumption` is the inequality
`loadConfig` enforces (`MAX_INVOICE_TTL_MS`), with its safety margin as the
latency. One quote is followed: any of a behaviour's quotes can be it.

### Gateway, FetchPaid

`Gateway` is the `/svc/:id` handler from the service record to the released
invoice. A request is a record that waits for the chain (`Verify`,
`VerifyPending`), the signer (`Burn`) or the upstream (`UpstreamAnswers`,
`UpstreamFails`), and others run between. The invoice's expiry travels with the
request, as in the handler, and the record too. `Sweep` is the store's timer;
`Crash` forgets requests and cache and reads the file back.

The store is its Map (`invoices`) and its `file`. `put`, `markUsed`, `release` and
`sweep` change the Map and then write all of it, synchronously: `Saved` is a write
that lands, `NotSaved` one that throws before the rename, up to `MaxFaults` of
them. What failed stays in the Map, so a later write carries it to the file and a
crash before that undoes it. The handler that met the failure ends there with a
500: `BurnFails` leaves the invoice burned in the Map alone, with nothing proxied and
nothing released, `ReleaseFails` leaves it free in the Map and burned in the file.
`lost` remembers the nonces whose call a crash or such a write cut off. The fields of `PaymentProof` are the
payment and the presenter; whether the signature recovers to the presenter is
external and does. Looking up the cache is one step here: the latency of a read
is the subject of `Quotes`. Bodies, headers and refusals that come before any
state is touched are left out.

`FetchPaid` adds one call for each buyer: `Lookup` the record on chain, `CallAsks`
for the 402, `CheckQuote` (`QuoteIsFair` holds the quote against the record),
`CallPays`, `CallPresents`, and again while the gateway says pending, up to
`MaxPendingRetries`. `CallPays` may throw after the payment has settled. `Answer`
and `Tells` hand a verdict to the call that still waits for it; `CallTimesOut`
is a client that stops waiting while its request goes on. A 500 ends a call without
a verdict ("failed", or "unquoted" before there is a quote). `MayRefuse` says of a
refused call when that was right.

### SpendGuard, TrustTier

`world` is the storage of the guard, of the router as far as it is the payer, and
the registry's answers; `ledger` is a history of approved debits. `debit` and
`withdraw` write first and then hand control to the recipient: `CallOut` pushes
the world to return to, any transaction may then run inside, and `CallReturns` or
`CallReverts` ends the call, the latter by restoring that world. `TierOf` is
`_tierOf`, `Badge` is `trustTier`.

### AttestationQueue

`items` and `dead` are the memory of the queue, `diskItems` and `diskDead` its two
files, `loops` the attempt loops of `runAttestation`. An operation either
persists both or dies between the two writes (`TornPersist`: the dead letters go
first). `Only` is the JavaScript `filter`: the entries at some places, in their
order. `Boot` is `load` and `replayPendingAttestations`; lookups of a service
may fail, so any subset gets a loop. The registry is external: it takes an
outcome, refuses it for good (`Doomed`), cannot be reached, or takes it without
the gateway learning so. `recordFailure` has no caller in the gateway and is left
out. A payment is named by its transaction, which is the queue's key.

### InvoiceLock

One process per slot, its constructor taken one system call at a time: exclusive
creation, the write of the pid, the read of another's lock, the judgement, the
removal, the load. `lock.creator` is the file the name points to now, so a
write to a file that was unlinked is in vain. A pid is any that no live process
has, so it may be a crashed one's again.

### UpstreamMap

`wrap` registers (`Register`) and then asks the gateway to map the service
(`AskToMap`), `map` asks again; a request may be lost, arrive late or be answered
too late (`TimesOut`). `SelfMap`, `AdminMap` and `Unmap` are the three routes,
`RefuseSelfMap` the timestamp that is not newer. `set` and `delete` change the Map at
once and queue a snapshot of it (`SetAndPersist`); `Write` and `WriteFails` end
one write, and the request waits for its own. A request is numbered by when it was
sent, which is the timestamp its signature covers. `Restart` reads the file.

### SendQueue

The writes of one address. `TakeTurn` is `sendTx` when its predecessors have
ended: the number (`NonceFor`: the floor while it is young, the node's pending
count or the floor if greater), the estimate, where a duplicate attestation ends
(`AlreadyRecorded`), the send. `AwaitReceipt` is
`settled` over `awaitReceipt`, side by side with other calls. The node is the
environment: its answer to a count lies between what every node knows after
`Lag` ticks and what any knows (`PendingCounts`), it may fail a request, take a
transaction and lose the answer, and forget up to `MaxDrops` of them.

### SharedRead

The catalog of `listServices`, the identity check and the oracle's feed keep one
pass each (`slot`) which callers join. `memo` says which of them a behaviour is
about; they differ in how long a pass is fresh, whether it can fail and who
forgets it. The callers of a pass are resumed in the order they came (`Resume`),
with other steps between.

## 3. Runs

Deadlock is checked in `registry`, `freshness`, `guard` and `send`, where some
step is always possible. It is off in `score`, `gateway`, `stores` and in the five runs
with a violation: there every invoice, boot, request or tick the bounds allow is
spent in the end, and the real system stops as well when nobody calls it.

| run | bounds | shows |
|---|---|---|
| `registry` | 3 accounts in every role, one invoice paid in dust or in full, two changes in a row of each term | `WitnessIsNoPayee`, `WitnessIsNotOwner`: no order of queued, overtaken and matured rotations makes a witness a party; `OnlyTimeMovesTerms`, `GetServiceShowsLiveTerms`; `EveryPointWasPaidFor`, `OnlyThePayerOrTimeCensors`, `SkippedOnlyIfRefused`; `TypeOK` |
| `score` | 4 invoices, ring of 2, counters pinned at 3, a transfer log of 2 | `ImplementsScoreboard` (refinement), `DevnetMirrorsRegistry`, `MoneyIsConserved` |
| `freshness` | delay 3; cache 1 + latency 1 + invoice 1 = 3; 2 callers, 3 passes, 2 own writes | `FairSettlementStaysAttestable`, `CalmQuoteStaysPayable`, `OwnWriteIsRead`, `FailureIsNotKept`, `OneRefreshAtATime` |
| `guard` | 2 policies over 3 invoices, ring of 2 over a window of 2, calls nested 2 deep | `RateCheckIsExact`, `RateCapHolds`, `EscrowIsCovered`, `SpendingWithinBudget`, `EveryDebitSettlesOnce` |
| `gateway` | 2 invoices, 2 payments, 2 proofs in flight, 1 crash, 1 failed write of the invoice file, sweep; 2 buyers that retry once, who may trade places (symmetry) | `EveryServeHasItsOwnPayment`, `BurnedMeansDelivered`, `PaidInvoiceIsKept`, `PaidCallIsNotRefused`, `RefusedMeansNotServed` |
| `stores` | queue: 3 payments, 1 doomed, 1 crash, 2 attempts, 1 dead letter kept; lock: 3 slots, 5 boots, crash at every call; upstreams: 1 service, 2 extra requests, 1 trouble | `NoQueuedPaymentIsLost`, `AbandonedCountOnlyGrows`, `EveryEntryLeavesTheQueue`; `OneStoreOpen`, `NoInvoiceErased`, `EveryBootEnds`; `AcknowledgedChangeSticks`, `NewestSignedMapWins`, `FailedWrapIsRepaired` |
| `send` | 2 attestations of one payment and a write, lag 1, floor 1, 1 dropped transaction | `AcknowledgedKeepsItsNonce`, `DoneMeansRecorded`, `EveryCallIsAnswered`, `AcknowledgedIsExecuted`, `QuietHeals` |
| `gateway_rotation` | 1 invoice, 1 payment, a payee that moves | violated: `TimelyPaymentIsHonoured` |
| `queue_terminal` | the queue, no crash | violated: `TerminalFailureLeavesTheQueue` |
| `lock_overlap` | 2 boots that overlap | violated: `OneStoreOpen` |
| `upstream_delete` | the upstream map alone | violated: `AcknowledgedDeleteSticks` |
| `gateway_fault` | 1 invoice, 1 payment, 1 failed write | violated: `UndeliveredIsReleased` |

**Why these bounds.** A role conflict involves two roles of one account and at
most one earlier holder, so three accounts suffice; the ticks hold two changes in
a row of each term, and the grace reaches back one only. A ring of two that
takes four outcomes wraps twice. Two proofs in flight are what a race for one
invoice needs, and two invoices let a proof name the wrong one. One failed write
and one crash, in either order, part the Map from the file and then decide for
the file. In `freshness` the
sum is exactly the delay, so one tick more anywhere fails (the mutant
`FreshInclusive` is that tick). Three passes are one to fail, one begun before
its last waiter hears of it, and one more. Two policies with a common payer of
record meet at the router; the rate ring of the first wraps within the window's
passing. One dead letter kept out of up to three shows the trim and its counter.
Three calls are a sender, one whose floor it sets and a sibling that loses to it;
with `Lag = FloorTtl` the floor expires as the last node catches up. One trouble
and two requests beyond the first are what a failed write, a late request or a
restart between two answers takes.

**Restrictions.** `MCFreshness` and `MCGateway` start from a
registered service: what they check does not depend on how it came to be.
`MCScore` is `SteadySpec` narrowed by `Focus`: one owner who is the payee, one
witness, money to the payee or to oneself. `MCFreshness` has only the setters that move what its properties read. `MCSpendGuard`
starts with one policy open; one account owns both. `gateway` keeps the terms
still (`StillSpec`), since what happens when they move is `gateway_rotation`; in
the scene of the clients it may instead start with a record cached before
the terms last moved, of another price or another payee (`StaleRecords`). In the open scene
buyers pay the payee of the moment; a payment to somebody else never passes
`TransferOk`. The boots of `stores` never overlap, as under the one service unit
of `deploy`.

**Fairness.** The queue assumes that clocks advance, that a supervisor restarts
a stopped gateway (`deploy/agentgate-gateway.service`) and that somebody polls
`/metrics`, whose `stats` prunes: pruning has no timer of its own, and `/healthz`
does not prune. Attempts are assumed to do nothing in particular: an entry
leaves by age even if all of them fail. The lock assumes that a booting process
goes on executing. The upstream map assumes that a seller runs `map` until it
succeeds, that requests arrive unless lost and that the file system answers.
`send` assumes that requests are answered or time out (the transport has a
timeout), that blocks are produced and that clocks go on; nobody has to call.

**Exceptions the properties name.** A buyer who, after a fair payment, sends dust
for the same invoice to the new payee hides the settlement from the first lookup
(`MaskedByDust`), and loses only its own score. A payer that becomes the owner
censors itself (`PayerActs`). A crash between burn and answer leaves the invoice
burned with nobody to release it, and so does a burn or a release whose write
failed (`lost`): at once in the first case, from the next restart on in the second.
`BurnedMeansDelivered` says that nothing else does, and that none of it sells an
answered call twice. A call whose quote no longer matches
the chain's record may be refused (`PaidCallIsNotRefused`; with
`gateway_rotation` it is). A transaction the mempool dropped may be replaced,
and those behind it wait until the floor expires (`AcknowledgedKeepsItsNonce`,
`AcknowledgedIsExecuted`); a steady stream of sends keeps renewing the floor, so
`QuietHeals` asks for a quiet `FloorTtl`. `NewestSignedMapWins` reaches back to
the last restart, since `lastSelfMapTs` lives in memory.

## 4. What the code says otherwise

Five runs show a statement of the repository violated by its code.

- `gateway_rotation`: `app.ts:704` says a payment that beat the deadline is
  honoured however late it is presented. The payment is verified against the
  service record of the moment; once a rotation queued after the payment has
  matured, an honest buyer within its redemption window is refused.
- `queue_terminal`: `attestation-queue.ts:20` says an entry that fails terminally
  even once moves to the dead letters. `runAttestation` never reports a failure
  to the queue, so it stays until it is a week old.
- `lock_overlap`: `invoice-store-file.ts:196` says the lock is exclusive or the
  process refuses to start. A lock file is empty between its creation and the
  write of the pid; a second process takes it for stale and removes it.
- `upstream_delete`: `upstream-store.ts:106` says delete is idempotent and
  persists. After a failed write the Map no longer has the entry, so the next
  DELETE writes nothing and is answered 204 while the file keeps the mapping.
- `gateway_fault`: `invoice-store.ts:27` says of release that it puts a burned invoice
  back when the gateway is why the call was not delivered. `markUsed` sets its flag
  before it persists (`invoice-store-file.ts:81`); if that write throws, the handler
  answers 500 without proxying and without releasing, and every retry of the paid
  proof is refused as used: until a restart reads the file, or for good once a later
  write has carried the flag there.

More were met and are described without a run of their own:

- `devnet/src/state.ts:132` says the devnet enforces the rules of the registry. It
  takes outcomes from the owner (`state.ts:301`), which the registry refuses, and
  refuses those of a paused service, which the registry takes.
- `isSelfPayment` leaves out the displaced payee that the registry also refuses,
  while `app.ts:130` asks for an exact match. The registry's refusal is the
  safe side; `SkippedOnlyIfRefused` checks the other one.
- A quote issued while a change is already queued may stop being payable before
  it expires (`config.ts:83` speaks of the TTLs alone). `CalmQuoteStaysPayable`
  is what the TTLs do guarantee.
- Two policies that debit one invoice collide at the router, the guard being
  the payer of both (`SpendGuard.sol:322` says they cannot).
- A container whose process has the same pid after every restart takes its
  crashed predecessor's lock for a live one (`invoice-store-file.ts:215`).
- `fetchPaid` never presents a proof again after a 502 or 504, though the gateway
  released the invoice so that it could.
- `client/src/index.ts:330` speaks of refusing rather than paying when the signer
  cannot sign; that check comes after the transfer.
- A write whose answer was lost throws although it may be executed; the caller
  cannot tell. `DoneMeansRecorded` is the direction that holds.
- The identity check's callers clear the slot whichever pass is in it, so a late
  one may forget a pass of others; that costs one more check.
- One outage of all price sources pins the oracle's fixture for the whole TTL.

## 5. Theorems

Every invariant below is an inductive strengthening of the properties it is
for, which are not inductive as they stand. All theorems hold for every value of
the constants that meets the named assumptions of the module; the bounds on
counts and times are such constants.

`ServiceTermsProofs`: `TermsTypeOK`, `WitnessIsNoPayee`, `WitnessIsNotOwner`,
`OnlyTimeMovesTerms` and `GetServiceShowsLiveTerms` of `TermsSpec`. It uses the
assumptions of `ServiceTerms` only: `NoOne` is no account, prices and delays are
positive, the bounds are naturals. `WitnessIsNoPayee` speaks of the live
witness, but what keeps it is what the record *stores*: a matured slot must
still be well formed when it is folded, and the displaced payee must be apart
from the queued witness as well. `IInv` says of each record, written or not, that
it is typed, that a slot's value and its maturity are set together
(`WellFormed`), that stored and queued witnesses are apart from every stored,
queued and displaced payee (`WitnessApart`) and from the owner (`OwnerApart`), and
that the written records are those up to `servicesCount`. Each fold keeps
`RecordOK` (`Promote*OK`); each transaction then changes one field under its
guard (`Set*OK`, `AcceptOwnershipOK`, ...); a tick changes no record.
`TermsMoveWithTime` follows from the same invariant: a fold shows the live terms
it found, and what is queued now is not mature because delays are positive.

`RegistryProofs`: `TypeOK`, `EveryPointWasPaidFor`, `OnlyThePayerOrTimeCensors`
and `CountersMatchSettlements` of `Spec`, for any accounts, nonces, amounts,
prices, ring capacity and counter width. The invariant is `IInv` of the
records, `ScoreOK` (types of settlements and counters), `RingOK` (capacity, and
the head on the slot after the newest outcome until the ring is full) and the
property itself. It needs the records' invariant because a point is paid for
only if the payee that was looked up is an address and the floor is a listed
price, which the matured-slot part of `WellFormed` gives; a point stays paid for
since `pay` writes a settlement once (`PayKeepsSettlements`). For the action
property, `BackingIsOfTerms` shows that a record decides what backs an outcome
through its live terms and its owner alone; `RegistryTermsStep` extends
`TermsStep` to every transaction, so an owner has nothing left to censor with.
Three more theorems rest on the same two invariants:

- `ScoreboardIsImplemented`: `Spec` implements `Scoreboard`. An attestation is the
  abstract outcome, every other step a stutter; the heart is `PushShowsLatest`: after
  a push, the ring read newest first shows the outcome in front of what it showed,
  cut to capacity, wherever the head stands.
- `CautionCostsNothing` (`SkippedOnlyIfRefused`): whoever the gateway leaves out as
  interested, the registry refuses.
- `FairPaymentsKeepTheirGrace`, of `GraceSpec`. The payee and the price a fair payment
  met are each live still, or displaced, and then the next change matures too late to
  displace them again before the delay is over: a change is queued one delay ahead
  at least. Transactions keep this (`TransactionsLeaveStanding`), and so does a tick
  (`TimeLeavesStanding`).

Of `Devnet`, for any accounts, amounts, ring and counters, under `SteadySpec`:

- `MoneyAddsUp` (`MoneyIsConserved`). A transfer changes two balances one after the
  other, so it is two uses of `SumWithOneChanged`, and paying oneself is not special.
- `DemoShowsTheScore` (`DevnetMirrorsRegistry`). `SteadyInv` says that records agree,
  that what was verified was settled, and that both sides have seen the same
  outcomes (`SameSeen`) with the same counters and list (`SameScore`). The heart is
  `SteadyRulesAgree`: of a verified payment the two refuse the same outcomes, by
  different rules. The registry's ring then shows what the devnet's list shows
  by `PushShowsLatest`. A steady step is a step of `Registry` (`SteadyIsNext`), so its
  invariants hold here too.

`GatewayProofs`: `EveryServeHasItsOwnPayment`, `BurnedMeansDelivered` and
`PaidInvoiceIsKept` of `Gateway`'s `Spec`, with every transaction of the registry
running and any number of failed writes, so with more than the run lets happen.
`SpentOnce` says that a nonce is with the upstream once or was answered once, and not
both; `UsedMeansSpent` that every invoice of the Map and of the file is burned while
its nonce is spent so, which is what the second look in the burn and a restart from
either relies on, and that one burned without that is lost or past its
window (`SpentFits`). A nonce may be both lost and spent: a release whose write
failed has freed the invoice in the Map, so its call may be made again, which burns
it there and in the file. `InvoicesOK` that an invoice is kept, once, while
its redemption window lasts. `TtlAssumption` is what the configuration enforces.

It also proves `RefusedMeansNotServed` of `FetchPaid`'s `ClientSpec`, where all
buyers use the client and all owners move their terms; the client scene of the
gateway runs takes steps of it. `ClientInv` says that a nonce belongs to one call
(`NoncesOK`), that a request is the only one of its nonce and its call waits or
has given up, and that an answer's call was served or has given up (`AnswersOK`).
A call that is told leaves `waiting` in the step in which its request leaves, and
a call that timed out never presents again, so no verdict meets a request.

The same specification has `PaidCallsAreHonoured`: take any buyers at any moment at
which they have not begun; if the chain lists the same terms from then on, none of
them is refused a collectable payment at those terms, whatever the gateway has
cached, however other calls, crashes and sweeps interleave.
`PaidCallsAreNotRefused` is the case of all buyers and names the property the run
checks. Two invariants carry it. `PaidCallsInv` adds to those above the buyers'
ledger: a payment is the only one of its payer and is at its call's quote
(`PaymentsOK`), an invoice with a call's nonce is for the quoted service (`CallFits`) and is lost
only with the answer (`LossIsTold`), a proof carries its presenter's payment and its
invoice's deadline (`ProofFits`), and a service has one cached record (`CacheOK`).
`Agrees` says of a call whose quote is what the chain lists that every record the
gateway judges it by is that quote: those of its requests, and the cached one, which
is the record it was quoted from or a later read of the chain. The theorem needs terms that
stay: the redemption window (a day by default) outlasts the change delay (a quarter
of an hour) by far, so terms may leave and come back while a payment is
collectable, and a gateway that verifies in between refuses it. That is what
`gateway_rotation` shows.

`SendQueueProofs`: `AcknowledgedKeepsItsNonce` and `DoneMeansRecorded`, for any
number of calls. The numbers argument (`NumbersOK`) is that, while nothing was
dropped, transactions have no gap, each acknowledged one is below the floor, and
each below the floor is at least as old as the floor. So when the floor has
expired, a node whose lag is no longer than its lifetime (`Lag <= FloorTtl` of
`TimeAssumption`) counts them all.

`FreshnessProofs`: `OwnWriteIsRead`, `FailureIsNotKept` and `OneRefreshAtATime` of
`SharedRead`, for any callers. A caller can only join the pass in the slot, so it is
enough that this pass saw every own write, that it has not been reported failed
and that a running refresh is it (`SlotOK`).

It holds `CalmQuoteStaysPayable` of `Quotes` as well. A record that showed no queue
when it was read shows the terms until a whole `TermsDelay` after the read, since
what was queued since is queued that far ahead (`QueuedLate`); it is in the cache at
most `FetchLatency` later, is served for `CacheTtl`, and its quote lives `InvoiceTtl`.
`StalenessAssumption` puts the end of that before the end of the delay.

`StoresProofs` is about the gateway's three files.

- Queue: `NoQueuedPaymentIsLost` and `AbandonedCountOnlyGrows`, for any payments,
  attempts and limits. `QueueInv` says that no payment is queued twice, that memory
  is the file while the gateway is up, and that the sidecar has counted every letter it
  keeps (`Letters`), which the count after a restart relies on. The property is an
  inequality of cardinalities, so the proof counts: `Only` yields as many entries as
  it was given places (`OnlyKeeps`) and a queue without repetition has as many
  payments as entries (`DistinctCounts`); a step that moves expired entries to the
  dead letters takes from one count no more than it adds to the other, whether it
  persists both files or dies between them.
- Lock: `OneStoreOpen` and `NoInvoiceErased` of `SerialLockSpec`. A process past the
  exclusive creation is the one the lock's name points to, one that has judged a
  lock stale is right (`HolderOK`), and the running process's Map is the file
  (`MirrorOK`). That one boots at a time is the specification's, and `lock_overlap`
  shows that it is needed.
- Upstream map: `AcknowledgedChangeSticks` and `NewestSignedMapWins`. The file, the
  snapshots waiting to be written and the Map are one line of states, in which no
  service goes back to an older state: a failed write drops a link, a successful
  one moves the file up, a restart cuts the line at the file. What was
  acknowledged is at or before the file, and no signature in the line is older than
  one acknowledged (`SignedOK`).

`SpendGuardProofs`: `EscrowIsCovered`, `SpendingWithinBudget`, `RateCheckIsExact`,
`RateCapHolds` and `EveryDebitSettlesOnce`, for any policies, caps, windows, clocks and
depth of calls. A revert puts back an earlier world, so the invariant is a predicate
of one world, `WorldOK`, that the current one and every one on the stack satisfy.

- Money (`MoneyOK`): what is held is the sum of the balances, and what a policy
  has spent is the sum of its debits and within its budget. One balance or one
  debit changes at a time.
- Rate (`RingsOK`, `RatesOK`): a ring holds the newest debits of its policy, oldest
  at the cursor once it is full (`RingOK`). Debits are in order of time (`TimesOK`),
  so if the oldest of the newest `maxCallsInWindow` has left the window, every
  earlier one has too, and one comparison answers what counting the history would.
  A stack of worlds older than the clock stays right because all this is about
  debits made, none of them in the future.

Of `TrustTier` it proves, for every score, that the tier enforced is the badge shown,
that a served call never lowers it and that a failed one lowers it by one at most.

`Sums` makes the theorems about money possible. What a fold computes would need
induction over data; `SumCountsUnits` goes around it: a sum of naturals is the number
of pairs of an index and a unit below its value, that is, a cardinality, about
which the library's theorems speak. The induction it needs, over finite sets and
numbers, is done by a least counterexample (`SmallestSubset`).

**Only model-checked.** Every invariant and every action property of a passing run
has a theorem, and so has the refinement. Liveness under fairness is out of the
prover's reach and stays with TLC: `EveryEntryLeavesTheQueue`, `EveryBootEnds`,
`FailedWrapIsRepaired`, `EveryCallIsAnswered`, `AcknowledgedIsExecuted` and `QuietHeals`.
So do the violated statements of section 4, which are false. Two theorems assume
more than the runs' words say: those of paid calls want terms that stand still, for
the reason given above, as the run does (`StillSpec`), and those of the devnet are of
`SteadySpec`, since a pause or an owner's outcome parts the two (section 4).

## 6. Not modelled

- SSRF guard, proxy, x402 encoding, signatures, ABI: data; the outcomes they can
  have are actions of `Gateway`.
- Dashboard, scripts, deployment: read-only or start-up.
- A crash between the buyer's response and the enqueue of its outcome
  (`app.ts:819`): the queue module starts at the enqueue, and no property can say
  more than that it is lost.
- SpendGuard is not on the gateway's path: its payer of record is a contract and
  cannot sign the gateway's proof, as the documentation says.
- Which service the buyer agent picks: a language model does. Its budget for a
  run is one subtraction.
- The devnet's activity feed, its second transfer of one nonce and its silence
  about a witness that is the owner or the payee: nothing on the contracts
  corresponds.
- An invoice whose `put` could not be written stays in the Map under a random nonce
  that no answer names. Nobody can pay or present it, and `Challenge` leaves it out.
- In `Gateway` a `verifyTransfer` that throws (500) is the pending outcome, and
  identical proofs at the same step are one member of the set of requests.
- `isSelfPayment` uses the record that the handler resolved when the request began.
  `SkippedOnlyIfRefused` compares the two rules on a record just read; what the owner
  moves in between is not caught by it.
- `InvoiceLock.Close` is the unlink and the exit in one. In between the server awaits
  `upstreams.flush()` (`app.ts:1021`), and `put`, `markUsed` and `release` do not look at
  `closed`: with an upstream write pending at shutdown, a successor could load
  while the old process may still write. `OneStoreOpen` says nothing about that window.
- In `AttestationQueue` the persist of the prune at boot is not torn, `Schedule` makes
  one persist of the prune's and the enqueue's, and a failing write of the queue's
  files, after which an enqueue does not come back, is left out.
- `SpendGuard.ValidConfig` drops the cap on `maxCallsInWindow` (`SpendGuard.sol:162`), and
  `Badge` the `Number.isSafeInteger` checks (`trust.ts:17`): both models take more than
  the code.
- `SendQueue.AwaitReceipt` leaves out an error that is not lag and is rethrown at once
  (`receipt.ts:138`), and an `isAttested` that throws.
- That a read before a write (`isAttested`, the catalog) may lag is in
  `SendQueue` and `SharedRead`; that the service cache keeps no misses is not, since
  nothing depends on it.

Most of the repository's lines are outside the models for what they are: a
dashboard and its documentation pages, a generated ABI, command-line parsing and
printing, validation of input, and typed reads that keep no state. The
models cover what keeps state, waits or can fail half-way.

## 7. Plan

Done, in order: `ServiceTerms`, `Registry`, `Scoreboard`, `Grace`, `SelfPayment`,
`Quotes`, `Gateway`, `SpendGuard`, `TrustTier`, `AttestationQueue`, `InvoiceLock`;
then `SendQueue`, `SharedRead`, `UpstreamMap`, `Devnet`, `FetchPaid`, the
composed runs and the proofs of section 5.

Every safety property a passing run checks is now proved (section 5).

Next, proofs: that `Gateway` implements an abstract ledger of one
answer per payment; that `SharedRead`'s three uses implement one read that is never
older than its caller.

Next, models: the price arithmetic of the oracle against a reference
definition; the buyer agent's budget over several calls; `SpendGuard` reading
the `Registry` of the same behaviour instead of its answers.
