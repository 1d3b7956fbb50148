------------------------------- MODULE Quotes -------------------------------
(***************************************************************************)
(* A buyer's quote against the terms the chain will settle it by.  The     *)
(* gateway prices a 402 from ServiceCache, which may have been filled from *)
(* a read that was answered a while ago, and the quote then stands for an  *)
(* invoice TTL; SpendGuard.debit demands the terms that are live when it   *)
(* executes.                                                               *)
(***************************************************************************)
EXTENDS ServiceTerms

CONSTANTS
  CacheTtl,      \* SERVICE_CACHE_TTL_MS
  InvoiceTtl,    \* INVOICE_TTL_MS
  FetchLatency   \* bound: ticks between the chain's answer and the cache fill

\* What loadConfig enforces through MAX_INVOICE_TTL_MS, its safety margin being
\* room for the latency of a read.
ASSUME StalenessAssumption ==
  /\ CacheTtl \in Nat \ {0} /\ InvoiceTtl \in Nat \ {0} /\ FetchLatency \in Nat
  /\ CacheTtl + FetchLatency + InvoiceTtl <= TermsDelay

VARIABLES
  reads,  \* getService answers under way: requests overlap
  cache,  \* ServiceCache.entries, by service; the empty set = no entry
  quote   \* the one 402 followed, at most one: any of a behaviour's quotes

quoteVars == <<termsVars, reads, cache, quote>>

\* No change of the money terms is queued that has yet to mature.
Calm(s) ==
  /\ s.paymentTargetEffectiveAt = 0 \/ Matured(s.paymentTargetEffectiveAt)
  /\ s.acceptsEffectiveAt = 0 \/ Matured(s.acceptsEffectiveAt)

\* Mutant of Fresh: an entry is served a tick too long.
FreshInclusive(entry) == now - entry.fetchedAt <= CacheTtl

\* ServiceCache.get serves this entry without asking the chain.
Fresh(entry) == now - entry.fetchedAt < CacheTtl

\* What the gateway keeps of a record it read: the terms it would quote.
Offer(id) ==
  LET record == GetService(id)
  IN  [active |-> record.active, payTo |-> record.paymentTarget,
       amount |-> record.accepts, calm |-> Calm(services[id])]

-----------------------------------------------------------------------------

\* A request finds no fresh entry and asks the chain, which answers at once; the
\* cache is filled when the answer arrives.
FetchService(id) ==
  /\ Registered(id)
  /\ \A entry \in cache[id] : ~Fresh(entry)
  /\ reads' = reads \cup {[id |-> id, offer |-> Offer(id), readAt |-> now]}
  /\ UNCHANGED <<termsVars, cache, quote>>

\* Answers arrive in any order, and the age of an entry counts from the arrival.
FillCache(read) ==
  /\ cache' = [cache EXCEPT ![read.id] = {[offer |-> read.offer, fetchedAt |-> now]}]
  /\ reads' = reads \ {read}
  /\ UNCHANGED <<termsVars, quote>>

\* respond402Fresh, from a cached record that is still fresh.
IssueQuote(id) ==
  \E entry \in cache[id] :
    /\ Fresh(entry)
    /\ entry.offer.active
    /\ quote' = {[id |-> id, offer |-> entry.offer, expiresAt |-> now + InvoiceTtl]}
    /\ UNCHANGED <<termsVars, reads, cache>>

\* The clock does not outrun a read by more than the latency bound.
QuotesTick ==
  /\ \A read \in reads : now < read.readAt + FetchLatency
  /\ Tick
  /\ UNCHANGED <<reads, cache, quote>>

QuotesInit ==
  /\ TermsInit
  /\ reads = {}
  /\ cache = [id \in ServiceId |-> {}]
  /\ quote = {}

GatewayNext ==
  \/ \E id \in ServiceId : FetchService(id) \/ IssueQuote(id)
  \/ \E read \in reads : FillCache(read)

QuotesNext ==
  \/ TermsNext /\ now' = now /\ UNCHANGED <<reads, cache, quote>>
  \/ GatewayNext
  \/ QuotesTick

QuotesSpec == QuotesInit /\ [][QuotesNext]_quoteVars

-----------------------------------------------------------------------------

\* debit would accept this quote's payee and amount now, its service being on.
Payable(q) ==
  LET s == services[q.id] IN
  s.active => /\ q.offer.payTo = EffectivePaymentTarget(s)
              /\ q.offer.amount = EffectiveNativePrice(s)

\* A quote priced from a record that had no change queued is payable at exactly
\* its payee and amount until it expires, however stale the cache was and in
\* whatever order overlapping reads filled it (ServiceCache.get and
\* MAX_INVOICE_TTL_MS against TERMS_CHANGE_DELAY_MS).
CalmQuoteStaysPayable ==
  \A q \in quote : q.offer.calm /\ now <= q.expiresAt => Payable(q)

=============================================================================
