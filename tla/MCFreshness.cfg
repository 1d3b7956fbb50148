\* A delay of three ticks that the cache, the latency and the invoice lifetime
\* add up to exactly; time for a change queued before a payment or a quote and
\* the next one queued after it to mature; payments of and below two prices;
\* three passes of each shared read.
SPECIFICATION MCSpec
CONSTANTS
  Account = {a1, a2, a3, a4}
  NoOne = NoOne
  Url = {u1}
  Price = {2, 3}
  MaxServices = 1
  AttestorDelay = 2
  TermsDelay = 3
  MaxTime = 5
  Nonce = {n1}
  Amount = {1, 2, 3}
  MaxSettlements = 1
  MaxAttestations = 1
  MaxCalls = 1
  CacheTtl = 1
  InvoiceTtl = 1
  FetchLatency = 1
  Caller = {k1, k2}
  ReadTtl = 2
  MaxPasses = 3
  MaxWrites = 2
SYMMETRY Symmetry
INVARIANTS
  FairSettlementStaysAttestable
  CalmQuoteStaysPayable
  OwnWriteIsRead
  FailureIsNotKept
  OneRefreshAtATime
