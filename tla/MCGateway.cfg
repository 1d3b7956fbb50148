\* Two invoices, one or two payments, two proofs at a time and a crash.
SPECIFICATION StillSpec
CONSTANTS
  owner = owner
  witness = witness
  former = former
  Account = {owner, witness, former, alice, bob}
  Buyer = {alice, bob}
  Presenter = {alice, bob}
  MaxPendingRetries = 1
  NoOne = NoOne
  Url = {u1}
  Price = {1, 2}
  MaxServices = 1
  AttestorDelay = 3
  TermsDelay = 3
  MaxTime = 3
  CacheTtl = 1
  InvoiceTtl = 1
  RedemptionWindow = 1
  MaxInvoices = 2
  MaxPayments = 2
  MaxRequests = 2
  MaxCrashes = 1
  MaxFaults = 1
SYMMETRY Symmetry
INVARIANTS
  EveryServeHasItsOwnPayment
  BurnedMeansDelivered
  PaidInvoiceIsKept
  
  
CHECK_DEADLOCK FALSE
