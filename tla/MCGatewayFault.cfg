\* One invoice, paid in time, and one write of the invoice file that fails.
SPECIFICATION StillSpec
CONSTANTS
  owner = owner
  witness = witness
  former = former
  Account = {owner, witness, former, buyer}
  Buyer = {buyer}
  Presenter = {buyer}
  MaxPendingRetries = 0
  NoOne = NoOne
  Url = {u1}
  Price = {1}
  MaxServices = 1
  AttestorDelay = 3
  TermsDelay = 3
  MaxTime = 2
  CacheTtl = 1
  InvoiceTtl = 1
  RedemptionWindow = 1
  MaxInvoices = 1
  MaxPayments = 1
  MaxRequests = 1
  MaxCrashes = 0
  MaxFaults = 1
INVARIANT
  UndeliveredIsReleased
CHECK_DEADLOCK FALSE
