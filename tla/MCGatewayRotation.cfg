\* One invoice, paid in time, and a payee that moves.
SPECIFICATION MovingSpec
CONSTANTS
  owner = owner
  witness = witness
  former = former
  Account = {owner, witness, former, buyer}
  Buyer = {buyer}
  Presenter = {buyer}
  MaxPendingRetries = 0
  NoOne = NoOne
  Url = {u1}
  Price = {1}
  MaxServices = 1
  AttestorDelay = 3
  TermsDelay = 3
  MaxTime = 5
  CacheTtl = 1
  InvoiceTtl = 1
  RedemptionWindow = 5
  MaxInvoices = 1
  MaxPayments = 1
  MaxRequests = 1
  MaxCrashes = 0
  MaxFaults = 0
INVARIANT
  TimelyPaymentIsHonoured
CHECK_DEADLOCK FALSE
