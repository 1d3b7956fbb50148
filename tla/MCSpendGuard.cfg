\* Two policies over the same invoices of one service whose score moves; time
\* for the window to pass and the ring to wrap; calls nest in a recipient.
SPECIFICATION MCSpec
CONSTANTS
  gate = gate
  payee = payee
  Account = {gate, payee}
  NoOne = NoOne
  ServiceId = {1}
  Nonce = {n1, n2, n3}
  Amount = {1}
  Terms <- Answers
  Config <- Configs
  MaxPolicies = 2
  MaxDeposits = 3
  MaxDepth = 2
  MaxTime = 2
SYMMETRY Symmetry
INVARIANTS
  RateCheckIsExact
  RateCapHolds
  EscrowIsCovered
  SpendingWithinBudget
  EveryDebitSettlesOnce
