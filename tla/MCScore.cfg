\* Up to four settlements, a ring of two outcomes and counters that pin at
\* three: the ring wraps twice and the counters saturate.
SPECIFICATION ScoreSpec
CONSTANTS
  owner = owner
  witness = witness
  Account = {owner, witness, buyer}
  NoOne = NoOne
  Url = {u1}
  Price = {1}
  MaxServices = 1
  AttestorDelay = 1
  TermsDelay = 1
  MaxTime = 1
  Nonce = {n1, n2, n3, n4}
  Amount = {1}
  MaxSettlements = 4
  MaxAttestations = 2
  MaxCalls = 3
  TransferLogCap = 2
  MaxFaucet = 4
SYMMETRY Symmetry
INVARIANTS
  MoneyIsConserved
  DevnetMirrorsRegistry
PROPERTY
  ImplementsScoreboard
CHECK_DEADLOCK FALSE
