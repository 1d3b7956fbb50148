\* One settlement, dust or the price, against every combination of three
\* accounts in the roles, two changes in a row of each term and a witness
\* rotation that takes twice as long as a payout rotation.
SPECIFICATION Spec
CONSTANTS
  Account = {a1, a2, a3}
  NoOne = NoOne
  Url = {u1}
  Price = {2}
  MaxServices = 1
  AttestorDelay = 2
  TermsDelay = 1
  MaxTime = 2
  Nonce = {n1}
  Amount = {1, 2}
  MaxSettlements = 1
  MaxAttestations = 1
  MaxCalls = 1
SYMMETRY Symmetry
INVARIANTS
  TypeOK
  WitnessIsNoPayee
  WitnessIsNotOwner
  GetServiceShowsLiveTerms
  EveryPointWasPaidFor
  SkippedOnlyIfRefused
PROPERTIES
  OnlyTimeMovesTerms
  OnlyThePayerOrTimeCensors
