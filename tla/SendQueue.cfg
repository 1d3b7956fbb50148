\* Two attestations of one payment and a write on one address; one drop.
SPECIFICATION Spec
CONSTANTS
  Attest = {a1, a2}
  Write = {w1}
  NoCall = NoCall
  FloorTtl = 1
  Lag = 1
  Patience = 1
  MaxDrops = 1
INVARIANTS
  AcknowledgedKeepsItsNonce
  DoneMeansRecorded
PROPERTIES
  EveryCallIsAnswered
  AcknowledgedIsExecuted
  QuietHeals
