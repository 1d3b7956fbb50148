\* Three payments, one of them refused for good, with clocks, restarts and polls
\* that go on; three slots and five boots, never two at a time; one service, two
\* requests more than it takes and one that is lost or fails.
SPECIFICATION StoresSpec
CONSTANTS
  Payment = {p1, p2, p3}
  Doomed = {p3}
  MaxAttempts = 2
  MaxAge = 2
  MaxDeadLetters = 1
  MaxBoots = 1
  MaxTime = 3
  Gateway = {g1, g2, g3}
  Pid = {1, 2, 3}
  Invoice = {i1, i2}
  MaxStarts = 5
  Service = {s1}
  MaxExtras = 2
  MaxTroubles = 1
INVARIANTS
  NoQueuedPaymentIsLost
  OneStoreOpen
  NoInvoiceErased
  AcknowledgedChangeSticks
  NewestSignedMapWins
PROPERTIES
  AbandonedCountOnlyGrows
  EveryEntryLeavesTheQueue
  EveryBootEnds
  FailedWrapIsRepaired
CHECK_DEADLOCK FALSE
