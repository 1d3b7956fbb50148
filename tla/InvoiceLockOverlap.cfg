\* Two boots that overlap.
SPECIFICATION LockSpec
CONSTANTS
  Gateway = {g1, g2}
  Pid = {1, 2}
  Invoice = {i1}
  MaxStarts = 2
INVARIANT
  OneStoreOpen
CHECK_DEADLOCK FALSE
