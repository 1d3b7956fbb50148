\* A mapping, a DELETE whose write fails and a DELETE that finds nothing to do.
SPECIFICATION UpstreamSpec
CONSTANTS
  Service = {s1}
  MaxExtras = 2
  MaxTroubles = 1
INVARIANT
  AcknowledgedDeleteSticks
CHECK_DEADLOCK FALSE
