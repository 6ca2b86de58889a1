SPECIFICATION Spec
CONSTANTS
  kMaxConsecutiveFailures = 8
  kBackoffStartMs = 500
  kBackoffMaxMs = 30000
  MaxEvents = 3
  MaxStarved = 0
  MaxRepeats = 1
INVARIANT FiredOncePerEvent
