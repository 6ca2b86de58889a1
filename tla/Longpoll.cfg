SPECIFICATION FairServerSpec
CONSTANTS
  kMaxConsecutiveFailures = 8
  kBackoffStartMs = 500
  kBackoffMaxMs = 30000
  MaxEvents = 3
  MaxStarved = 1
  MaxRepeats = 1
INVARIANTS
  TypeOK
  NoEventSkipped
  BackoffFitsStreak
  ResultExplainsEnd
  CloseStopsDispatch
PROPERTIES
  CloseEndsRun
  EventsArrive
  FeedServed
