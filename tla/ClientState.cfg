SPECIFICATION FairSpec
CONSTANTS
  Rotators = {rot1}
  Requesters = {req1}
  Pollers = {poll1}
  Blocks = {b1, b2, b3}
  Tokens = {k1}
  Codes = {19}
  NoCallbackCode = 19
  NULL = NULL
  Free = Free
INVARIANTS
  TypeOK
  HeapOwned
  SnapshotSafe
  ErrorPairConsistent
PROPERTIES
  CallsReturn
