SPECIFICATION Spec
CONSTANTS
  Blocks = {b1, b2, b3, b4, b5, b6}
  NULL = NULL
  SizeLimit = 128
  InitialCap = 4
  ChunkSizes = {0, 1, 5, 14}
  MaxBody = 34
  MaxHops = 3
  Reallocators = {"realloc", "emulated"}
  ZeroFrees = {TRUE}
INVARIANTS
  TypeOK
  BodyIntact
  BlocksOwned
  RequestIdOfResponse
