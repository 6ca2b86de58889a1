SPECIFICATION Spec
CONSTANTS
  MaxAttempts = 2
  MaxExtras = 3
  MaxPieces = 3
INVARIANTS
  TypeOK
  FieldsFit
  RecognizeRequestRight
  SameRequestEveryAttempt
  CallbackUrlAsksOnce
