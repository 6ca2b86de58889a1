SPECIFICATION FairSpec
CONSTANTS
  MaxAttempts = 3
  BodyBytes = 2
  MaxRedirects = 1
  Statuses = {200, 400, 408, 429, 500}
INVARIANTS
  TypeOK
  WorkNotRepeated
  PreUploadNotDelivered
  BodiesOwned
  ResponseOfLastAttempt
PROPERTIES
  EveryCallReturns
  PromiseKept
