SPECIFICATION Spec
CONSTANTS
  MaxAttempts = 2
  Statuses = {200, 429, 500}
  Codes = {0, 51, 610, 904}
INVARIANTS
  TypeOK
  ErrorStateIsOwn
  OkIsAnswered
  FailureSaysWhy
  OutIsDefined

