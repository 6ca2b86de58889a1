SPECIFICATION Spec
CONSTANTS
  Numbers <- MCNumbers
  IntLimit = 2048
  MaxEntries = 3
  MaxTokens = 6
  MaxCalls = 2
INVARIANTS
  TypeOK
  ResultOwned
  OutcomeHonest
  ListsInPlace
  AnswersTrue
