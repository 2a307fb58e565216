SPECIFICATION Spec
CONSTANTS
  NoMarker = NoMarker
  ReadMayFail = TRUE
  InputChoices <- Inputs
  ArgumentLists <- Lists
  MarkerChoices <- MarkerOrNone
INVARIANTS
  TypeOK
  ArgumentsAsWritten
  LineEndsAsWritten
  ErrorAsWritten
  ConveysArguments
