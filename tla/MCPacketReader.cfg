SPECIFICATION ReaderSpec
CONSTANTS
  Count = 10
  Length <- MCLength
  Start <- MCStart
  Answers = {2, 3, 5, 8}
  MinLength = 3
  LengthField = 1
  ReadSize = 8
INVARIANT
  AnswersPassedOn
CHECK_DEADLOCK FALSE
