SPECIFICATION ReadingSpec
INVARIANTS
  InStep
  RejectsExactlyWrong
  ValueIsDocument
PROPERTIES
  Answered
CHECK_DEADLOCK FALSE
