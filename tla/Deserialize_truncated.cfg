SPECIFICATION ReadingSpec
PROPERTY AnsweredAnyway
CHECK_DEADLOCK FALSE
