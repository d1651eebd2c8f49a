\* retryMax = 3, the default: long enough for a 5xx to be replaced by a 5xx, then
\* by an error, then by an answer.
SPECIFICATION Spec
CONSTANTS
  MaxRetries = 3
  NULL = NULL
INVARIANTS
  TypeOK
  AtMostOneLeft
  AnswerIsOfLastAttempt
  ReturnedBodyIsOpen
  GivesUpAtTheLimit
CHECK_DEADLOCK FALSE
