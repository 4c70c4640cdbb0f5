CONSTANTS
  ResponseLengths = {2, 4}
  FrameLengths = {2, 3}
  ResponseBuffer = 3
  AnswerBuffer = 2
  MaxRecord = 4
  MaxFrames = 2
SPECIFICATION Spec
CHECK_DEADLOCK FALSE
INVARIANT ResponseRead
