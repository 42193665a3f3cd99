CONSTANTS
  u16regsize = 130
  MAX_BUFFER = 256
  Request <- Requests
  u8id = 1
  MAX_SLAVE_QUEUE = 1
SPECIFICATION FairSpec
INVARIANTS WritesAreWhole SemaphoreHeld SpeaksWhenAsked RegistersInRange AnswerFits
PROPERTIES SemaphoreReturned
