CONSTANTS
  Task = {"a", "b"}
  Injector = {}
  Telegram <- OwnSlave
  MAX_TELEGRAMS = 2
SPECIFICATION FairSpec
PROPERTIES AnswerMatchesQuery
