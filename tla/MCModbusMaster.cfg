CONSTANTS
  Task = {"a", "b"}
  Injector = {"b"}
  Telegram <- AnyQuery
  MAX_TELEGRAMS = 1
SPECIFICATION FairSpec
INVARIANTS ReadyForNext
PROPERTIES TimeoutIsReal DmaQueryAnswered
