SPECIFICATION RestartsSpec
CONSTANTS
  MaxTrades = 3
  MaxUpdates = 3
  Batch = 2
INVARIANTS FileKept CommandNotLost
PROPERTIES FileGrows HandledOnce CommandHandled
