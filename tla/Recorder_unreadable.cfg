SPECIFICATION Spec
CONSTANTS
  MaxTrades = 3
PROPERTIES HistoryKept
