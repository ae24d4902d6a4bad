SPECIFICATION PriceSpec
CONSTANTS
  Prices <- CentPrices
  MaxSlots = 6
  Efficiency = 90
  MinSpread = 1
  Usable = 4556
  ChargePowers = {20000, 10000}
  DischargePowers = {20000, 10000}
  CyclesPerDay = 2
  SlotUnits = 2
  Delay = 3
INVARIANTS WindowsAlternate GreedyToTheEnd AverageIsMean
CHECK_DEADLOCK FALSE
