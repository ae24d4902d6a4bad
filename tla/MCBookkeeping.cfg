SPECIFICATION Spec
CONSTANTS
  Days = {1, 2, 3}
  PricesEur <- CentPrices
  Energies = {0, 2}
  SocDeltas <- Deltas
  MaxTrades = 3
  LastDay = 2
INVARIANTS LastChargeKnown HistoryFits SummariesAddUp
CHECK_DEADLOCK FALSE
