SPECIFICATION HSpec
CONSTANTS
  MeterEnabled = TRUE
  Slots = {"noplan", "unpriced", "between", "charge", "discharge"}
  Qualification = 2
  Debounce = 2
  TelemetryThreshold = 2
  BackoffCount = 2
  MinSession = 1
  ShortSession = 2
  RestartCooldown = 1
  ShortCooldown = 2
  LongBackoff = 3
  FailureCooldown = 2
  StopRetry = 1
  SettleTime = 1
  RefreshAt = 2
INVARIANTS TypeOK ForceIsOwned LedgerBalanced SurplusIsFresh
PROPERTIES StartsClean KeepsPromise BackoffHonoured
