SPECIFICATION LiveSpec
CONSTANTS
  MeterEnabled = FALSE
  Slots = {"discharge", "unpriced"}
  Qualification = 1
  Debounce = 1
  TelemetryThreshold = 1
  BackoffCount = 1
  MinSession = 1
  ShortSession = 2
  RestartCooldown = 1
  ShortCooldown = 2
  LongBackoff = 2
  FailureCooldown = 2
  StopRetry = 1
  SettleTime = 1
  RefreshAt = 2
PROPERTIES DischargeStopsAtMinimum
