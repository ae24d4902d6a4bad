SPECIFICATION LiveSpec
CONSTANTS
  MeterEnabled = TRUE
  Slots = {"noplan", "unpriced", "charge", "discharge"}
  Qualification = 1
  Debounce = 1
  TelemetryThreshold = 1
  BackoffCount = 1
  MinSession = 1
  ShortSession = 1
  RestartCooldown = 1
  ShortCooldown = 1
  LongBackoff = 1
  FailureCooldown = 2
  StopRetry = 1
  SettleTime = 1
  RefreshAt = 1
PROPERTIES StoppingResolves SessionsEnd ShutdownEnds WindowIsUsed
