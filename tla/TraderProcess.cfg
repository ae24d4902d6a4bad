SPECIFICATION FairSpec
CONSTANTS
  Addresses = {a, b, c}
  Meters = {a, b}
  Workers = {v, w}
  Scrapes = {s, t, u}
INVARIANTS ExitAfterStop
PROPERTIES MeterNotLost OneStateShown DiscoveryEnds ProcessEnds

CHECK_DEADLOCK FALSE
