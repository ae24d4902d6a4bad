SPECIFICATION FairSpec
CONSTANTS
  Powers = {"low", "high"}
  Timeout = 3
  PublishEvery = 2
  MaxQueued = 2
INVARIANTS ConfirmationDecides
PROPERTIES DisabledWhenStopped KeepsPort CallEnds
