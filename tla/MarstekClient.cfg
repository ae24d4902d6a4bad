SPECIFICATION FairSpec
CONSTANTS
  Loop = loop
  Readers = {status}
  MaxRequests = 2
INVARIANTS OwnDeadline
PROPERTIES ReadingIsFresh NothingSwallowed KeepsPort CallEnds
