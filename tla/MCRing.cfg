CONSTANTS
  Sample <- MCSample
  Silence = 0
  N = 3
  IndexRange = 6
  Chunks <- MCChunks
  MaxRead = 4
SPECIFICATION Spec
INVARIANTS TypeOK NoOverrun NoDataRace AvailableIsHonoured
PROPERTY ImplementsSampleQueue
