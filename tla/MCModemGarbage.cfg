CONSTANTS
  Count = 2
  Crc = {0, 1}
  StartTime = 2
  MaxTime = 4
  MaxAir = 3
  MaxSent = 1
SPECIFICATION Spec
INVARIANT OnlySeenFramesSwallowed
