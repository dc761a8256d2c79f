CHECK_DEADLOCK FALSE
CONSTANTS
  Settings <- MCSettings
  MaxFaults = 2
SPECIFICATION Spec
INVARIANTS TypeOK FreesWhatItMade LoopIsReady StrongestSourceCounts
PROPERTY ServiceComesBack
