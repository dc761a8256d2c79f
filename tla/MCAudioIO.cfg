CHECK_DEADLOCK FALSE
CONSTANTS
  Buffer = 6
  Capacity = 2
  MaxFaults = 3
SPECIFICATION Spec
INVARIANTS TypeOK OneErrorIsRecovered GivenOnce
PROPERTIES CaptureGoesOn PeriodReturns
