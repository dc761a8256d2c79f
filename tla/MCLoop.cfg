CHECK_DEADLOCK FALSE
CONSTANTS
  Scenarios <- MCScenarios
  Frames <- MCFrames
  MaxIdle = 2
SPECIFICATION Spec
INVARIANTS TypeOK OnlyMixingBreaksFrames OutputsGetTheirFrames
PROPERTIES FramesAreQueued IdleProgramExits
