CONSTANTS
  RingSize = 131072
  SampleCap = 96000
  BitCap = 8192
  Period = 4096
  DeviceBuffer = 16384
  Rate = 48000
  TxDelay = 300
  TxTail = 30
  FrameBytes <- MCFrameBytes
  Shorts = {1000}
  MaxFrames = 2
  MaxFaults = 1
SPECIFICATION Spec
INVARIANT MaxPayloadIsModulated
