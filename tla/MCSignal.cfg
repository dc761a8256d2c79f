CONSTANTS
  \* Eight and a half samples a bit, in twelfths of a sample; correction,
  \* history and both thresholds of the detector are scaled down.
  Half = 51
  Tick = 12
  Parts = 12
  History = 4
  OnThr = 3
  OffThr = 1
  MaxRun = 1
  Senders <- MCSenders
  Threshold = 40
  Slowness = 4
  Channels <- MCChannels
  Envelopes = {1, 30, 35, 36, 37, 40, 80}
  \* Modulo 41 there are roots of unity of order 5 and of order 8.
  Prime = 41
  Size = 5
  Coeff <- MCCoeff
  Levels <- MCLevels
  \* 3 has order 8; a read fills the buffer or stops in the middle.
  Bits = 3
  Root = 3
  Inputs = {0, 1}
  Reads = {3, 8}
SPECIFICATION MCSpec
INVARIANTS TypeOK EachBitOnce PowerOfWindow SpectrumOfData LevelsStayApart
PROPERTIES NoChatter CarrierIsHeld SquelchSettles
