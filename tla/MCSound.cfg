SPECIFICATION MCSpec
CONSTANTS
  Sids = {s1, s2}
  SampleClockRatio = 120
  PowerOnDelay = 2
  MaxTime = 24
  Periods = {3, 5}
  ExponentPeriods <- SlowAtTheEnd
  RateRange = 12
  Chunks = {1, 2}
  EnvelopeTop = 5
  SustainLevels = {0, 3}
  Phases = 64
  Top = 4
  Tap = 2
  NoiseBits = {0, 2, 3}
  Steps = {0, 1, 3, 5}
  Samples <- Levels
  ExSids = {"exSID"}
  UsbSids = {"USBSID 1", "USBSID 2"}
  Limit = 2
  raster_rate = 5
  LastCycle = 12
INVARIANT SamplesMixed
PROPERTIES KeepsPace EnvelopeEnds NoiseKept
