SPECIFICATION SweepSpec
CONSTANTS
  Worlds <- MCWorlds
  Decoders <- MCDecoders
  DefaultDecoder <- MCDefaultDecoder
  Pcm = {"pcm_f32le"}
  nan = nan
  NonFinite = nan
  None = None
  EdgeThreshold = 33
  DropoutThreshold = 10
  EdgeSilenceHysteresisMs = 100
  DropoutRmsWindowMs = 100
  DropoutMinSpanMs = 150
  AudioBlockDivisor = 10
  MaxAudioDecodeErrorsPerStream = 2
  MaxMeasurableFloatSampleMagnitude = 30000
  FloatScale = 32768
  GatingFloor = 10
  TruePeakCeiling = 29204
INVARIANTS
  SilenceIsWhatWasHeard
  ToldOfTheWhole
  ErrorsAreBounded
CHECK_DEADLOCK FALSE
