SPECIFICATION Spec
CONSTANTS
  NBoards = 2
  NominalSamples = 3
  NsPerSample = 2
  AllowedJittering = 1
  Second = 40
  XaEvents <- Events
INVARIANTS SamplesCombined WaveformTimes
