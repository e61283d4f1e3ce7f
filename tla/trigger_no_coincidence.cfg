SPECIFICATION Spec
CONSTANTS
  Channels = {1, 2}
  Channel = 1
  NSamples = 14
  Period = 2
  WfmStart = 1
  Configs <- MCConfigs
  OtherRanges <- MCOtherRanges
  Masks <- MCMasks
INVARIANTS TriggerIsCoincidence
