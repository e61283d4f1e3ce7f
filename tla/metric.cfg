SPECIFICATION Spec
CONSTANTS
  FragIDs <- MCFragIDs
  Channels = 2
  Ignored = {3}
  Configs <- MCConfigs
  Events <- MCEvents
  Second = 160
  Word = 640
  Wrap = 2000
  NTBDelay = 5
  SPECTDCDelay = 1
  PTBDelay <- MCPTBDelay
  WvfmLength = 6
  PostSamples = 4
  Sample = 2
  UsToTicks = 8
  Whole = 256
  Mantissa = 64
  PromptWindow = 1
  PrelimWindow = 1
  Dark = 14
  Lit = 12
  Pad = 20
INVARIANTS TriggerOfReference PeakIsTheFlash
