SPECIFICATION Spec
CONSTANTS
  NBoards = 3
  TotalCAENBoards = 2
  PMTPerBoard = 3
  NominalLength = 3
  Second = 40
  AllowedTimeDiff = 15
  DecoderConfigs <- MCDecoderConfigs
  Readouts <- MCAllReadouts
  MonSamples = 2
  Pairs = {{0, 1}}
  Unpaired = {2}
  PMT_Channels <- MCPMTChannels
  PairMultiplicityThreshold = 0
  ticksBeforeCross = 1
  ticksAfterCross = 3
  Simulated <- MCSimulated
  Event0 <- MCEvent0
INVARIANTS WaveformsOfTriggers TimesAreRelative PulseCountsPairs FlashIsTrigger SlicesCover
