SPECIFICATION FairSpec
CONSTANTS
  NThreads = 1
  NChannels = 3
  Configs <- MCListed
  FirstPMT = 0
  MaxEvents = 3
INVARIANTS RoundsInOrder
