SPECIFICATION Spec
CONSTANTS
  NThreads = 2
  NChannels = 3
  Configs <- MCListed
  FirstPMT = 0
  MaxEvents = 1
INVARIANTS RoundsComplete
