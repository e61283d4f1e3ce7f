SPECIFICATION FairSpec
CONSTANTS
  NThreads = 3
  NChannels = 3
  Configs <- MCConfigs
  FirstPMT = 0
  MaxEvents = 2
INVARIANTS TypeOK TokenConservation ProduceAlone NoJobAtTeardown ProductSound
PROPERTIES ForksAndJoins EventEnds TeardownEnds
