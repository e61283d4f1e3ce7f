SPECIFICATION Spec
CHECK_DEADLOCK FALSE
CONSTANTS
  Instances = {1, 2}
  Channels <- MCChannels
  Events <- MCEvents
  MaxCalls <- MCMaxCalls
  Configs = {"one TPC", "two TPCs"}
  HitVetoRange <- MCHitVetoRange
  Resolution = 2
  Margin = 1
  MinPECoinc = 3
  MinMultCoinc = 2
  MinPECoincRepeated = 4
  PEThreshold = 6
  veto_ctr = 9
  integral_ctr = 8
  precount = 2
  min_time_before_ctr = 4
  time_dif_ctr = 1
INVARIANTS WindowsAsClaimed WindowsDisjoint FlashOfItsHits CandidatesAccounted
