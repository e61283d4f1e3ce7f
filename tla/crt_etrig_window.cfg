SPECIFICATION Spec
CONSTANTS
  Strips = {1, 2, 3, 4, 5, 6, 7, 8, 9, 10}
  ModuleOf <- MCModuleOf
  TaggerOf <- MCTaggerOf
  Orientation <- MCOrientation
  BottomTaggers = {1}
  Crossing <- MCCrossing
  Near <- MCNear
  Configs <- MCConfigs
  QThreshold = 60
  QPed = 0
  StripCoincidenceWindow = 2
  TaggerPlaneCoincidenceWindow = 3
  DeadTime = 6
  AdcSaturation = 4089
  Waveform <- MCWaveform
  Second = 16
  t0DelayCorrection <- MCDelays0
  t1DelayCorrection <- MCDelays1
  SiPMPedestal = 10
  DeadSiPMs = {}
  ADCThreshold = 60
  CoincidenceTimeRequirement = 2
  Deposits <- MCDeposits
  MaxDeposits = 3
  Events <- MCEvents
  Timings <- MCTimings
  Wall <- MCWall
  TimingCorrection <- MCCorrection
  ObjectTimeRequirement = 5
  Grain = 4
  TopTaggers = {3, 4}
  MaskedTaggers = {}
  InLine <- MCInLine
  FlightTime <- MCFlightTime
  PtbEtrigHlts = {1, 3, 5, 9}
  BeamEtrigHlt = {1}
  OffbeamEtrigHlt = {3}
  XmuonEtrigHlt = {5}
  BeamGateHlt = 26
  OffbeamGateHlt = 27
  BeamCrtT1Hlt = 20
  OffbeamCrtT1Hlt = 21
  RawTSCorrection = 7
  PtbTick = 2
  ShiftTdcRwm2PtbGate = 2
  ShiftTdcEtrig2PtbEtrig = 1
  ShiftTdcCrtt12PtbCrtt1 = 1
INVARIANTS ETrigWindowKept
