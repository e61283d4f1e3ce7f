---------------------------- MODULE TriggerState ----------------------------
(***************************************************************************)
(* What the steps of opDetSBNDTriggerAlg share: its configuration, the     *)
(* channels' waveforms' shape, and its member variables.  TriggerFind,     *)
(* TriggerMerge and TriggerApply are its three operations, TriggerAlg runs *)
(* them in the order opDetDigitizerSBND::produce does.                     *)
(*                                                                         *)
(* One Channel is followed sample by sample; of the others only the ranges *)
(* they found matter.  Times are integers in a unit of which the sampling  *)
(* period is a multiple, so that the enable window, the waveform and the   *)
(* beam time need not be aligned; the rounding of doubles that the code    *)
(* corrects for does not occur.                                            *)
(***************************************************************************)
EXTENDS Integers, Sequences, FiniteSets, SequencesExt

CONSTANTS Channels, Channel,   \* Channel is the one that is followed
          NSamples,            \* adcs.size()
          Period,              \* optical_period
          WfmStart,            \* waveform.TimeStamp()
          Configs              \* the fhicl configurations considered

ConfigType ==
  [WinStart : Int, WinEnd : Int,                           \* TriggerEnableWindow
   TriggerHoldoff : Nat, BeamTriggerHoldoff : Nat,
   BeamTriggerEnable : BOOLEAN, BeamTriggerTime : Int,
   SelfTriggerPerChannel : BOOLEAN, TriggerChannelCount : Nat,
   AllowTriggerOverlap : BOOLEAN,
   Pre : Nat, Post : Nat,            \* ReadoutWindowPreTrigger, ...PostTrigger
   PreBeam : Nat, PostBeam : Nat]    \* the same for the beam trigger

ASSUME TriggerAssumption ==
  /\ Channels \subseteq Nat /\ IsFiniteSet(Channels) /\ Channel \in Channels
  /\ NSamples \in Nat \ {0} /\ Period \in Nat \ {0} /\ WfmStart \in Int
  /\ \A c \in Configs :
       /\ c \in ConfigType
       /\ c.WinEnd >= c.WinStart + Period
       /\ c.Pre + c.Post >= Period /\ c.PreBeam + c.PostBeam >= Period

VARIABLES
  stage,            \* "find", "merge", "apply", "reading", "applied"
  fConfig,
  masked,           \* the channels IsChannelMasked is true of
  fTriggerRangesPerChannel,      \* [channel -> sequence of <<start, finish>>]
  fTriggerLocationsPerChannel,   \* [channel -> sequence of times]
  fTriggerLocations

memberVars == <<stage, fConfig, masked, fTriggerRangesPerChannel,
                fTriggerLocationsPerChannel, fTriggerLocations>>

TimeOf(k) == WfmStart + k * Period       \* tick_to_timestamp
=============================================================================
