---------------------------- MODULE MCTriggerAlg ----------------------------
(* An instance of the trigger algorithm for TLC.  The enable windows cover *)
(* six or seven samples inside the waveform, its first or last six, or     *)
(* none.                                                                   *)
EXTENDS TriggerAlg

Shipped ==      \* every channel on its own, no holdoff, equal windows
  [WinStart |-> 6, WinEnd |-> 18, TriggerHoldoff |-> 0, BeamTriggerHoldoff |-> 0,
   BeamTriggerEnable |-> TRUE, BeamTriggerTime |-> 11,
   SelfTriggerPerChannel |-> TRUE, TriggerChannelCount |-> 1,
   AllowTriggerOverlap |-> TRUE, Pre |-> 2, Post |-> 4, PreBeam |-> 2, PostBeam |-> 4]

Holdoffs ==     \* uniform readouts, holdoffs, the beam between two samples
  [Shipped EXCEPT !.WinEnd = 20, !.TriggerHoldoff = 2, !.BeamTriggerHoldoff = 5,
                  !.BeamTriggerTime = 10, !.AllowTriggerOverlap = FALSE, !.PostBeam = 6]

Global ==       \* two channels in coincidence
  [Shipped EXCEPT !.BeamTriggerEnable = FALSE, !.SelfTriggerPerChannel = FALSE,
                  !.TriggerChannelCount = 2]

Early ==        \* the window opens before the waveform
  [Shipped EXCEPT !.WinStart = -3, !.WinEnd = 12]
Late ==         \* the window outlasts the waveform
  [Shipped EXCEPT !.WinStart = 16, !.WinEnd = 40]
Outside ==      \* the waveform does not meet the window
  [Shipped EXCEPT !.WinStart = 60, !.WinEnd = 80]

MCConfigs == {Shipped, Holdoffs, Global, Early, Late, Outside}

(* The other channel: a pulse before the window's middle, one after, or    *)
(* both; a short one off this channel's samples.                           *)
MCOtherRanges == {<<<<8, 8>>>>, <<<<7, 9>>, <<15, 17>>>>}
MCMasks == {{}, {2}}
=============================================================================
