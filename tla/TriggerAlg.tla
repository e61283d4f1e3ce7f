----------------------------- MODULE TriggerAlg -----------------------------
(***************************************************************************)
(* opDetSBNDTriggerAlg over a job: for each event the channel's waveform   *)
(* is scanned (TriggerFind), the channels' ranges are merged               *)
(* (TriggerMerge), the channel's waveform is cut (TriggerApply), and       *)
(* ClearTriggerLocations makes ready for the next event.  The calls are    *)
(* those of opDetDigitizerSBND::produce, which waits for the workers that  *)
(* cut the waveforms before it clears (DigiPool).                          *)
(***************************************************************************)
EXTENDS TriggerFind, TriggerMerge, TriggerApply

CONSTANTS OtherRanges,   \* what the other channels' scans may have found
          Masks          \* the sets of channels that may be masked

(* A range does not end before it starts.                                  *)
ASSUME RangesAssumption ==
  \A s \in OtherRanges : /\ s \in Seq(Int \X Int)
                         /\ \A k \in DOMAIN s : s[k][1] <= s[k][2]

vars == <<memberVars, scanVars, adcs, mergeVars, applyVars>>

(* A new event: nothing is known of the channel, the other channels' scans *)
(* are those of the event.                                                 *)
EventRanges ==
  {r \in [Channels -> OtherRanges \cup {<<>>}] : r[Channel] = <<>>}
NoTimes == [c \in Channels |-> <<>>]
CleanMembers ==
  /\ fTriggerRangesPerChannel \in EventRanges
  /\ fTriggerLocationsPerChannel = NoTimes
  /\ fTriggerLocations = <<>>

Init ==
  /\ stage = "find" /\ fConfig \in Configs /\ masked \in Masks
  /\ CleanMembers
  /\ FreshScan /\ adcs = <<>> /\ FreshMerge /\ FreshApply

(* FindTriggerLocations and MergeTriggerLocations, on produce's thread.    *)
Find  == ((\E val \in Levels : Sample(val)) \/ Store)
           /\ UNCHANGED <<mergeVars, applyVars>>
Merge == (CopyOwn \/ Collect \/ MergeOne \/ Merged)
           /\ UNCHANGED <<scanVars, adcs, applyVars>>

(* ApplyTriggerLocations, on a worker's thread.                            *)
Apply == (BeginApply \/ ReadSample \/ Return)
           /\ UNCHANGED <<scanVars, adcs, mergeVars>>

(* ClearTriggerLocations, and the scans of the other channels in the next  *)
(* event.                                                                  *)
ClearTriggerLocations ==
  /\ fTriggerRangesPerChannel' \in EventRanges
  /\ fTriggerLocationsPerChannel' = NoTimes /\ fTriggerLocations' = <<>>

NextEvent ==
  /\ stage = "applied"
  /\ stage' = "find" /\ adcs' = <<>>
  /\ ClearTriggerLocations
  /\ ro_i' = 0 /\ trigger_i' = 1 /\ next_trig' = 0 /\ isReadingOut' = FALSE
  /\ this_waveform' = <<>> /\ min_ro_samples' = 0 /\ ret' = <<>>
  /\ UNCHANGED <<fConfig, masked, scanVars, mergeVars>>

Next == Find \/ Merge \/ Apply \/ NextEvent
Spec == Init /\ [][Next]_vars

-----------------------------------------------------------------------------
(* Types of the scan's and the cut's variables.                            *)
TypeOK == ScanTypeOK /\ ApplyTypeOK

(* From the pulse to its readout: when each channel triggers itself and    *)
(* readouts may grow, every live pulse that does not touch the end of the  *)
(* scan has its first sample in a readout that is returned, whatever       *)
(* pulses surround it, if the windows about it end before the cut does;    *)
(* and it is lost if they do not.                                          *)
PulsesReadOut ==
  /\ stage = "applied" /\ fConfig.SelfTriggerPerChannel
  /\ fConfig.AllowTriggerOverlap /\ EqualWindows /\ IsInjective(GetTriggerTimes)
  => \A k \in Read :
       /\ k < EndI - 1 /\ Val(k) = "above" /\ ~Dead(TimeOf(k))
       /\ (k = StartI \/ Val(k - 1) = "below")
       => (Returned(k) <=> EndsInTime(k))

(* Every trigger applied is the start of a range found in this event: one  *)
(* of the channel's own, or one of a channel that is not masked.           *)
NoStaleTrigger ==
  AfterMerge =>
    IF fConfig.SelfTriggerPerChannel
    THEN ToSet(GetTriggerTimes) = {L[1] : L \in Found}
    ELSE ToSet(GetTriggerTimes) \subseteq StartTimes

(* The triggers found and merged are in order, spaced by the holdoffs, one *)
(* of them the beam's; no coincidence comes before the first of them, and  *)
(* none is of another event.                                               *)
TriggersSound ==
  /\ LocationsSorted /\ HoldoffRespected /\ BeamSent
  /\ FirstCoincidenceCaught /\ NoStaleTrigger

(* The readouts cut around the triggers are apart from one another, of the *)
(* sizes configured, and cover the windows.                                *)
ReadoutsSound == ReadoutsDisjoint /\ UniformSize /\ ReadoutsTriggered /\ WindowsCovered
=============================================================================
