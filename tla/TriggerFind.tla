---------------------------- MODULE TriggerFind -----------------------------
(***************************************************************************)
(* FindTriggerLocations: the scan of one channel's waveform for threshold  *)
(* crossings inside the trigger-enable window, with a holdoff after each   *)
(* trigger and an optional beam trigger.  One step is one iteration of the *)
(* loop over the samples.  A sample is abstracted to where its             *)
(* polarity-corrected value lies with respect to the threshold.            *)
(***************************************************************************)
EXTENDS TriggerState

Levels == {"below", "at", "above"}   \* val < , = , > threshold
LongAgo == 99999                     \* initial t_since_last_trigger

IsTriggerEnabled(t) == t >= fConfig.WinStart /\ t <= fConfig.WinEnd

(* The first and the last sample of the scan.                              *)
StartI ==
  LET start_i == IF WfmStart > fConfig.WinStart THEN 0
                 ELSE (fConfig.WinStart - WfmStart) \div Period
  IN  IF IsTriggerEnabled(TimeOf(start_i)) THEN start_i ELSE start_i + 1

EndAtSize == NSamples       \* the slip of one past the waveform
EndI ==
  LET end_i == IF TimeOf(NSamples - 1) < fConfig.WinEnd THEN NSamples - 1
               ELSE (fConfig.WinEnd - WfmStart) \div Period
  IN  IF IsTriggerEnabled(TimeOf(end_i + 1)) /\ end_i + 1 < NSamples
      THEN end_i + 1 ELSE end_i

VARIABLES
  i,                \* the sample the loop is at
  above_threshold, trigger_start,
  t_since, t_deadtime, beam_trigger_added,
  locations,        \* this_trigger_locations: <<start, finish>>, sorted
  adcs              \* the waveform, as far as it was read, from StartI on

scanVars == <<i, above_threshold, trigger_start, t_since, t_deadtime,
              beam_trigger_added, locations>>

(* AddTriggerLocation: std::lower_bound on the start time, then insert.    *)
AddTriggerLocation(triggers, range) ==
  InsertAt(triggers,
           Cardinality({k \in DOMAIN triggers : triggers[k][1] < range[1]}) + 1,
           range)

(* The scan's variables when it starts, and again when it has returned.    *)
FreshScan ==
  /\ i = StartI
  /\ above_threshold = FALSE /\ trigger_start = 0
  /\ t_since = LongAgo /\ t_deadtime = fConfig.TriggerHoldoff
  /\ beam_trigger_added = FALSE /\ locations = <<>>

(* Whether enough deadtime has passed, strictly, at the loop's sample.     *)
LiveAtDeadtime == t_since + Period >= t_deadtime
IsLive == t_since + Period > t_deadtime

(* The sample nearest the beam time.                                       *)
IsBeamSample ==
  /\ fConfig.BeamTriggerEnable /\ ~beam_trigger_added
  /\ LET d == TimeOf(i) - fConfig.BeamTriggerTime
     IN  (2 * d <= Period) /\ (2 * d >= -Period)

(* A sample opens or closes the threshold trigger.                         *)
Opens(val) == IsLive /\ ~above_threshold /\ val = "above"
Closes(val) == above_threshold /\ (val = "below" \/ i + 1 = EndI)

(* The holdoff in force at the next sample; the slip leaves the beam's in  *)
(* force after a threshold trigger.                                        *)
StaleDeadtime(opens, beam) ==
  IF beam THEN fConfig.BeamTriggerHoldoff ELSE t_deadtime
Deadtime(opens, beam) ==
  IF beam THEN fConfig.BeamTriggerHoldoff
  ELSE IF opens THEN fConfig.TriggerHoldoff ELSE t_deadtime

(* One iteration: open or close the threshold trigger, then the beam       *)
(* trigger, which sees the isLive computed at the top of the iteration.    *)
Sample(val) ==
  /\ stage = "find" /\ i <= EndI
  /\ LET opens  == Opens(val)
         closes == Closes(val)
         beam   == IsLive /\ IsBeamSample
         closed == IF closes
                   THEN AddTriggerLocation(locations, <<trigger_start, TimeOf(i)>>)
                   ELSE locations
     IN  /\ above_threshold' = (opens \/ (above_threshold /\ ~closes))
         /\ trigger_start' = IF opens THEN TimeOf(i) ELSE trigger_start
         /\ locations' = IF beam
                         THEN AddTriggerLocation(closed, <<TimeOf(i), TimeOf(i)>>)
                         ELSE closed
         /\ t_since' = IF opens \/ beam THEN 0 ELSE t_since + Period
         /\ t_deadtime' = Deadtime(opens, beam)
         /\ beam_trigger_added' = (beam \/ beam_trigger_added)
  /\ adcs' = Append(adcs, val)
  /\ i' = i + 1
  /\ UNCHANGED memberVars

(* The scan is over; at once, which is the code's two early returns, when  *)
(* the waveform does not meet the window.                                  *)
(* The channel's entry takes the locations if it is empty; otherwise the   *)
(* code merges in this_trigger_ranges, which nothing ever fills.           *)
Store ==
  /\ stage = "find" /\ i > EndI
  /\ fTriggerRangesPerChannel' =
       IF fTriggerRangesPerChannel[Channel] = <<>>
       THEN [fTriggerRangesPerChannel EXCEPT ![Channel] = locations]
       ELSE fTriggerRangesPerChannel
  /\ stage' = "merge"
  /\ UNCHANGED <<fConfig, masked, fTriggerLocationsPerChannel, fTriggerLocations, adcs>>
  /\ i' = StartI /\ above_threshold' = FALSE /\ trigger_start' = 0
  /\ t_since' = LongAgo /\ t_deadtime' = fConfig.TriggerHoldoff
  /\ beam_trigger_added' = FALSE /\ locations' = <<>>

-----------------------------------------------------------------------------
(* The samples read so far and the value of each.                          *)
Read == StartI .. (StartI + Len(adcs) - 1)
Val(k) == adcs[k - StartI + 1]

(* A beam trigger is an instant; a threshold trigger lasts a sample or     *)
(* more.  The starts include the trigger that is open.                     *)
Found == ToSet(locations) \cup ToSet(fTriggerRangesPerChannel[Channel])
BeamTimes  == {L[1] : L \in {M \in Found : M[1] = M[2]}}
PulseTimes == {L[1] : L \in {M \in Found : M[1] < M[2]}}
                \cup (IF above_threshold THEN {trigger_start} ELSE {})
Starts == BeamTimes \cup PulseTimes
DeadtimeAfter(s) ==
  IF s \in BeamTimes THEN fConfig.BeamTriggerHoldoff ELSE fConfig.TriggerHoldoff
Dead(t) == \E s \in Starts : s < t /\ t - s <= DeadtimeAfter(s)
InRange(t) == \E L \in Found : L[1] <= t /\ t <= L[2]

(* Types of the scan's variables; the loop never reads past the waveform.  *)
ScanTypeOK ==
  /\ i \in Nat /\ (stage = "find" /\ adcs # <<>> => i <= EndI + 1 /\ i <= NSamples)
  /\ EndI < NSamples
  /\ above_threshold \in BOOLEAN /\ beam_trigger_added \in BOOLEAN
  /\ t_since \in Nat
  /\ t_deadtime \in {fConfig.TriggerHoldoff, fConfig.BeamTriggerHoldoff}
  /\ adcs \in Seq(Levels) /\ trigger_start \in Int

(* The per-channel list is sorted by start, although a threshold trigger   *)
(* is inserted when it closes, after a beam trigger that began later.      *)
LocationsSorted ==
  \A s \in {locations, fTriggerRangesPerChannel[Channel]} :
    \A j, k \in DOMAIN s : j < k => s[j][1] <= s[k][1]

(* No trigger starts within the holdoff of an earlier one, whichever of    *)
(* the two holdoffs applies (a threshold and the beam trigger of the same  *)
(* sample are not ordered).                                                *)
HoldoffRespected == \A s \in Starts : ~Dead(s)

(* The beam trigger is sent once, and is given up only if every scanned    *)
(* sample nearest the beam time was dead (after the scan, the last sample  *)
(* apart: a pulse that opens just before it holds it off, and is not       *)
(* stored).                                                                *)
IsNearBeam(k) == 2 * (TimeOf(k) - fConfig.BeamTriggerTime) \in -Period .. Period
BeamHeldOff ==
  fConfig.BeamTriggerEnable /\ BeamTimes = {} =>
    \A k \in Read : IsNearBeam(k) /\ (stage = "find" \/ k < EndI) => Dead(TimeOf(k))
BeamSent == Cardinality(BeamTimes) <= 1 /\ BeamHeldOff

StoredIfLive(k) == Val(k) = "above" => InRange(TimeOf(k)) \/ Dead(TimeOf(k))

(* No pulse is missed while the channel is live: during the scan every     *)
(* sample above threshold belongs to a trigger, closed or open, or lies in *)
(* the dead time of one; after it all but the last two samples above       *)
(* threshold and not dead are covered by what is stored for the channel.   *)
(* (The code means to "find all ADC counts above threshold", but closes an *)
(* open trigger at the last sample but one, and the loop runs one further: *)
(* a trigger opened at either of the last two is never stored.)            *)
PulsesFound ==
  IF stage = "find"
  THEN \A k \in Read : Val(k) = "above" =>
         \/ InRange(TimeOf(k)) \/ Dead(TimeOf(k))
         \/ above_threshold /\ trigger_start <= TimeOf(k)
  ELSE \A k \in Read : k < EndI - 1 => StoredIfLive(k)
=============================================================================
