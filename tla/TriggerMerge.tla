---------------------------- MODULE TriggerMerge ----------------------------
(***************************************************************************)
(* MergeTriggerLocations: from the trigger ranges of each channel to the   *)
(* times at which readout is triggered, the channel's own or one list for  *)
(* all channels.  One step of the merge is one iteration of its loop over  *)
(* the primitives.                                                         *)
(***************************************************************************)
EXTENDS TriggerState, Selections

VARIABLES
  all_trigger_locations,
  n,                \* the loop's position in it, 0 before it is collected
  primitives,       \* sorted by finish
  was_triggering

mergeVars == <<all_trigger_locations, n, primitives, was_triggering>>

FreshMerge ==
  all_trigger_locations = <<>> /\ n = 0 /\ primitives = <<>> /\ was_triggering = FALSE

(* AddTriggerPrimitive: std::lower_bound on start;                         *)
(* AddTriggerPrimitiveFinish: std::upper_bound on finish.                  *)
AddTriggerPrimitive(triggers, p) ==
  InsertAt(triggers, Cardinality({k \in DOMAIN triggers : triggers[k].start < p.start}) + 1, p)
AddTriggerPrimitiveFinish(triggers, p) ==
  InsertAt(triggers, Cardinality({k \in DOMAIN triggers : triggers[k].finish <= p.finish}) + 1, p)

IsChannelMasked(c) == c \in masked

(* Self triggering: each channel's starts (not its finishes), masked or not. *)
OwnFinishes(c) == [k \in DOMAIN fTriggerRangesPerChannel[c] |-> fTriggerRangesPerChannel[c][k][2]]
OwnStarts(c) == [k \in DOMAIN fTriggerRangesPerChannel[c] |-> fTriggerRangesPerChannel[c][k][1]]

CopyOwn ==
  /\ stage = "merge" /\ fConfig.SelfTriggerPerChannel
  /\ fTriggerLocationsPerChannel' = [c \in Channels |-> OwnStarts(c)]
  /\ stage' = "apply"
  /\ UNCHANGED <<fConfig, masked, fTriggerRangesPerChannel, fTriggerLocations, mergeVars>>

(* Otherwise the unmasked channels' primitives, taken in the order of the  *)
(* map, are sorted into one list.                                          *)
ChannelPrimitives(c) ==
  [k \in DOMAIN fTriggerRangesPerChannel[c] |->
     [start   |-> fTriggerRangesPerChannel[c][k][1],
      finish  |-> fTriggerRangesPerChannel[c][k][2],
      channel |-> c]]

Collect ==
  /\ stage = "merge" /\ ~fConfig.SelfTriggerPerChannel /\ n = 0
  /\ LET order  == InOrder({c \in Channels : ~IsChannelMasked(c)})
         listed == FlattenSeq([k \in DOMAIN order |-> ChannelPrimitives(order[k])])
     IN  all_trigger_locations' = FoldLeft(AddTriggerPrimitive, <<>>, listed)
  /\ n' = 1
  /\ UNCHANGED <<memberVars, primitives, was_triggering>>

(* The pops from the back, while the last one finished before start.       *)
PopBack(s, start) ==
  SubSeq(s, 1, Cardinality({k \in DOMAIN s : \E j \in k .. Len(s) : s[j].finish >= start}))

IsReached(s) == Len(s) >= fConfig.TriggerChannelCount

MergeOne ==
  /\ stage = "merge" /\ n \in DOMAIN all_trigger_locations
  /\ LET primitive == all_trigger_locations[n]
         kept == PopBack(AddTriggerPrimitiveFinish(primitives, primitive), primitive.start)
     IN  /\ primitives' = kept
         /\ fTriggerLocations' = IF IsReached(kept) /\ ~was_triggering
                                 THEN Append(fTriggerLocations, primitive.start)
                                 ELSE fTriggerLocations
         /\ was_triggering' = IsReached(kept)
  /\ n' = n + 1
  /\ UNCHANGED <<stage, fConfig, masked, fTriggerRangesPerChannel,
                 fTriggerLocationsPerChannel, all_trigger_locations>>

Merged ==
  /\ stage = "merge" /\ n > Len(all_trigger_locations)
  /\ stage' = "apply"
  /\ UNCHANGED <<fConfig, masked, fTriggerRangesPerChannel,
                 fTriggerLocationsPerChannel, fTriggerLocations>>
  /\ all_trigger_locations' = <<>> /\ n' = 0 /\ primitives' = <<>>
  /\ was_triggering' = FALSE

-----------------------------------------------------------------------------
(* The unmasked channels above threshold at time t, and the times at which *)
(* enough of them coincide.                                                *)
ChannelsAt(t) ==
  {c \in Channels \ masked :
     \E L \in ToSet(fTriggerRangesPerChannel[c]) : L[1] <= t /\ t <= L[2]}
StartTimes == {L[1] : L \in UNION {ToSet(fTriggerRangesPerChannel[c]) : c \in Channels \ masked}}
Coincidences ==
  {t \in StartTimes : Cardinality(ChannelsAt(t)) >= fConfig.TriggerChannelCount}
AfterMerge == stage \in {"apply", "reading", "applied"}

(* If enough channels coincide, a global trigger is issued no later than   *)
(* the first coincidence.                                                  *)
FirstCoincidenceCaught ==
  AfterMerge /\ ~fConfig.SelfTriggerPerChannel =>
    \A t \in Coincidences : \E s \in ToSet(fTriggerLocations) : s <= t

(* "Number of trigger signals from different readout channels required to  *)
(* issue global trigger": a global trigger is a coincidence.  The code     *)
(* counts every primitive so far: the one just added finishes after it     *)
(* starts, so the pops never begin.                                        *)
TriggerIsCoincidence == ToSet(fTriggerLocations) \subseteq Coincidences
=============================================================================
