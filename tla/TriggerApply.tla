---------------------------- MODULE TriggerApply ----------------------------
(***************************************************************************)
(* ApplyTriggerLocations: cutting one channel's waveform into readouts     *)
(* around the triggers.  One step is one iteration of the loop over the    *)
(* samples.  A readout is the sequence of the indices of its samples.      *)
(***************************************************************************)
EXTENDS TriggerState

RoSamples(isBeam) ==
  (IF isBeam THEN fConfig.PreBeam + fConfig.PostBeam ELSE fConfig.Pre + fConfig.Post) \div Period
IsBeam(trigger) ==
  LET d == trigger - fConfig.BeamTriggerTime IN (2 * d < Period) /\ (2 * d > -Period)

(* The triggers to apply to the channel.                                   *)
GetTriggerTimes ==
  IF fConfig.SelfTriggerPerChannel THEN fTriggerLocationsPerChannel[Channel]
                                   ELSE fTriggerLocations

VARIABLES
  ro_i,            \* the sample the loop is at
  trigger_i,       \* counts from 1
  next_trig, isReadingOut,
  this_waveform, min_ro_samples,
  ret              \* the readouts packaged so far

applyVars == <<ro_i, trigger_i, next_trig, isReadingOut, this_waveform,
               min_ro_samples, ret>>

FreshApply ==
  /\ ro_i = 0 /\ trigger_i = 1 /\ next_trig = 0
  /\ isReadingOut = FALSE /\ this_waveform = <<>> /\ min_ro_samples = 0
  /\ ret = <<>>

(* Without a trigger there is nothing to read out.                         *)
BeginApply ==
  /\ stage = "apply"
  /\ IF GetTriggerTimes = <<>>
     THEN stage' = "applied" /\ UNCHANGED <<next_trig, min_ro_samples>>
     ELSE /\ stage' = "reading"
          /\ next_trig' = GetTriggerTimes[1]
          /\ min_ro_samples' = RoSamples(FALSE)
  /\ UNCHANGED <<fConfig, masked, fTriggerRangesPerChannel,
                 fTriggerLocationsPerChannel, fTriggerLocations,
                 ro_i, trigger_i, isReadingOut, this_waveform, ret>>

(* "nearing the end of the waveform".  The difference is unsigned: for a   *)
(* waveform shorter than a readout it wraps round and nothing is near.     *)
NearEnd ==
  LET last == NSamples - 1 - min_ro_samples IN last >= 0 /\ ro_i >= last

PostOf(isBeam) == IF isBeam THEN fConfig.PostBeam ELSE fConfig.Post
PreOf(isBeam)  == IF isBeam THEN fConfig.PreBeam ELSE fConfig.Pre

(* The current trigger is over, and the triggers that may come next.       *)
IsOver == /\ trigger_i < Len(GetTriggerTimes)
          /\ TimeOf(ro_i) - next_trig >= PostOf(IsBeam(next_trig))

Following ==
  {j \in (trigger_i + 1) .. Len(GetTriggerTimes) :
     LET t == GetTriggerTimes[j]
     IN  IF fConfig.AllowTriggerOverlap THEN t + PostOf(IsBeam(t)) >= TimeOf(ro_i)
                                ELSE t - PreOf(IsBeam(t)) >= TimeOf(ro_i)}

(* The trigger the sample is tested against, and whether the beam's window *)
(* applies: when the scan ahead finds none, that of the last one it tried. *)
(* (KeepTrigger never scans ahead.)                                        *)
KeepTrigger == trigger_i
NextTrigger == IF IsOver /\ Following # {} THEN Min(Following) ELSE trigger_i
BeamFlag ==
  IF IsOver /\ Following = {} THEN IsBeam(GetTriggerTimes[Len(GetTriggerTimes)])
  ELSE IsBeam(GetTriggerTimes[NextTrigger])

(* Whether the sample is in the window, closed at its start and open at    *)
(* its end.                                                                *)
IsTriggering(trigger, isBeam) ==
  /\ TimeOf(ro_i) >= trigger - PreOf(isBeam)
  /\ TimeOf(ro_i) < trigger + PostOf(isBeam)

(* Whether the sample is added to the readout in progress.                 *)
KeepsReading(triggering) ==
  Len(this_waveform) < min_ro_samples \/ (fConfig.AllowTriggerOverlap /\ triggering)

(* The readout is moved out, without the current sample.                   *)
Packaged == Append(ret, this_waveform)

ReadSample ==
  /\ stage = "reading" /\ ro_i < NSamples /\ ~NearEnd
  /\ LET trigger    == GetTriggerTimes[NextTrigger]
         triggering == IsTriggering(trigger, BeamFlag)
         reading    == isReadingOut /\ KeepsReading(triggering)
         starts     == triggering /\ ~reading
     IN  /\ trigger_i' = NextTrigger /\ next_trig' = trigger
         /\ ret' = IF isReadingOut /\ ~reading THEN Packaged ELSE ret
         /\ this_waveform' = IF starts THEN <<ro_i>>
                             ELSE IF reading THEN Append(this_waveform, ro_i)
                             ELSE <<>>
         /\ isReadingOut' = (reading \/ starts)
         /\ min_ro_samples' = IF starts THEN RoSamples(BeamFlag) ELSE min_ro_samples
  /\ ro_i' = ro_i + 1
  /\ UNCHANGED memberVars

(* The end of the loop, by its condition or the break.  Only ret is        *)
(* returned: a readout in progress goes with the function's locals.        *)
Return ==
  /\ stage = "reading" /\ (ro_i >= NSamples \/ NearEnd)
  /\ stage' = "applied"
  /\ isReadingOut' = FALSE /\ this_waveform' = <<>>
  /\ UNCHANGED <<fConfig, masked, fTriggerRangesPerChannel,
                 fTriggerLocationsPerChannel, fTriggerLocations,
                 ro_i, trigger_i, next_trig, min_ro_samples, ret>>

-----------------------------------------------------------------------------
Reading == stage \in {"reading", "applied"}
Triggers == ToSet(GetTriggerTimes)
Readouts == IF isReadingOut THEN Append(ret, this_waveform) ELSE ret   \* and the one in progress
Windows(k) == {t \in Triggers : /\ TimeOf(k) >= t - PreOf(IsBeam(t))
                                /\ TimeOf(k) < t + PostOf(IsBeam(t))}

(* Types of the scan's variables; the trigger under test is in the list.   *)
ApplyTypeOK ==
  /\ ro_i \in 0 .. NSamples /\ isReadingOut \in BOOLEAN
  /\ stage = "reading" => /\ trigger_i \in DOMAIN GetTriggerTimes
                          /\ next_trig = GetTriggerTimes[trigger_i]
                          /\ min_ro_samples \in {RoSamples(TRUE), RoSamples(FALSE)}
  /\ \A r \in DOMAIN Readouts : Readouts[r] \in Seq(0 .. (NSamples - 1)) \ {<<>>}

(* A readout is a run of consecutive samples, and no sample is saved by    *)
(* two readouts: they follow one another in time.                          *)
ReadoutsDisjoint ==
  /\ \A r \in DOMAIN Readouts : \A k \in DOMAIN Readouts[r] :
       Readouts[r][k] = Readouts[r][1] + k - 1
  /\ \A r \in DOMAIN ret : r + 1 \in DOMAIN Readouts =>
       Last(ret[r]) < Readouts[r + 1][1]

(* The readouts packaged have the size of a window: exactly when triggers  *)
(* may not overlap ("uniform readout size"), at least when they extend it. *)
UniformSize ==
  \A r \in DOMAIN ret :
    IF fConfig.AllowTriggerOverlap
    THEN Len(ret[r]) >= RoSamples(TRUE) \/ Len(ret[r]) >= RoSamples(FALSE)
    ELSE Len(ret[r]) \in {RoSamples(TRUE), RoSamples(FALSE)}

(* Every readout is some trigger's: it starts on a sample inside the       *)
(* window of a trigger, and when triggers may not overlap each starts at   *)
(* most one readout.                                                       *)
ReadoutsTriggered ==
  Reading =>
    /\ \A r \in DOMAIN Readouts : Windows(Readouts[r][1]) # {}
    /\ fConfig.AllowTriggerOverlap \/ Len(Readouts) <= Cardinality(Triggers)

(* The sample at which the loop ends when windows are equal: a readout's   *)
(* length before the waveform's last.                                      *)
EqualWindows == fConfig.PreBeam = fConfig.Pre /\ fConfig.PostBeam = fConfig.Post
ScanEnd == IF RoSamples(FALSE) < NSamples THEN NSamples - 1 - RoSamples(FALSE) ELSE NSamples

(* After sample k the loop still reads one in no trigger's window, which   *)
(* ends a readout unless that began with the waveform and is not full.     *)
EndsInTime(k) == \E q \in (k + 1) .. (ScanEnd - 1) : q >= RoSamples(FALSE) /\ Windows(q) = {}

Returned(k) == \E r \in DOMAIN ret : k \in ToSet(ret[r])

(* "Extend the readout length if a second trigger occurs during a          *)
(* readout": when triggers may overlap, a sample in the window of a        *)
(* trigger is in a readout returned just if the windows about it end       *)
(* before the loop does; else the readout it was saved in, full or not, is *)
(* dropped with all its windows.  Two triggers at one time are excepted:   *)
(* the scan ahead finds the second, whose window is over already, and the  *)
(* readout is split at the cost of a sample.                               *)
WindowsCovered ==
  /\ stage = "applied" /\ fConfig.AllowTriggerOverlap /\ EqualWindows
  /\ IsInjective(GetTriggerTimes)
  => \A k \in 0 .. (NSamples - 1) : Windows(k) # {} => (Returned(k) <=> EndsInTime(k))
=============================================================================
