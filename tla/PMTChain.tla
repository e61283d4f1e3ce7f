------------------------------ MODULE PMTChain ------------------------------
(***************************************************************************)
(* The monitor pulse in its two users.  Data: SBNDPMTDecoder decodes the   *)
(* fragments, takes its waveforms for flashes, one for each trigger, and   *)
(* has a pulse made of each.  Simulation: opDetDigitizerSBND has one pulse *)
(* made of the waveforms of all channels and cuts slices around its rises. *)
(***************************************************************************)
EXTENDS PMTDecoder

CONSTANTS Simulated,    \* sets of waveforms (levels per channel) that are digitized
          Event0        \* a readout without fragments

ASSUME Event0Assumption == Event0.frags = <<>>

(* The digitizer makes waveforms of Nsamples for the PMTs that have any.   *)
ASSUME SimulatedAssumption ==
  \A wfms \in Simulated :
    /\ ToSet(PMT_Channels) \subseteq DOMAIN wfms
    /\ \A ch \in ToSet(PMT_Channels) : wfms[ch] \in Seq({-1, 0, 1})
    /\ \A c, d \in ToSet(PMT_Channels) :
         wfms[c] # <<>> /\ wfms[d] # <<>> => Len(wfms[c]) = Len(wfms[d])

VARIABLES
  fWaveforms,           \* simulation: level sequences per channel, <<>> is NULL
  MonPulses,            \* one pulse for each flash
  pairsOverThreshold,
  slicedIntervals       \* of the simulation: intervals of the slices

pulseVars == <<fWaveforms, MonPulses, pairsOverThreshold, slicedIntervals>>
vars      == <<decoderVars, pulseVars>>

Init ==
  /\ \/ stage = "fragments" /\ readout \in Readouts /\ fConfig \in DecoderConfigs
        /\ fWaveforms = <<>>
     \/ stage = "digitized" /\ fWaveforms \in Simulated
        /\ readout = Event0 /\ fConfig = [ignore |-> {}, OutputTiming |-> FALSE]
  /\ board_frag_v = [b \in Boards |-> <<>>] /\ extended_flag = FALSE
  /\ iboard = 0 /\ itrig = 1
  /\ pmtwvfmVec = <<>> /\ fltwvfmVec = <<>> /\ timwvfmVec = <<>>
  /\ MonPulses = <<>> /\ pairsOverThreshold = 0 /\ slicedIntervals = <<>>

-----------------------------------------------------------------------------
(* A channel of data is below threshold at the times in readout.light.     *)
Level(channel, t) == IF <<channel, t>> \in readout.light THEN -1 ELSE 1
LevelsOf(w) == [i \in DOMAIN w.samples |-> Level(w.channel, w.samples[i])]

Levels == [k \in DOMAIN pmtwvfmVec |-> LevelsOf(pmtwvfmVec[k])]

(* One turn of the loop over the flashes; what lies beyond a waveform that *)
(* is shorter than the first is read as it is.                             *)
ConstructFlash ==
  /\ stage = "flashes" /\ Len(MonPulses) < NumFlash(pmtwvfmVec)
  /\ \E beyond \in BOOLEAN :
       LET pulse == DataMonPulse(Levels, Len(MonPulses), beyond)
       IN /\ MonPulses' = Append(MonPulses, pulse)
          /\ pairsOverThreshold' = pairsOverThreshold + MaxOf(pulse)
  /\ UNCHANGED <<decoderVars, fWaveforms, slicedIntervals>>

PutWaveforms ==
  /\ stage = "flashes" /\ Len(MonPulses) = NumFlash(pmtwvfmVec)
  /\ stage' = "done"
  /\ UNCHANGED <<fConfig, readout, board_frag_v, extended_flag, iboard, itrig, products,
                 pulseVars>>

Decode == DecoderNext /\ UNCHANGED pulseVars

-----------------------------------------------------------------------------
(* The simulation's part between the digitizer's rounds.                   *)
(* The first PMT has no waveform: the maximum of an empty pulse is read.   *)
EmptyPulse ==
  /\ stage = "digitized" /\ fWaveforms[PMT_Channels[1]] = <<>>
  /\ stage' = "null_read"
  /\ UNCHANGED <<fConfig, readout, board_frag_v, extended_flag, iboard, itrig, products,
                 pulseVars>>

ConstructMonPulse ==
  /\ stage = "digitized" /\ fWaveforms[PMT_Channels[1]] # <<>>
  /\ \E beyond \in BOOLEAN :
       LET pulse == SimMonPulse(fWaveforms, beyond)
       IN MonPulses' = <<pulse>> /\ pairsOverThreshold' = MaxOf(pulse)
  /\ stage' = "slice"
  /\ UNCHANGED <<fConfig, readout, board_frag_v, extended_flag, iboard, itrig, products,
                 fWaveforms, slicedIntervals>>

(* sliceWaveforms copies the intervals out of every PMT's waveform, also   *)
(* out of one that is missing.                                             *)
SliceWaveforms ==
  /\ stage = "slice"
  /\ LET ivs == findInterestIntervals(MonPulses[1])
     IN IF ivs # <<>> /\ \E ch \in ToSet(PMT_Channels) : fWaveforms[ch] = <<>>
        THEN stage' = "null_read" /\ UNCHANGED slicedIntervals
        ELSE stage' = "done" /\ slicedIntervals' = Slices(MonPulses[1])
  /\ UNCHANGED <<fConfig, readout, board_frag_v, extended_flag, iboard, itrig, products,
                 fWaveforms, MonPulses, pairsOverThreshold>>

Ended == stage \in {"done", "thrown", "null_read"} /\ UNCHANGED vars

Next == \/ Decode \/ ConstructFlash \/ PutWaveforms
        \/ EmptyPulse \/ ConstructMonPulse \/ SliceWaveforms
        \/ Ended

Spec == Init /\ [][Next]_vars

-----------------------------------------------------------------------------
Decoded == ToSet(pmtwvfmVec) \cup ToSet(fltwvfmVec) \cup ToSet(timwvfmVec)
HasAll  == readout.complete /\ fConfig.ignore = {}
AfterDecoding == stage \in {"flashes", "done"} /\ readout.frags # <<>>

(* What a trigger recorded, up to a fragment, if none was lost.            *)
TimesOf(trigger, n) == FlattenSeq([k \in 1 .. n |-> SamplesOf(trigger[k])])

(* Whatever fragments are lost: a waveform starts with its trigger, and    *)
(* has samples of no other, in order and none of them twice.               *)
OfOneTrigger(w) ==
  \E trigger \in ToSet(readout.triggers) :
    /\ w.samples[1] = SamplesOf(trigger[1])[1]
    /\ ToSet(w.samples) \subseteq ToSet(TimesOf(trigger, Len(trigger)))
    /\ \A i \in 2 .. Len(w.samples) : w.samples[i - 1] < w.samples[i]

(* An extension is documented to fulfil two conditions: to be short, and   *)
(* to end within two nominal lengths of what it extends.  The code asks    *)
(* for more: what ends in the last two nominal lengths of a second is      *)
(* extended only by what ends in the next.                                 *)
Recognised(prev, frag) ==
  prev.end % Second >= Second - Window => frag.end \div Second # prev.end \div Second
Kept(trigger) ==
  CHOOSE n \in DOMAIN trigger :
    /\ \A k \in 2 .. n : Recognised(trigger[k - 1], trigger[k])
    /\ n < Len(trigger) => ~Recognised(trigger[n], trigger[n + 1])

(* The waveforms are those of the triggers.  With nothing lost there is    *)
(* one for each trigger and channel, with all samples of the trigger's     *)
(* fragments up to one that is not recognised.                             *)
WaveformsOfTriggers ==
  /\ \A w \in Decoded : OfOneTrigger(w)
  /\ AfterDecoding /\ HasAll =>
       \A b \in Boards :
         LET expected == [n \in DOMAIN readout.triggers |->
                            TimesOf(readout.triggers[n], Kept(readout.triggers[n]))]
             SamplesIn(wfms, ch) ==
               LET own == Selected(wfms, {i \in DOMAIN wfms : wfms[i].channel = ch})
               IN [n \in DOMAIN own |-> own[n].samples]
         IN /\ SamplesIn(fltwvfmVec, b) = expected
            /\ b # TimingBoard =>
                 \A c \in 0 .. PMTPerBoard - 1 :
                   SamplesIn(pmtwvfmVec, b * PMTPerBoard + c) = expected

(* A waveform's time is its distance from the reference, in whatever       *)
(* seconds the two are, if the reference is not at the start of a second.  *)
TimesAreRelative ==
  readout.frame = "shifted" /\ EventTriggerTime # 0 =>
    \A w \in Decoded :
      Distance(w.samples[1], readout.ref) < AllowedTimeDiff =>
        w.time = w.samples[1] - readout.ref

-----------------------------------------------------------------------------
(* A pulse does not count a group that has not gone below threshold in the *)
(* last MonSamples samples, and counts one that does so now, or did at the *)
(* sample before.                                                          *)
CountsPairs(pulse, groups, Wfm(_)) ==
  LET CrossedAt(g, i) == \E x \in g : Crossed(Wfm(x), i)
      Recently(g, i)  == \E k \in 2 .. i : i - k < MonSamples /\ CrossedAt(g, k)
  IN \A i \in 2 .. Len(pulse) - 1 :
       /\ pulse[i] <= Cardinality({g \in groups : Recently(g, i)})
       /\ Cardinality({g \in groups : CrossedAt(g, i)}) <= pulse[i] + pulse[i - 1]

(* Simulation: a pulse counts the pairs of PMTs that both have waveforms.  *)
PulseCountsPairs ==
  stage \in {"slice", "done"} /\ fWaveforms # <<>> =>
    CountsPairs(MonPulses[1], CompleteGroups(fWaveforms), LAMBDA ch : fWaveforms[ch])

(* Data, with nothing lost: flash by flash, a pulse counts the pairs that  *)
(* the light of one trigger brought below threshold, on every board.       *)
FlashIsTrigger ==
  AfterDecoding /\ HasAll =>
    /\ NumFlash(pmtwvfmVec) = Len(readout.triggers)
    /\ \A n \in DOMAIN MonPulses :
         LET times == TimesOf(readout.triggers[n], Kept(readout.triggers[n]))
             True(x) == [i \in DOMAIN times |-> Level(x[1] * PMTPerBoard + x[2], times[i])]
         IN Len(MonPulses[n]) = Len(times) /\ CountsPairs(MonPulses[n], BoardGroups, True)

(* Around every rise of the pulse above the multiplicity the samples are   *)
(* in a slice, but for the last one of the waveform.  Slices lie within    *)
(* the waveform, and apart unless they end at its end or both begin at its *)
(* beginning.                                                              *)
SlicesCover ==
  stage = "done" /\ fWaveforms # <<>> =>
    LET size == Len(MonPulses[1])
        slices == slicedIntervals
    IN /\ \A c \in ToSet(CrossingPoints(MonPulses[1])) :
            \A i \in (c - ticksBeforeCross .. c + ticksAfterCross - 1) \cap 0 .. size - 2 :
              \E k \in DOMAIN slices : slices[k][1] <= i /\ i < slices[k][2]
       /\ \A k \in DOMAIN slices :
            /\ 0 <= slices[k][1] /\ slices[k][2] <= size
            /\ \A j \in 1 .. k - 1 :
                 \/ slices[j][2] <= slices[k][1] \/ slices[k][2] = size - 1
                 \/ slices[k][1] = 0 /\ slices[j][1] = 0
=============================================================================
