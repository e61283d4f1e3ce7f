------------------------------ MODULE FrameShift ------------------------------
(***************************************************************************)
(* FrameShift: what the reference times of an event are.  The SPEC TDC     *)
(* stamps the CRT's T1 (channel 0), the beam's RWM (2) and the event       *)
(* trigger (4); the PTB sends words (HLTs) whose bits say what happened.   *)
(* Stamps and words of neighbouring events may be among them.  Times are   *)
(* in nanoseconds.  Channel 1 (BES) is only copied to an ntuple's product. *)
(***************************************************************************)
EXTENDS Integers, Sequences, FiniteSets, SequencesExt, Selections

CONSTANTS PtbEtrigHlts, BeamEtrigHlt, OffbeamEtrigHlt, XmuonEtrigHlt,
          BeamGateHlt, OffbeamGateHlt, BeamCrtT1Hlt, OffbeamCrtT1Hlt,
          RawTSCorrection,
          PtbTick,             \* 20 ns
          ShiftTdcRwm2PtbGate, ShiftTdcEtrig2PtbEtrig, ShiftTdcCrtt12PtbCrtt1

ASSUME FrameShiftAssumption ==
  /\ PtbEtrigHlts \cup BeamEtrigHlt \cup OffbeamEtrigHlt \cup XmuonEtrigHlt \subseteq 0 .. 31
  /\ {BeamGateHlt, OffbeamGateHlt, BeamCrtT1Hlt, OffbeamCrtT1Hlt} \subseteq 1 .. 31
  /\ RawTSCorrection \in Nat /\ PtbTick \in Nat \ {0}
  /\ {ShiftTdcRwm2PtbGate, ShiftTdcEtrig2PtbEtrig, ShiftTdcCrtt12PtbCrtt1} \subseteq Nat

VARIABLES
  timing,      \* the event's DAQ header time, TDC stamps and PTB words
  tdc, hlts,   \* the members _tdc_ch*, _ptb_hlt_trunmask with their times
  frameInfo    \* the FrameShiftInfo of the event: four frames

shiftVars == <<timing, tdc, hlts, frameInfo>>

Unset    == -1                    \* kInvalidTimestamp
Invalid  == [time |-> Unset, type |-> "invalid"]
NoShift  == [time |-> 0, type |-> "none"]
FromTdc(stamp, shift) == [time |-> stamp - shift, type |-> "tdc"]
FromPtb(t) == [time |-> t, type |-> "ptb"]
NoFrame == [crtt1 |-> Invalid, gate |-> Invalid, etrig |-> Invalid, default |-> Invalid]
NoTiming == [header |-> Unset, tdc |-> <<>>, ptb |-> <<>>]

TdcChannels == {0, 2, 4}

(* What the decoders may hand on: stamps, and words of up to 32 bits.      *)
IsTiming(t) ==
  /\ t.header \in Int /\ t.tdc \in Seq([ch : Nat, time : Nat])
  /\ t.ptb \in Seq([bits : SUBSET (0 .. 31), time : Nat])

(* Mutant of ClearedTdc: the stamps of the last event are kept.            *)
StaleTdc   == tdc
ClearedTdc == [ch \in TdcChannels |-> <<>>]

StampsOf(ch) ==
  LET own == Selected(timing.tdc, {i \in DOMAIN timing.tdc : timing.tdc[i].ch = ch})
  IN [i \in DOMAIN own |-> own[i].time]

(* One entry for each bit of each word; a word without bits leaves an      *)
(* entry of zeros at the end of the resized vectors.                       *)
Unmasked ==
  LET Entries(w) ==
        LET bits == InOrder(w.bits)
        IN [i \in DOMAIN bits |-> [code |-> bits[i], time |-> w.time * PtbTick]]
      idle == {k \in DOMAIN timing.ptb : timing.ptb[k].bits = {}}
  IN FlattenSeq([k \in DOMAIN timing.ptb |-> Entries(timing.ptb[k])])
       \o [k \in 1 .. Cardinality(idle) |-> [code |-> 0, time |-> 0]]

TimeDistance(a, b) == IF a > b THEN a - b ELSE b - a

(* The first of the times closest to a reference.                          *)
ClosestIndex(times, ref) ==
  LET D(i) == TimeDistance(times[i], ref)
  IN CHOOSE i \in DOMAIN times :
       \A j \in DOMAIN times : D(i) < D(j) \/ (D(i) = D(j) /\ i <= j)
FindClosest(times, ref) == IF times = <<>> THEN Unset ELSE times[ClosestIndex(times, ref)]

-----------------------------------------------------------------------------
RawTs    == timing.header - RawTSCorrection
TdcEtrig == FindClosest(tdc[4], RawTs)
Etrigs   == Selected(hlts, {i \in DOMAIN hlts : hlts[i].code \in PtbEtrigHlts})
HltEtrig ==
  IF Etrigs = <<>> THEN Unset
  ELSE Etrigs[ClosestIndex([i \in DOMAIN Etrigs |-> Etrigs[i].time], RawTs)].code

(* The stamps of the other channels are those closest to the TDC's event   *)
(* trigger, the first choice for a global reference and never missing.     *)
TdcTime(ch) == FindClosest(tdc[ch], TdcEtrig)

(* Which stream the event is of is said by its trigger's word.             *)
StreamOf(code) ==
  CASE code \in BeamEtrigHlt -> "beam"
    [] code \in OffbeamEtrigHlt \ BeamEtrigHlt -> "offbeam"
    [] code \in XmuonEtrigHlt \ (BeamEtrigHlt \cup OffbeamEtrigHlt) -> "xmuon"
    [] OTHER -> "unknown"
Stream == StreamOf(HltEtrig)

(* Of the words with a code the last one counts, wherever it is in time.   *)
HltTime(code) ==
  LET own == {i \in DOMAIN hlts : hlts[i].code = code}
  IN IF own = {} THEN Unset ELSE hlts[Max(own)].time

FirstOf(stamp, shift, t) ==
  IF stamp # Unset THEN FromTdc(stamp, shift) ELSE IF t # Unset THEN FromPtb(t) ELSE NoShift

FrameCrtt1 ==
  FirstOf(TdcTime(0), ShiftTdcCrtt12PtbCrtt1,
          HltTime(IF Stream = "beam" THEN BeamCrtT1Hlt ELSE OffbeamCrtT1Hlt))
FrameGate ==
  FirstOf(IF Stream = "beam" THEN TdcTime(2) ELSE Unset, ShiftTdcRwm2PtbGate,
          HltTime(IF Stream = "beam" THEN BeamGateHlt ELSE OffbeamGateHlt))
FrameEtrig == FromTdc(TdcEtrig, ShiftTdcEtrig2PtbEtrig)

Shifted ==
  IF Stream = "xmuon"
  THEN [crtt1 |-> Invalid, gate |-> Invalid, etrig |-> FrameEtrig, default |-> FrameEtrig]
  ELSE [crtt1 |-> FrameCrtt1, gate |-> FrameGate, etrig |-> FrameEtrig, default |-> FrameGate]

-----------------------------------------------------------------------------
(* produce, up to the timestamps; without the header or words it throws.   *)
InputMissing == timing.header = Unset \/ timing.ptb = <<>>

ResetEventVars ==
  /\ InputMissing
  /\ tdc' = ClearedTdc /\ hlts' = <<>>
  /\ UNCHANGED <<timing, frameInfo>>

GetTimestamps ==
  /\ ~InputMissing
  /\ tdc' = [ch \in TdcChannels |-> ClearedTdc[ch] \o StampsOf(ch)]
  /\ hlts' = Unmasked
  /\ UNCHANGED <<timing, frameInfo>>

(* The rest of it: the exceptions of FindETRIGs, one for a stream that is  *)
(* not known, or the frames.                                               *)
ReferenceMissing == tdc[4] = <<>> \/ Etrigs = <<>> \/ Stream = "unknown"

PutFrames ==
  /\ ~ReferenceMissing
  /\ frameInfo' = Shifted
  /\ UNCHANGED <<timing, tdc, hlts>>

-----------------------------------------------------------------------------
(* What can be asked of a record: the event's own stamps, where they were  *)
(* recorded, are closer to the time they are looked for at than those of   *)
(* its neighbours, and its own word than those of other triggers.          *)
OwnIsClosest(t) ==
  LET own   == t.own
      raw   == t.header - RawTSCorrection
      etrig == own.etrig + ShiftTdcEtrig2PtbEtrig
      gate  == own.gate + ShiftTdcRwm2PtbGate
  IN /\ own.code \in PtbEtrigHlts /\ own.stream = StreamOf(own.code)
     /\ own.etrig \in Nat /\ own.gate \in Nat
     /\ \A s \in ToSet(t.tdc) :
          /\ s.ch = 4 /\ s.time # etrig => TimeDistance(etrig, raw) < TimeDistance(s.time, raw)
          /\ s.ch = 2 /\ s.time # gate => TimeDistance(gate, etrig) < TimeDistance(s.time, etrig)
     /\ \A w \in ToSet(t.ptb) : \A c \in w.bits \cap PtbEtrigHlts :
          c # own.code => TimeDistance(own.etrig, raw) < TimeDistance(w.time * PtbTick, raw)

(* The frames are those of the event itself (timing.own, which the code    *)
(* does not know), whatever the events before it and its neighbours left.  *)
(* The trigger's is, if its stamp was recorded.  The gate's is, unless an  *)
(* RWM was recorded, and the event's own or its trigger was not (the PTB   *)
(* is not asked then, though it may know), or the PTB is asked and its     *)
(* last word for a gate is another's.                                      *)
FrameIsOwn ==
  frameInfo # NoFrame =>
    LET own == timing.own
        Recorded(ch, t) == [ch |-> ch, time |-> t] \in ToSet(timing.tdc)
        gateHlt == IF own.stream = "beam" THEN BeamGateHlt ELSE OffbeamGateHlt
        gates == Selected(timing.ptb, {i \in DOMAIN timing.ptb : gateHlt \in timing.ptb[i].bits})
        tdcGate == own.stream = "beam" /\ \E s \in ToSet(timing.tdc) : s.ch = 2
        sameStream == \E w \in ToSet(timing.ptb) :
                        own.code \in w.bits /\ w.time * PtbTick = own.etrig
        ownEtrig == Recorded(4, own.etrig + ShiftTdcEtrig2PtbEtrig)
    IN /\ ownEtrig => frameInfo.etrig.time = own.etrig
       /\ sameStream /\ own.stream = "xmuon" => frameInfo.default = frameInfo.etrig
       /\ sameStream /\ own.stream # "xmuon" =>
            \/ frameInfo.default.time = own.gate
            \/ tdcGate /\ ~(ownEtrig /\ Recorded(2, own.gate + ShiftTdcRwm2PtbGate))
            \/ ~tdcGate /\ gates # <<>> /\ Last(gates).time * PtbTick # own.gate
            \/ ~tdcGate /\ gates = <<>> /\ frameInfo.default = NoShift
=============================================================================
