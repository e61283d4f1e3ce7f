----------------------------- MODULE CRTStripHits -----------------------------
(***************************************************************************)
(* CRTStripHitProducer: from FEBData to strip hits.  In data the time of a *)
(* readout is counted from the last second (the PPS), so the readouts of   *)
(* an event near a second's end carry different seconds, and are brought   *)
(* to the frame of the event's reference time.                             *)
(***************************************************************************)
EXTENDS CRTState, FrameShift

CONSTANTS Second,                \* nanoseconds of a second
          t0DelayCorrection, t1DelayCorrection,     \* [FEBs -> cable delay]
          SiPMPedestal, DeadSiPMs,   \* of the channel map
          ADCThreshold

ASSUME HitAssumption ==
  /\ Second \in Nat \ {0} /\ t0DelayCorrection \in [FEBs -> Int]
  /\ t1DelayCorrection \in [FEBs -> Int]
  /\ SiPMPedestal \in Nat /\ ADCThreshold \in Nat
  /\ DeadSiPMs \subseteq {2 * s : s \in Strips} \cup {2 * s + 1 : s \in Strips}

ToSetOf(seq) == {seq[i] : i \in DOMAIN seq}
UnixSet == {f.unixs : f \in ToSetOf(febData)}

(* The reference times, 0 when they are not used.  With no shift, the      *)
(* reference second is the latest one of the readouts.                     *)
RefTime   == IF fConfig.ReferenceTs0 THEN frameInfo.default.time ELSE 0
EtrigTime == IF fConfig.ReferenceTs0 THEN frameInfo.etrig.time ELSE 0
RefTimeS ==
  IF fConfig.ReferenceTs0 /\ frameInfo.default.type = "none"
  THEN IF UnixSet = {} THEN 0 ELSE CHOOSE u \in UnixSet : \A v \in UnixSet : v <= u
  ELSE RefTime \div Second
RefTimeNs   == RefTime % Second
EtrigTimeS  == EtrigTime \div Second
EtrigTimeNs == EtrigTime % Second

IsDataReadout(f) == f.flags = 3 \/ (fConfig.AllowFlag1 /\ f.flags = 1)

(* Mutant: the correction has the wrong sign.                              *)
SecondsBackwards(diff) == (IF diff = 1 THEN 1 ELSE IF diff = -1 THEN -1 ELSE 0) * Second

(* A readout of the previous second is moved down, of the next one up.     *)
Seconds(diff) == (IF diff = 1 THEN -1 ELSE IF diff = -1 THEN 1 ELSE 0) * Second

UnixDiff(f) == RefTimeS - f.unixs
Raw(f) == f.ts + t0DelayCorrection[f.mac5]

Time0(f) ==
  Raw(f) + (IF fConfig.CorrectForDifferentSecond THEN Seconds(UnixDiff(f)) ELSE 0)
         - (IF fConfig.ReferenceTs0 THEN RefTimeNs ELSE 0)

Time1(f) == f.ts + t1DelayCorrection[f.mac5]

(* The time held against the ETRIG window: moved by the seconds between    *)
(* the two reference times.                                                *)
TimeETrig(f) == Raw(f) - EtrigTimeNs + Seconds(RefTimeS - EtrigTimeS)

FarSecond(diff) == diff < -1 \/ diff > 1
Throws(f) ==
  /\ IsDataReadout(f)
  /\ \/ fConfig.CorrectForDifferentSecond /\ FarSecond(UnixDiff(f))
     \/ fConfig.ETrigWindow # <<>> /\ FarSecond(RefTimeS - EtrigTimeS)

(* A window is <<min, max>>, or <<>> when it is not applied.               *)
InWindowOf(w, t) == w = <<>> \/ (w[1] <= t /\ t <= w[2])

IsKept(f) ==
  /\ IsDataReadout(f)
  /\ InWindowOf(fConfig.ETrigWindow, TimeETrig(f))
  /\ InWindowOf(fConfig.Ts0Window, Time0(f))
  /\ InWindowOf(fConfig.Ts1Window, Time1(f))

(* A strip is hit when both its SiPMs are, above their pedestals.          *)
AboveThreshold(f, sipm) ==
  LET adc == IF SiPMPedestal < f.adc[sipm] THEN f.adc[sipm] - SiPMPedestal ELSE 0
  IN adc > ADCThreshold
IsHit(f, s) == \A sipm \in {2 * s, 2 * s + 1} : sipm \notin DeadSiPMs /\ AboveThreshold(f, sipm)

CreateStripHits(i) ==
  LET f == febData[i]
  IN IF ~IsKept(f) THEN {}
     ELSE {[strip |-> s, ts0 |-> Time0(f), ts1 |-> Time1(f), feb |-> i] :
             s \in {s \in StripsOf(f.mac5) : IsHit(f, s)}}

(* produce: the strip hits of all readouts, or an exception.               *)
ProduceStripHits ==
  /\ stage = "hits"
  /\ ~ \E f \in ToSetOf(febData) : Throws(f)
  /\ stripHits' = UNION {CreateStripHits(i) : i \in DOMAIN febData}
  /\ stage' = "clusters"
  /\ UNCHANGED <<fConfig, febData, clusters, spacePoints, shiftVars>>

UnixTimestampsDiffer ==
  /\ stage = "hits"
  /\ \E f \in ToSetOf(febData) : Throws(f)
  /\ stage' = "thrown"
  /\ UNCHANGED <<fConfig, febData, stripHits, clusters, spacePoints, shiftVars>>
=============================================================================
