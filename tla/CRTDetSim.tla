------------------------------ MODULE CRTDetSim ------------------------------
(***************************************************************************)
(* The detector simulation of the CRT, CRTDetSimAlg: FillTaggers turns     *)
(* each energy deposit into a strip with two SiPM signals, CreateData      *)
(* walks through each tagger's strips in time order, gathers them into     *)
(* triggers and applies the dead time, ProcessStrips makes one FEBData of  *)
(* the strips of a trigger that lie on one FEB.                            *)
(*                                                                         *)
(* A deposit carries the outcome of the smearing: the ticks and charges of *)
(* its strip's two SiPMs.  Ts0 equals Ts1.  The FEBData of an event keep,  *)
(* as ides, the strips they are associated with.                           *)
(***************************************************************************)
EXTENDS CRTState, Folds

CONSTANTS QThreshold, QPed, StripCoincidenceWindow,
          TaggerPlaneCoincidenceWindow, DeadTime, AdcSaturation,
          Waveform       \* [delay -> per cent of the charge still seen]

ASSUME SimAssumption ==
  /\ QThreshold \in Nat /\ QPed \in Nat /\ StripCoincidenceWindow \in Nat
  /\ TaggerPlaneCoincidenceWindow \in Nat \ {0} /\ DeadTime \in Nat
  /\ AdcSaturation \in 0 .. 2^16 - 1
  /\ 0 \in DOMAIN Waveform /\ Waveform[0] = 100
  /\ \A d \in DOMAIN Waveform : d \in Nat /\ Waveform[d] \in 0 .. 100

VARIABLES
  fTaggers,       \* [tagger -> set of strips hit]
  tagger,         \* the tagger CreateData is at, and
  todo,           \* its strips not yet looked at
  trigger_ts1, first_trigger,
  trigger         \* the local Trigger object

simVars == <<fTaggers, tagger, todo, trigger_ts1, first_trigger, trigger>>

Coincident(d) ==
  /\ d.q0 > QThreshold /\ d.q1 > QThreshold
  /\ d.ts0 - d.ts1 < StripCoincidenceWindow /\ d.ts1 - d.ts0 < StripCoincidenceWindow

(* The strip of a deposit: the SiPM that fired first becomes sipm0.        *)
StripData(d) ==
  LET a == [sipmID |-> 2 * d.strip,     t1 |-> d.ts0, adc |-> d.q0]
      b == [sipmID |-> 2 * d.strip + 1, t1 |-> d.ts1, adc |-> d.q1]
  IN [mac5 |-> ModuleOf[d.strip], ide |-> d, sipm_coinc |-> Coincident(d),
      sipm0 |-> IF d.ts0 > d.ts1 THEN b ELSE a,
      sipm1 |-> IF d.ts0 > d.ts1 THEN a ELSE b]

TimeOf(s) == s.sipm0.t1

-----------------------------------------------------------------------------
(* ProcessStrips.                                                          *)

WaveformEmulation(delay, adc) ==
  IF delay \in DOMAIN Waveform THEN ((Waveform[delay] * adc) \div 100) % 2^16 ELSE 0

(* Mutant: no saturation.                                                  *)
AddUnsaturated(adcs, sipm, adc) ==
  [adcs EXCEPT ![sipm] = (adcs[sipm] + adc) % 2^16]

AddADC(adcs, sipm, adc) ==
  LET sum == (adcs[sipm] + adc) % 2^16
  IN [adcs EXCEPT ![sipm] = IF sum > AdcSaturation THEN AdcSaturation ELSE sum]

SiPMsOf(mac) == {2 * s : s \in StripsOf(mac)} \cup {2 * s + 1 : s \in StripsOf(mac)}

(* The aggregate initialisation of adc_pedestal sets its first element.    *)
Pedestals(mac) ==
  [i \in SiPMsOf(mac) |-> IF \A j \in SiPMsOf(mac) : i <= j THEN QPed ELSE 0]

(* The FEBData of one FEB.                                                 *)
FEBOf(mac, strips) ==
  LET own == Selected(strips, {k \in DOMAIN strips : strips[k].mac5 = mac})
      ts1 == CHOOSE t \in {TimeOf(s) : s \in ToSet(own)} :
               \A s \in ToSet(own) : t <= TimeOf(s)
      Add(adcs, s) ==
        AddADC(AddADC(adcs, s.sipm0.sipmID, WaveformEmulation(s.sipm0.t1 - ts1, s.sipm0.adc)),
               s.sipm1.sipmID, WaveformEmulation(s.sipm1.t1 - ts1, s.sipm1.adc))
  IN [mac5 |-> mac, flags |-> 3, unixs |-> 0, ts |-> ts1,
      adc |-> FoldLeft(Add, Pedestals(mac), own), ides |-> own]

ProcessStrips(strips) ==
  LET macs == InOrder({s.mac5 : s \in ToSet(strips)})
  IN [i \in DOMAIN macs |-> FEBOf(macs[i], strips)]

-----------------------------------------------------------------------------
(* The Trigger object.                                                     *)

EmptyTrigger == [planeX |-> FALSE, planeY |-> FALSE, mac5s |-> {}, strips |-> <<>>]

AddStrip(tr, s) ==
  [planeX |-> tr.planeX \/ (s.sipm_coinc /\ Orientation[s.mac5] = 0),
   planeY |-> tr.planeY \/ (s.sipm_coinc /\ Orientation[s.mac5] = 1),
   mac5s  |-> tr.mac5s \cup {s.mac5},
   strips |-> Append(tr.strips, s)]

TaggerTriggered(tr) ==
  IF tagger \in BottomTaggers THEN tr.planeX \/ tr.planeY ELSE tr.planeX /\ tr.planeY

IsInDeadTime(tr, mac, time) == mac \in tr.mac5s /\ time <= DeadTime

-----------------------------------------------------------------------------
(* Mutant of ClearTaggers, the start of the next event: the data are kept. *)
KeepData == fTaggers' = [t \in Taggers |-> {}] /\ febData' = febData

ClearTaggers == fTaggers' = [t \in Taggers |-> {}] /\ febData' = <<>>

(* FillTaggers, for one deposit of one channel.                            *)
FillTaggers(d) ==
  /\ stage = "fill" /\ d.ts0 >= 0
  /\ LET s == StripData(d)
     IN fTaggers' = [fTaggers EXCEPT ![TaggerOf[s.mac5]] = @ \cup {s}]
  /\ UNCHANGED <<eventVars, tagger, todo, trigger_ts1, first_trigger, trigger>>

(* A deposit before time 0 ends the event with an exception.               *)
NegativeTime(d) ==
  /\ stage = "fill" /\ d.ts0 < 0
  /\ stage' = "thrown"
  /\ UNCHANGED <<fConfig, febData, stripHits, clusters, spacePoints, simVars>>

HitTaggers == {t \in Taggers : fTaggers[t] # {}}
Later(t)   == {u \in HitTaggers : u > t}

(* CreateData starts with the tagger t, or is over when none is left.      *)
StartTagger(left) ==
  IF left = {}
  THEN stage' = "hits" /\ todo' = {}
       /\ UNCHANGED <<tagger, trigger_ts1, first_trigger, trigger>>
  ELSE /\ stage' = "trigger"
       /\ tagger' = CHOOSE t \in left : \A u \in left : t <= u
       /\ todo' = fTaggers[tagger']
       /\ trigger_ts1' = 0 /\ first_trigger' = TRUE /\ trigger' = EmptyTrigger

CreateData ==
  /\ stage = "fill"
  /\ StartTagger(HitTaggers)
  /\ UNCHANGED <<fConfig, febData, stripHits, clusters, spacePoints, fTaggers>>

(* The sort leaves strips of one time in any order.                        *)
NextStrips == {s \in todo : \A u \in todo : TimeOf(s) <= TimeOf(u)}

(* One strip of the loop becomes part of the trigger it starts or joins,   *)
(* or is dropped.                                                          *)
NeverFirst(s) == s.sipm_coinc /\ ~first_trigger     \* a mutant of First
First(s)    == s.sipm_coinc /\ first_trigger
InWindow(s) == TimeOf(s) - trigger_ts1 < TaggerPlaneCoincidenceWindow
CanAlwaysStart(s) == s.sipm_coinc               \* a mutant of CanStart: no dead time
CanStart(s) ==
  /\ s.sipm_coinc
  /\ ~TaggerTriggered(trigger) \/ ~IsInDeadTime(trigger, s.mac5, TimeOf(s) - trigger_ts1)

Flushed == IF TaggerTriggered(trigger) THEN febData \o ProcessStrips(trigger.strips) ELSE febData

FirstTrigger(s) ==
  /\ First(s)
  /\ first_trigger' = FALSE
  /\ trigger_ts1' = TimeOf(s)
  /\ trigger' = AddStrip(EmptyTrigger, s)
  /\ UNCHANGED febData

JoinTrigger(s) ==
  /\ ~First(s) /\ InWindow(s)
  /\ trigger' = AddStrip(trigger, s)
  /\ UNCHANGED <<febData, trigger_ts1, first_trigger>>

NewTrigger(s) ==
  /\ ~First(s) /\ ~InWindow(s) /\ CanStart(s)
  /\ febData' = Flushed
  /\ trigger_ts1' = TimeOf(s)
  /\ trigger' = AddStrip(EmptyTrigger, s)
  /\ UNCHANGED first_trigger

DropStrip(s) ==
  /\ ~First(s) /\ ~InWindow(s) /\ ~CanStart(s)
  /\ UNCHANGED <<febData, trigger_ts1, first_trigger, trigger>>

LookAtStrip ==
  /\ stage = "trigger"
  /\ \E s \in NextStrips :
       /\ todo' = todo \ {s}
       /\ FirstTrigger(s) \/ JoinTrigger(s) \/ NewTrigger(s) \/ DropStrip(s)
  /\ UNCHANGED <<stage, fConfig, stripHits, clusters, spacePoints, fTaggers, tagger>>

EndTagger ==
  /\ stage = "trigger" /\ todo = {}
  /\ febData' = Flushed
  /\ StartTagger(Later(tagger))
  /\ UNCHANGED <<fConfig, stripHits, clusters, spacePoints, fTaggers>>
=============================================================================
