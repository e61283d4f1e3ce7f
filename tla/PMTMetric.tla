------------------------------ MODULE PMTMetric ------------------------------
(***************************************************************************)
(* The PMT software trigger (pmtSoftwareTriggerProducer): of the           *)
(* waveforms that the boards recorded for an event it takes those of the   *)
(* trigger closest to a reference time, adds the channels up, and finds    *)
(* the flash.                                                              *)
(*                                                                         *)
(* Times are counted in ns.  What the code keeps in single precision, the  *)
(* fractions of a waveform first of all, is counted in parts of Whole, a   *)
(* power of two, and is rounded to a mantissa shorter than the machine's.  *)
(***************************************************************************)
EXTENDS Integers, Sequences, FiniteSets, SequencesExt

CONSTANTS FragIDs,         \* fFragIDs: the boards, in the order of their channels
          Channels,        \* of a board (15)
          Ignored,         \* boards of PMTs to ignore
          Configs,         \* [stream, TimingType, AllowNTB, IncludeExtensions]
          Events(_),       \* of a configuration: what an event may hold
          Second,          \* 1e9 ns
          Word, Wrap,      \* the ranges of uint32_t and uint64_t
          NTBDelay, SPECTDCDelay, PTBDelay,
          WvfmLength,      \* fWvfmLength
          PostSamples,     \* of these after the trigger: WvfmPostPercent is their ratio
          Sample,          \* 2 ns
          UsToTicks,       \* us_to_ticks
          Whole, Mantissa, \* Mantissa is 2^24
          PromptWindow, PrelimWindow,
          Dark, Lit, Pad   \* the ADC of a channel without and with light; 2e4

ASSUME MetricAssumption ==
  /\ Channels \in Nat \ {0} /\ Ignored \subseteq ToSet(FragIDs) /\ FragIDs # <<>>
  /\ Second \in Nat \ {0} /\ Word \in Nat /\ Word > 2 * Second /\ Wrap \in Nat /\ Wrap > 2 * Second
  /\ {NTBDelay, SPECTDCDelay, PromptWindow, PrelimWindow} \subseteq Nat /\ -PTBDelay \in Nat
  /\ WvfmLength \in Nat /\ PostSamples \in 1 .. WvfmLength - 1
  /\ {Sample, UsToTicks} \subseteq Nat \ {0}
  /\ \A n \in {Whole, Mantissa} : \E k \in 1 .. 30 : n = 2 ^ k
  /\ Lit < Dark /\ Dark < Pad

(* An event: the time in its raw header or NoHeader; the times on the      *)
(* ETRIG channel of the TDC; the PTB's trigger words; a container for      *)
(* each board with the fragments of its triggers; when there was light.    *)
(* A fragment has the time of its trigger (or of its last sample, when the *)
(* boards do not shift the time tag), of its end, and its length.          *)
NoHeader  == -1
NotFound  == <<>>
NoWvfms   == [b \in ToSet(FragIDs) |-> <<>>]

VARIABLES
  stage,             \* "event", "timing", "fragments", "metrics", "thrown"
  fConfig, event,
  fWvfmPostPercent,  \* members that the fragments change
  fWindowStart,
  refTimestamp,
  left,              \* the containers not looked at yet
  etrig_frag,        \* NotFound, or etrig_frag_idx, _dt and caen_length_v
  wvfms_v,           \* [FragIDs -> Seq of samples], of all the board's channels
  trig_metrics_v

memberVars == <<fWvfmPostPercent, fWindowStart>>
vars == <<stage, fConfig, event, memberVars, refTimestamp, left, etrig_frag, wvfms_v, trig_metrics_v>>

Abs(x) == IF x < 0 THEN -x ELSE x

(* The numbers of single precision near num / den are this far apart, and  *)
(* it becomes the nearest of them, the even one of two.                    *)
Spacing(num, den) ==
  LET Fits(k) == Abs(num) * Whole < Mantissa * 2 ^ k * den
  IN 2 ^ (CHOOSE k \in 0 .. 30 : Fits(k) /\ (k = 0 \/ ~Fits(k - 1)))
Single(num, den) ==
  LET unit    == Spacing(num, den) * den
      below   == (num * Whole) \div unit
      over    == 2 * ((num * Whole) % unit)
      nearest == IF over > unit \/ (over = unit /\ below % 2 = 1) THEN below + 1 ELSE below
  IN nearest * Spacing(num, den)
Trunc(x) == IF x < 0 THEN -((-x) \div Whole) ELSE x \div Whole

DefaultPost == Single(PostSamples, WvfmLength)

-----------------------------------------------------------------------------
(* The reference time.  The raw time is unsigned: one less than the delay  *)
(* after the second is very large.                                         *)
raw_timestamp ==
  IF event.header = NoHeader THEN 0
  ELSE LET t == (event.header % Second) - NTBDelay IN IF t < 0 THEN t + Wrap ELSE t

TdcEtrigs == [i \in DOMAIN event.etrigs |-> event.etrigs[i] % Second]

(* Of several ETRIGs: the difference kept is signed, so that none is       *)
(* closer than one before the raw time.                                    *)
ChooseEtrig(etrigs) ==
  IF Len(etrigs) = 1 THEN etrigs[1]
  ELSE FoldLeft(LAMBDA best, t : IF Abs(t - raw_timestamp) < best.diff
                                 THEN [etrig |-> t, diff |-> t - raw_timestamp] ELSE best,
                [etrig |-> Second, diff |-> Second], etrigs).etrig

IsLightStream == fConfig.stream \in {2, 4}

(* getGateTime: the first gate word of the stream.                         *)
GateTimes ==
  LET hlt   == IF fConfig.stream = 2 THEN 26 ELSE 27
      gates == SelectSeq(event.words, LAMBDA w : hlt \in w.hlts)
  IN [i \in DOMAIN gates |-> (gates[i].time % Second) - PTBDelay]

(* The reference, as a sequence of none or one: the first of the timing    *)
(* types that has one.                                                     *)
Reference ==
  LET tdc  == IF TdcEtrigs = <<>> THEN Second ELSE ChooseEtrig(TdcEtrigs)
      best == CASE fConfig.TimingType # 0 -> <<>>
                [] fConfig.TimingType = 0 /\ IsLightStream -> IF GateTimes = <<>> THEN <<>> ELSE <<GateTimes[1]>>
                [] OTHER -> IF tdc = Second THEN <<>> ELSE <<tdc - SPECTDCDelay>>
  IN IF best # <<>> THEN best
     ELSE IF event.header # NoHeader /\ raw_timestamp # 0 /\ fConfig.AllowNTB THEN <<raw_timestamp>>
     ELSE <<>>

FindReference ==
  /\ stage = "timing"
  /\ IF Reference = <<>>
     THEN stage' = "metrics" /\ UNCHANGED refTimestamp
     ELSE stage' = "fragments" /\ refTimestamp' = Reference[1]
  /\ UNCHANGED <<fConfig, event, memberVars, left, etrig_frag, wvfms_v, trig_metrics_v>>

-----------------------------------------------------------------------------
(* The trigger.                                                            *)
Never == -Wrap
IsExtension(f) == f.len < WvfmLength

(* Mutant of IsSkipped: an extension is a trigger like any other.          *)
NeverSkipped(f) == FALSE
IsSkipped(f) == IsExtension(f) /\ ~fConfig.IncludeExtensions

(* Mutant of Sensible: a fraction over 1 is believed.                      *)
Positive(ticks, all) == ticks > 0
Sensible(ticks, all) == ticks > 0 /\ ticks < all

(* getTriggerTime, for one fragment after another.  When its time tag is   *)
(* shifted the members follow the fragment's own fraction, ticks of all,   *)
(* which is of double precision until it is stored: afterwards the start   *)
(* need not be the complement of the other.  When it is not, the time is   *)
(* computed in single precision.                                           *)
TriggerTime(m, f) ==
  LET stamp == f.stamp % Second
      ttt   == f.end % Second
      ticks == Single((ttt - stamp) % Word, 1)
      all   == Single(f.len * Single(1, UsToTicks), Whole) * UsToTicks * Sample
      after == Single(Sample * f.len * m.post, Whole)
  IN IF IsSkipped(f) THEN [m EXCEPT !.times = Append(@, Never)]
     ELSE IF stamp = ttt
     THEN [m EXCEPT !.times = Append(@, Trunc(Single(Single(ttt, 1) - after, Whole)) % Word)]
     ELSE IF ~Sensible(ticks, all) THEN [m EXCEPT !.times = Append(@, stamp)]
     ELSE [times |-> Append(m.times, stamp),
           post  |-> Single(ticks, all),
           start |-> IF m.start = Single(Whole - m.post, Whole) THEN Single(all - ticks, all) ELSE m.start]
TriggerTimes(frags) ==
  FoldLeft(TriggerTime, [times |-> <<>>, post |-> fWvfmPostPercent, start |-> fWindowStart], frags)

(* The first of the triggers that are closest, of those within a second.   *)
getClosestFTrig(times) ==
  {i \in DOMAIN times :
     /\ Abs(times[i] - refTimestamp) < Second
     /\ \A j \in DOMAIN times : Abs(times[i] - refTimestamp) <= Abs(times[j] - refTimestamp)}

(* getWaveforms and insertWaveforms.                                       *)
Samples(f) ==
  [k \in 1 .. f.len |-> IF f.end - Sample * (f.len - k + 1) \in event.light THEN Lit ELSE Dark]

(* A board's waveform: of the fragment with the index found, and when that *)
(* is an extension, of as many before it as make up the length, by the     *)
(* lengths of the first board.                                             *)
Waveform(frags, e) ==
  LET Total(ii) == FoldFunctionOnSet(+, 0, e.lengths, ii .. e.idx)
      enough    == {ii \in 1 .. e.idx : Total(ii) >= WvfmLength}
      from      == IF ~fConfig.IncludeExtensions \/ e.lengths[e.idx] >= WvfmLength THEN e.idx
                   ELSE IF enough = {} THEN 1 ELSE Max(enough)
  IN FlattenSeq([i \in 1 .. e.idx - from + 1 |-> Samples(frags[from + i - 1])])

Silenced(b, wvfm) == IF b \in Ignored THEN [k \in DOMAIN wvfm |-> Dark] ELSE wvfm

IsOfPMTs(c) == c.board \in ToSet(FragIDs) /\ c.frags # <<>>

SkipContainer ==
  /\ stage = "fragments" /\ left # <<>> /\ ~IsOfPMTs(Head(left))
  /\ left' = Tail(left)
  /\ UNCHANGED <<stage, fConfig, event, memberVars, refTimestamp, etrig_frag, wvfms_v, trig_metrics_v>>

(* The first container finds the trigger for all.                          *)
FindTrigger ==
  /\ stage = "fragments" /\ left # <<>> /\ IsOfPMTs(Head(left)) /\ etrig_frag = NotFound
  /\ LET frags   == Head(left).frags
         m       == TriggerTimes(frags)
         closest == getClosestFTrig(m.times)
     IN /\ fWvfmPostPercent' = m.post /\ fWindowStart' = m.start
        /\ IF closest = {} THEN stage' = "metrics" /\ UNCHANGED etrig_frag
           ELSE /\ etrig_frag' = [idx |-> Min(closest), dt |-> m.times[Min(closest)] - refTimestamp,
                                  lengths |-> [i \in DOMAIN frags |-> frags[i].len]]
                /\ UNCHANGED stage
  /\ UNCHANGED <<fConfig, event, refTimestamp, left, wvfms_v, trig_metrics_v>>

ReadContainer ==
  /\ stage = "fragments" /\ left # <<>> /\ IsOfPMTs(Head(left)) /\ etrig_frag # NotFound
  /\ LET c == Head(left)
     IN IF etrig_frag.idx > Len(c.frags)
        THEN stage' = "thrown" /\ UNCHANGED <<left, wvfms_v>>
        ELSE /\ wvfms_v' = [wvfms_v EXCEPT ![c.board] = Silenced(c.board, Waveform(c.frags, etrig_frag))]
             /\ left' = Tail(left)
             /\ UNCHANGED stage
  /\ UNCHANGED <<fConfig, event, memberVars, refTimestamp, etrig_frag, trig_metrics_v>>

-----------------------------------------------------------------------------
(* The metrics.  The shorter of the two is padded, also when it is itself  *)
(* a sum.                                                                  *)
sumWvfms(v1, v2) ==
  LET At(v, i) == IF i <= Len(v) THEN v[i] ELSE Pad
  IN [i \in 1 .. Max({Len(v1), Len(v2)}) |-> At(v1, i) + At(v2, i)]

wvfm_sum ==
  LET first    == wvfms_v[FragIDs[1]]
      boards   == SelectSeq(FragIDs, LAMBDA b : wvfms_v[b] # <<>>)
      channels == FlattenSeq([i \in DOMAIN boards |-> [k \in 1 .. Channels |-> wvfms_v[boards[i]]]])
  IN FoldLeft(sumWvfms, [k \in DOMAIN first |-> 0], channels)

estimateBaseline(sum) == SortSeq(sum, <)[Len(sum) \div 2 + 1]

(* min_element from one bin to before another, or what stands at the first *)
(* when there is none.  Outside the waveform it reads what is there.       *)
Garbage == "garbage"
Depth(sum, from, to) ==
  IF to > Len(sum) \/ from >= Len(sum) \/ from < 0 THEN Garbage
  ELSE estimateBaseline(sum) - Min({sum[i] : i \in from + 1 .. Max({to, from + 1})})

Metrics(sum) ==
  LET window == Trunc(Single(fWindowStart * Len(wvfms_v[FragIDs[1]]), Whole))
      n      == Len(sum)
      peak   == CHOOSE i \in n - WvfmLength + 1 .. n :
                  /\ \A j \in n - WvfmLength + 1 .. n : sum[i] <= sum[j]
                  /\ \A j \in n - WvfmLength + 1 .. i - 1 : sum[i] < sum[j]
  IN [trig_ts  |-> Single(etrig_frag.dt, 1),
      promptPE |-> Depth(sum, window, window + PromptWindow),
      prelimPE |-> Depth(sum, Max({0, window - PrelimWindow}), window),
      peakPE   |-> Depth(sum, n - WvfmLength, n),
      peaktime |-> IF n < WvfmLength THEN Garbage
                   ELSE Single(Single(WvfmLength * fWvfmPostPercent, Whole) - Whole * (n + 1 - peak), Whole)]

(* A reference time of zero stands for none.                               *)
Measure ==
  /\ stage = "fragments" /\ left = <<>>
  /\ trig_metrics_v' = IF refTimestamp # 0 /\ etrig_frag # NotFound THEN <<Metrics(wvfm_sum)>> ELSE <<>>
  /\ stage' = "metrics"
  /\ UNCHANGED <<fConfig, event, memberVars, refTimestamp, left, etrig_frag, wvfms_v>>

(* The next event, whatever became of the last: its products and the       *)
(* locals of produce are gone.                                             *)
NoEvent == [header |-> NoHeader, etrigs |-> <<>>, words |-> <<>>, containers |-> <<>>, light |-> {}]

EndEvent ==
  /\ stage \in {"metrics", "thrown"}
  /\ stage' = "event"
  /\ event' = NoEvent /\ refTimestamp' = 0 /\ left' = <<>> /\ etrig_frag' = NotFound
  /\ wvfms_v' = NoWvfms /\ trig_metrics_v' = <<>>
  /\ UNCHANGED <<fConfig, memberVars>>

produce ==
  /\ stage = "event"
  /\ event' \in Events(fConfig)
  /\ left' = event'.containers
  /\ stage' = "timing"
  /\ UNCHANGED <<fConfig, memberVars, refTimestamp, etrig_frag, wvfms_v, trig_metrics_v>>

Init ==
  /\ fConfig \in Configs
  /\ stage = "event" /\ event = NoEvent
  /\ fWvfmPostPercent = DefaultPost /\ fWindowStart = Single(Whole - DefaultPost, Whole)
  /\ refTimestamp = 0 /\ left = <<>> /\ etrig_frag = NotFound
  /\ wvfms_v = NoWvfms /\ trig_metrics_v = <<>>

Next == FindReference \/ SkipContainer \/ FindTrigger \/ ReadContainer \/ Measure \/ EndEvent \/ produce
Spec == Init /\ [][Next]_vars

-----------------------------------------------------------------------------
(* What the boards and the timing system recorded, on one time axis.       *)
Measured == stage = "metrics" /\ trig_metrics_v # <<>>
Boards   == {c \in ToSet(event.containers) : IsOfPMTs(c)}
Agree    == \A c, d \in Boards : c.frags = d.frags
Fragments == SelectSeq(event.containers, IsOfPMTs)[1].frags
Chosen   == Fragments[etrig_frag.idx]
Shifted(f) == f.stamp # f.end
IsUsable(f) == fConfig.IncludeExtensions \/ f.len >= WvfmLength
FTrig(f) == f.end - Sample * PostSamples
Raw      == event.header - NTBDelay
InOneSecond ==
  LET times == ToSet(event.etrigs) \cup {w.time : w \in ToSet(event.words)}
                 \cup (IF event.header = NoHeader THEN {} ELSE {event.header, Raw})
                 \cup {f.end : f \in ToSet(Fragments)} \cup {FTrig(f) : f \in ToSet(Fragments)}
  IN \A t, u \in times : t \div Second = u \div Second
Origin == (Fragments[1].end \div Second) * Second
ReferenceTime == Origin + refTimestamp
Distance(f) == Abs(FTrig(f) - ReferenceTime)

(* Of several ETRIGs the one closest to the raw time is the reference, but *)
(* one before the raw time shuts out all that were recorded after it.      *)
EtrigTaken ==
  LET away(i)  == Abs(event.etrigs[i] - Raw)
      records  == {i \in DOMAIN event.etrigs : \A j \in 1 .. i - 1 : away(i) < away(j)}
      before   == {i \in records : event.etrigs[i] < Raw}
  IN event.etrigs[IF before = {} THEN Max(records) ELSE Min(before)]

(* A time computed in single precision is off by half the spacing at most. *)
Blur(f) == IF Shifted(f) THEN 0 ELSE Spacing(f.end - Origin, 1) \div (2 * Whole)

(* The metrics are of the trigger that is closest to the reference, of     *)
(* those with a full waveform unless extensions are included, away from    *)
(* the end of a second and if its time is known.  For boards that do not   *)
(* shift the time tag both the choice and the time are as good as a time   *)
(* of single precision: exact in the first part of a second (of 2^24 ns),  *)
(* and off by up to 32 ns at its end.  The reference of a stream without   *)
(* light is an ETRIG: not always the closest to the raw time, as the code  *)
(* comments.                                                               *)
TriggerOfReference ==
  Measured /\ InOneSecond =>
    LET usable == {f \in ToSet(Fragments) : IsUsable(f)}
    IN /\ (\A f \in usable : Shifted(f) \/ (~IsExtension(f) /\ fWvfmPostPercent = DefaultPost)) =>
            /\ Chosen \in usable
            /\ \A f \in usable : Distance(Chosen) - Blur(Chosen) <= Distance(f) + Blur(f)
            /\ \E error \in -Blur(Chosen) .. Blur(Chosen) :
                 trig_metrics_v[1].trig_ts = Single(FTrig(Chosen) + error - ReferenceTime, 1)
       /\ fConfig.TimingType = 0 /\ ~IsLightStream /\ event.etrigs # <<>> /\ event.header # NoHeader =>
            ReferenceTime = EtrigTaken - SPECTDCDelay

(* The fragments a board was read for, at one index in all containers,     *)
(* hold the light at t, if the board is not silenced.                      *)
Read(c) == c.frags[etrig_frag.idx]
Holds(f, t) == t \in {f.end - Sample * k : k \in 1 .. WvfmLength}
Showing(t) == {Read(c) : c \in {d \in Boards : d.board \notin Ignored /\ Holds(Read(d), t)}}

(* Waveforms of the same length: of one trigger each, or, when extensions  *)
(* are included, of the same.                                              *)
Alike ==
  \A c, d \in Boards :
    IF fConfig.IncludeExtensions THEN \A i \in 1 .. etrig_frag.idx : c.frags[i] = d.frags[i]
    ELSE ~IsExtension(Read(c))

(* Where the code puts the trigger, from the end of a waveform: by its own *)
(* samples after the trigger, unless the last fragment whose fraction was  *)
(* believed is an extension: then by the fraction of that.  If none was    *)
(* believed, an extension of an earlier event may count.                   *)
Believed == SelectSeq(Fragments, LAMBDA f : IsUsable(f) /\ Shifted(f) /\ f.len > PostSamples)
TriggerFromEnd ==
  IF Believed # <<>> /\ IsExtension(Last(Believed))
  THEN Single(WvfmLength * Single(PostSamples, Last(Believed).len), Whole)
  ELSE Whole * PostSamples
FractionIsKnown == Believed # <<>> \/ ~fConfig.IncludeExtensions

(* When the boards agree on the triggers, no event is thrown away, and     *)
(* without extensions the fractions never change but for their rounding.   *)
(* A flash is seen just if it is in the fragment that a board was read     *)
(* for, and its time is from the trigger of that fragment: this is the     *)
(* trigger chosen, unless the board lost a fragment or has one that the    *)
(* first lacks; and it is right, unless an extension's fraction is used.   *)
(* If the first board was read and extensions are left out, the flash is   *)
(* prompt just if it is in the window from the trigger; one sample earlier *)
(* as long as no board has shifted a time tag, since the default start of  *)
(* the window lies below its bin (999 of 1000 with the default parameters).*)
PeakIsTheFlash ==
  /\ stage = "thrown" => ~Agree
  /\ ~fConfig.IncludeExtensions =>
       /\ fWvfmPostPercent = DefaultPost
       /\ fWindowStart \in {Whole - DefaultPost, Single(WvfmLength - PostSamples, WvfmLength)}
  /\ Measured /\ Alike /\ Len(wvfm_sum) >= WvfmLength =>
       LET m     == trig_metrics_v[1]
           early == IF fWindowStart * WvfmLength < Whole * (WvfmLength - PostSamples) THEN 1 ELSE 0
       IN \A t \in event.light : event.light = {t} =>
            /\ m.peakPE > 0 <=> Showing(t) # {}
            /\ Showing(t) # {} /\ FractionIsKnown =>
                 \E f \in Showing(t) : m.peaktime = Single(TriggerFromEnd - Whole * ((f.end - t) \div Sample), Whole)
            /\ wvfms_v[FragIDs[1]] # <<>> /\ ~fConfig.IncludeExtensions =>
                 (m.promptPE > 0 <=> \E f \in Showing(t) :
                    (t - FTrig(f)) \div Sample + early \in 0 .. PromptWindow - 1)
=============================================================================
