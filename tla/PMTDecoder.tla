----------------------------- MODULE PMTDecoder -----------------------------
(***************************************************************************)
(* SBNDPMTDecoder: the fragments of the CAEN digitizers become waveforms.  *)
(* A trigger gives each board a fragment of the nominal length; triggers   *)
(* that arrive while it is recorded give it shorter ones, extensions, that *)
(* follow on.  The decoder knows a fragment by its length and by its       *)
(* trigger time tag, which is that of the fragment's end and starts from 0 *)
(* in every second.                                                        *)
(*                                                                         *)
(* Times are in nanoseconds; a sample takes two.  The samples of a         *)
(* waveform are the times, counted over all seconds, at which the board    *)
(* took them: the code knows no such times, the properties do.             *)
(***************************************************************************)
EXTENDS MonPulse

CONSTANTS NBoards,            \* fn_caenboards; the last one is for timing
          NominalLength,      \* fnominal_length, in samples
          Second,             \* 1e9 ns
          AllowedTimeDiff,    \* fallowed_time_diff, in ns
          DecoderConfigs,     \* the fhicl configurations considered
          Readouts            \* what the boards may have recorded

ASSUME DecoderAssumption ==
  /\ NBoards \in Nat \ {0, 1} /\ TotalCAENBoards = NBoards - 1
  /\ NominalLength \in Nat \ {0}
  /\ Second \in Nat /\ 4 * NominalLength < Second
  /\ AllowedTimeDiff \in Nat /\ 2 * AllowedTimeDiff < Second
  /\ DecoderConfigs \subseteq [ignore : SUBSET (0 .. NBoards - 1), OutputTiming : BOOLEAN]

VARIABLES
  stage,          \* "fragments", "decode", "flashes", "done", "thrown", ...
  fConfig,
  readout,        \* the event: its fragments and reference time
  board_frag_v,   \* per board, the fragments in the order they came
  extended_flag,
  iboard, itrig,
  pmtwvfmVec, fltwvfmVec, timwvfmVec

products    == <<pmtwvfmVec, fltwvfmVec, timwvfmVec>>
decoderVars == <<stage, fConfig, readout, board_frag_v, extended_flag, iboard, itrig, products>>

TimingBoard == NBoards - 1
Boards == 0 .. NBoards - 1
Window == 2 * NominalLength

(* get_ttt; get_length; the length of get_timing, which stays 0 when the   *)
(* fragment has no channel of the flash trigger.                           *)
Ttt(frag) == frag.end % Second
FragLen(frag) == frag.len
TimedLen(frag) == IF frag.ftrig THEN frag.len ELSE 0

(* get_waveforms: the samples of a fragment, the last one before its end.  *)
SamplesOf(frag) == [i \in 1 .. frag.len |-> frag.end - 2 * frag.len + 2 * (i - 1)]

(* get_fragments, for every fragment of the event: those of boards to be   *)
(* ignored or out of range are dropped.                                    *)
FragsOf(frags, b) == Selected(frags, {i \in DOMAIN frags : frags[i].board = b})
OfBoard(b) == IF b \in fConfig.ignore THEN <<>> ELSE FragsOf(readout.frags, b)

(* The boards: a trigger's extensions follow on without a gap, the next    *)
(* trigger is recorded when the one before has ended.                      *)
IsTrigger(t) ==
  /\ t \in Seq([end : Nat, len : Nat]) /\ t # <<>> /\ t[1].len = NominalLength
  /\ \A k \in 2 .. Len(t) :
       t[k].len \in 1 .. NominalLength - 1 /\ t[k].end = t[k - 1].end + 2 * t[k].len

(* What a board has are fragments of triggers, in order, all within one    *)
(* second; "complete" readouts have all of them, on every board.           *)
IsReadout(r) ==
  LET all == FlattenSeq(r.triggers)
  IN /\ \A n \in DOMAIN r.triggers : IsTrigger(r.triggers[n])
     /\ r.triggers \in Seq(Seq([end : Nat, len : Nat]))
     /\ \A n \in 2 .. Len(r.triggers) :
          r.triggers[n][1].end >= Last(r.triggers[n - 1]).end + Window
     /\ \A i, j \in DOMAIN all : all[i].end - all[j].end < Second
     /\ r.ref \in Nat
     /\ r.frags \in Seq([board : Nat, end : Nat, len : Nat, ftrig : BOOLEAN])
     /\ \A f \in ToSet(r.frags) : \E i \in DOMAIN all : f.end = all[i].end /\ f.len = all[i].len
     /\ \A i, j \in DOMAIN r.frags :
          i < j /\ r.frags[i].board = r.frags[j].board => r.frags[i].end < r.frags[j].end
     /\ r.complete =>
          \A b \in Boards :
            LET own == FragsOf(r.frags, b)
            IN Len(own) = Len(all)
               /\ \A k \in DOMAIN own :
                    own[k].end = all[k].end /\ own[k].len = all[k].len /\ own[k].ftrig

ASSUME ReadoutsAssumption == \A r \in Readouts : IsReadout(r)

-----------------------------------------------------------------------------
(* Mutant: the end of a second is forgotten.                               *)
FollowsWithin(end, ttt) == ttt >= end /\ ttt - end < Window

(* ttt_check: the tag is that of the last fragment's end (iwvfm_end) or up *)
(* to two nominal lengths later; ttt - end is unsigned, huge when negative.*)
TttCheck(end, ttt) ==
  \/ end < Second - Window /\ ttt >= end /\ ttt - end < Window
  \/ end > Second - Window /\ ttt < Window /\ ttt + Second - end < Window

IsExtension(prev, frag) == FragLen(frag) < NominalLength /\ TttCheck(Ttt(prev), Ttt(frag))

(* The jtrig loop: the last fragment appended to the one at i, if          *)
(* extension follows upon extension.                                       *)
LastExtension(frags, i) ==
  IF ~extended_flag THEN i
  ELSE CHOOSE j \in i .. Len(frags) :
         /\ \A k \in i + 1 .. j : IsExtension(frags[k - 1], frags[k])
         /\ j < Len(frags) => ~IsExtension(frags[j], frags[j + 1])

Combined(frags, i) ==
  FlattenSeq([k \in 1 .. LastExtension(frags, i) - i + 1 |-> SamplesOf(frags[i + k - 1])])

(* iwvfm_start: the start of the waveform within its second.               *)
WfmStart(frag) ==
  IF Ttt(frag) < 2 * frag.len THEN Second - (2 * frag.len - Ttt(frag)) ELSE Ttt(frag) - 2 * frag.len

(* event_trigger_time: 0 stands for "no shift" too.                        *)
EventTriggerTime == IF readout.frame = "none" THEN 0 ELSE readout.ref % Second

Distance(x, y) == IF x < y THEN y - x ELSE x - y

(* Mutant: only a reference in the next second is seen.                    *)
TimeDiffOneSided(start) ==
  LET diff == start - EventTriggerTime
  IN IF diff > AllowedTimeDiff /\ EventTriggerTime # 0 THEN diff - Second ELSE diff

(* time_diff, corrected when the two are in different seconds.             *)
TimeDiff(start) ==
  LET diff == start - EventTriggerTime
      Near(d) == Distance(d, 0) < AllowedTimeDiff
  IN CASE Distance(diff, 0) <= AllowedTimeDiff \/ EventTriggerTime = 0 -> diff
       [] Distance(diff, 0) > AllowedTimeDiff /\ EventTriggerTime # 0 /\ Near(diff + Second)
            -> diff + Second
       [] Distance(diff, 0) > AllowedTimeDiff /\ EventTriggerTime # 0 /\ Near(diff - Second)
            -> diff - Second
       [] OTHER -> diff

-----------------------------------------------------------------------------
(* Without fragments the products are empty and pairsOverThreshold is -1.  *)
NoFragments ==
  /\ stage = "fragments" /\ readout.frags = <<>>
  /\ stage' = "done"
  /\ UNCHANGED <<fConfig, readout, board_frag_v, extended_flag, iboard, itrig, products>>

(* "Frame Shift Info object is invalid, check data quality".               *)
NoFrameShift ==
  /\ stage = "fragments" /\ readout.frags # <<>> /\ readout.frame = "missing"
  /\ stage' = "thrown"
  /\ UNCHANGED <<fConfig, readout, board_frag_v, extended_flag, iboard, itrig, products>>

(* The fragments by board, and whether any of them is an extension.        *)
GetFragments ==
  /\ stage = "fragments" /\ readout.frags # <<>> /\ readout.frame # "missing"
  /\ board_frag_v' = [b \in Boards |-> OfBoard(b)]
  /\ extended_flag' = \E b \in Boards : \E i \in DOMAIN OfBoard(b) :
                        FragLen(OfBoard(b)[i]) < NominalLength
  /\ stage' = "decode" /\ iboard' = 0 /\ itrig' = 1
  /\ UNCHANGED <<fConfig, readout, products>>

Decoding == stage = "decode" /\ iboard \in Boards
Frags    == board_frag_v[iboard]

(* One iteration of the itrig loop: a short fragment is no start of a      *)
(* waveform.                                                               *)
SkipExtension ==
  /\ Decoding /\ itrig <= Len(Frags) /\ TimedLen(Frags[itrig]) < NominalLength
  /\ itrig' = itrig + 1
  /\ UNCHANGED <<stage, fConfig, readout, board_frag_v, extended_flag, iboard, products>>

(* The other: one waveform for each channel of the board.  The channel of  *)
(* the flash trigger goes to a vector of its own, under the board's number;*)
(* the timing board's channels do too, or nowhere.                         *)
DecodeTrigger ==
  /\ Decoding /\ itrig <= Len(Frags) /\ TimedLen(Frags[itrig]) >= NominalLength
  /\ LET Wfm(ch) == [time |-> TimeDiff(WfmStart(Frags[itrig])), channel |-> ch,
                     samples |-> Combined(Frags, itrig)]
         own == [i \in 1 .. PMTPerBoard |-> Wfm(iboard * PMTPerBoard + i - 1)]
     IN /\ fltwvfmVec' = Append(fltwvfmVec, Wfm(iboard))
        /\ pmtwvfmVec' = IF iboard = TimingBoard THEN pmtwvfmVec ELSE pmtwvfmVec \o own
        /\ timwvfmVec' = IF iboard = TimingBoard /\ fConfig.OutputTiming
                         THEN timwvfmVec \o own ELSE timwvfmVec
  /\ itrig' = itrig + 1
  /\ UNCHANGED <<stage, fConfig, readout, board_frag_v, extended_flag, iboard>>

NextBoard ==
  /\ Decoding /\ itrig > Len(Frags)
  /\ iboard' = iboard + 1 /\ itrig' = 1
  /\ stage' = IF iboard = TimingBoard THEN "flashes" ELSE stage
  /\ UNCHANGED <<fConfig, readout, board_frag_v, extended_flag, products>>

DecoderNext ==
  NoFragments \/ NoFrameShift \/ GetFragments \/ SkipExtension \/ DecodeTrigger \/ NextBoard
=============================================================================
