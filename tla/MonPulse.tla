------------------------------ MODULE MonPulse ------------------------------
(***************************************************************************)
(* TriggerEmulationService, which emulates the monitor pulse of the PMT    *)
(* digitizers (how many pairs of PMTs are below threshold, sample by       *)
(* sample), and the slices that opDetDigitizerSBND cuts around its rises.  *)
(*                                                                         *)
(* A waveform is the sequence of its samples' levels: 1, 0 and -1 are      *)
(* before, at and beyond the threshold (pulses are negative).  A missing   *)
(* waveform is empty.                                                      *)
(***************************************************************************)
EXTENDS Integers, Sequences, FiniteSets, SequencesExt, Selections

CONSTANTS PMTPerBoard,        \* 15: seven pairs and a channel without partner
          TotalCAENBoards,    \* fTotalCAENBoards, without the timing one
          MonSamples,         \* 4 * fMonWidth
          Pairs, Unpaired,    \* the simulation's lists of channels
          PMT_Channels,       \* fPMT_Channels of the digitizer, in order
          PairMultiplicityThreshold,
          ticksBeforeCross, ticksAfterCross

ASSUME MonPulseAssumption ==
  /\ PMTPerBoard \in Nat /\ PMTPerBoard % 2 = 1
  /\ PMT_Channels \in Seq(Nat) /\ PMT_Channels # <<>>
  /\ TotalCAENBoards \in Nat \ {0} /\ MonSamples \in Nat \ {0}
  /\ \A p \in Pairs : Cardinality(p) = 2
  /\ \A p, q \in Pairs : p # q => p \cap q = {}
  /\ Unpaired \cap (UNION Pairs) = {}
  /\ (UNION Pairs) \cup Unpaired \subseteq ToSet(PMT_Channels)   \* it throws otherwise
  /\ PairMultiplicityThreshold \in Nat
  /\ ticksBeforeCross \in Nat /\ ticksAfterCross \in Nat \ {0}

-----------------------------------------------------------------------------
(* CrossedThreshold.                                                       *)
Crossed(w, i) == w[i - 1] > 0 /\ w[i] < 0

(* Mutant of After: the next crossing is sought a pulse too late.          *)
AfterDeadTime(i, w) == i + 2 * MonSamples + 1

(* EndIndex, clipped to the last sample, which is therefore never marked;  *)
(* and WaveformIndex, where the search goes on.                            *)
EndIndex(i, w) == IF i + MonSamples > Len(w) THEN Len(w) ELSE i + MonSamples
After(i, w)    == EndIndex(i, w) + 1

(* ConstructBinaryResponse: the samples that are true.                     *)
ConstructBinaryResponse(w) ==
  LET Step(acc, i) == IF i >= acc.next /\ Crossed(w, i)
                      THEN [on   |-> acc.on \cup i .. EndIndex(i, w) - 1,
                            next |-> After(i, w)]
                      ELSE acc
  IN FoldLeft(Step, [on |-> {}, next |-> 2], [i \in 1 .. Len(w) - 1 |-> i + 1]).on

(* The sum over groups of one or two waveforms.  A response that is        *)
(* shorter than the sum is read past its end: "beyond" is what is there.   *)
SumOfGroups(groups, Wfm(_), size, beyond) ==
  LET On(x) == ConstructBinaryResponse(Wfm(x))
                 \cup (IF beyond THEN Len(Wfm(x)) + 1 .. size ELSE {})
      response == [g \in groups |-> UNION {On(x) : x \in g}]
  IN [i \in 1 .. size |-> Cardinality({g \in groups : i \in response[g]})]

(* Data: the place of a channel's waveform in the vector.  A mutant: the   *)
(* flashes of a board are not stepped over.                                *)
SteppedByOne(channel, flash, board, numFlash) ==
  channel + flash * PMTPerBoard + board * PMTPerBoard
WaveIndex(channel, flash, board, numFlash) ==
  channel + flash * PMTPerBoard + board * PMTPerBoard * numFlash

(* Data: neighbouring channels are pairs, the last one has no partner.     *)
BoardGroups ==
  {{<<b, c>>, <<b, c + 1>>} : b \in 0 .. TotalCAENBoards - 1,
                              c \in {k \in 0 .. PMTPerBoard - 2 : k % 2 = 0}}
    \cup {{<<b, PMTPerBoard - 1>>} : b \in 0 .. TotalCAENBoards - 1}

NumFlash(wfms) == Len(wfms) \div (TotalCAENBoards * PMTPerBoard)

DataMonPulse(wfms, flash, beyond) ==
  LET Wfm(x) == wfms[1 + WaveIndex(x[2], flash, x[1], NumFlash(wfms))]
  IN SumOfGroups(BoardGroups, Wfm, Len(Wfm(<<0, 0>>)), beyond)

(* Simulation: a pair without both waveforms is skipped.                   *)
CompleteGroups(wfms) ==
  {g \in Pairs \cup {{ch} : ch \in Unpaired} : \A ch \in g : wfms[ch] # <<>>}

SimMonPulse(wfms, beyond) ==
  LET Wfm(ch) == wfms[ch]
  IN SumOfGroups(CompleteGroups(wfms), Wfm, Len(wfms[PMT_Channels[1]]), beyond)

MaxOf(pulse) == CHOOSE m \in ToSet(pulse) : \A x \in ToSet(pulse) : x <= m

-----------------------------------------------------------------------------
(* crossingPoints: where the pulse rises above the multiplicity, counted   *)
(* from 0.                                                                 *)
High(pulse, i) == pulse[i + 1] > PairMultiplicityThreshold
CrossingPoints(pulse) ==
  InOrder({i \in 0 .. Len(pulse) - 1 : High(pulse, i) /\ (i > 0 => ~High(pulse, i - 1))})

NearEnd(c, size) == c + ticksAfterCross > size
NearBeginning(c) == c - ticksBeforeCross < 0
Touches(c, ivs) == ivs # <<>> /\ c - ticksBeforeCross < Last(ivs)[2]

(* Mutant: the extended interval begins at the last crossing.              *)
Replaced(ivs, c) == Append(Front(ivs), <<c - ticksBeforeCross, c + ticksAfterCross>>)

Extended(ivs, c) == Append(Front(ivs), <<Last(ivs)[1], c + ticksAfterCross>>)

(* findInterestIntervals: half-open intervals.  Only in the middle of the  *)
(* waveform is an interval joined with the one before.                     *)
findInterestIntervals(pulse) ==
  LET AddInterval(ivs, c) ==
        CASE NearEnd(c, Len(pulse)) -> Append(ivs, <<c - ticksBeforeCross, Len(pulse) - 1>>)
          [] ~NearEnd(c, Len(pulse)) /\ NearBeginning(c) -> Append(ivs, <<0, c + ticksAfterCross>>)
          [] OTHER -> IF Touches(c, ivs) THEN Extended(ivs, c)
                      ELSE Append(ivs, <<c - ticksBeforeCross, c + ticksAfterCross>>)
  IN FoldLeft(AddInterval, <<>>, CrossingPoints(pulse))

(* sliceMonPulse and sliceWaveforms drop a slice without samples.          *)
Slices(pulse) ==
  LET ivs == findInterestIntervals(pulse)
  IN Selected(ivs, {k \in DOMAIN ivs : ivs[k][1] < ivs[k][2]})
=============================================================================
