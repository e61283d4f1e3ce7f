--------------------------- MODULE XArapucaDecoder ---------------------------
(***************************************************************************)
(* SBNDXARAPUCADecoder: the fragments of the V1740 digitizers of the       *)
(* X-ARAPUCAs become waveforms.  A trigger gives a board a fragment of     *)
(* nominal length, with the time tag (TTT) of its end, which starts from 0 *)
(* in every second; what is recorded further gives shorter fragments, that *)
(* are appended.  Fragments come in lists (groups): the containers, one    *)
(* for each board, or one of all fragments together.                       *)
(*                                                                         *)
(* All channels of a board are alike, and one stands for them.  A sample   *)
(* is the board and the time, counted over all seconds, it was taken at:   *)
(* the code knows no such times, the properties do.                        *)
(***************************************************************************)
EXTENDS Integers, Sequences, FiniteSets, SequencesExt, Selections

CONSTANTS NBoards,            \* fnum_caen_boards
          NominalSamples,
          NsPerSample,        \* fns_per_sample
          AllowedJittering,   \* fallowed_jittering, in ns
          Second,             \* 1e9 ns
          XaEvents            \* what the boards and FrameShift may have recorded

ASSUME XaAssumption ==
  /\ NBoards \in Nat \ {0} /\ NominalSamples \in Nat \ {0}
  /\ NsPerSample \in Nat \ {0} /\ AllowedJittering \in Nat
  /\ Second \in Nat /\ 2 * NominalSamples * NsPerSample < Second

(* A fragment ends less than a second after its timestamp (post).          *)
Fragments ==
  {f \in [board : Int, len : Nat \ {0}, end : Nat, post : Nat] : f.post < Second /\ f.post <= f.end}

(* What the boards record for an event: a board is in one container, its   *)
(* fragments are in the order of their times, and within a second.         *)
ASSUME RecordsAssumption ==
  \A e \in XaEvents :
    /\ e.groups \in Seq(Seq(Fragments)) /\ e.frame # "caen" /\ e.ref \in Int
    /\ \A g \in DOMAIN e.groups :
         /\ e.groups[g] # <<>>
         /\ \A i, j \in DOMAIN e.groups[g] :
              i < j /\ e.groups[g][i].board = e.groups[g][j].board =>
                e.groups[g][j].end - e.groups[g][i].end \in 0 .. Second - 1
    /\ \A g, h \in DOMAIN e.groups : \A i \in DOMAIN e.groups[g] : \A j \in DOMAIN e.groups[h] :
         e.groups[g][i].board = e.groups[h][j].board => g = h

VARIABLES
  stage,                  \* "event", "decode", "done", "thrown"
  fcombine_ext_frag,
  event,                  \* the event: its fragments and its frame
  factive_timing_frame,   \* a member: what the last shifted event set
  timingRef,              \* the TimingReferenceInfo of the event
  container, block,       \* the loops over the fragments
  fragment_indices, wvfms, first, prev_TTT, prod_wvfms

loopVars == <<container, block, fragment_indices, wvfms, first, prev_TTT, prod_wvfms>>
vars == <<stage, fcombine_ext_frag, event, factive_timing_frame, timingRef, loopVars>>

-----------------------------------------------------------------------------
TTT(frag)      == frag.end % Second
Duration(n)    == n * NsPerSample
IsNominal(frag) == frag.len = NominalSamples
ValidFragment(frag) == frag.board \in 0 .. NBoards - 1

(* decode_waveforms: the samples of a fragment, the last before its end.   *)
SamplesOf(frag) ==
  [i \in 1 .. frag.len |-> <<frag.board, frag.end - Duration(frag.len - i + 1)>>]

(* TTT_dif.  Over the end of a second it is what the code computes.        *)
TTTDif(frag) ==
  IF prev_TTT > TTT(frag) THEN prev_TTT - (Second - TTT(frag)) ELSE TTT(frag) - prev_TTT

IsFirst(frag) == fragment_indices[frag.board] = -1

(* Mutant of DumpsBefore: a short fragment is always appended.             *)
DumpsAtNominal(frag) == ~IsFirst(frag) /\ IsNominal(frag)

(* dump_comb_wvfms: the fragment begins a waveform, and ends the last.     *)
DumpsBefore(frag) ==
  /\ ~IsFirst(frag)
  /\ IsNominal(frag) \/ TTTDif(frag) > Duration(frag.len) + AllowedJittering

(* Mutant: the tag is taken to be in the second of the timestamp.          *)
SameSecond(f) == (f.timestamp \div Second) * Second + f.ttt

(* The fragment's own timestamp, which is before its end, says in which    *)
(* second the tag is.                                                      *)
TTTUnix(f) ==
  IF f.timestamp % Second > f.ttt
  THEN (f.timestamp \div Second + 1) * Second + f.ttt
  ELSE (f.timestamp \div Second) * Second + f.ttt

(* The frame's timestamp of produce: 0 without a shift.                    *)
Timestamp == IF event.frame = "none" THEN 0 ELSE event.ref

(* shift_time: where a waveform of n samples starts that ends at f.        *)
ShiftTime(f, n) ==
  IF factive_timing_frame = "frameshift" THEN TTTUnix(f) - Timestamp - Duration(n)
  ELSE (TTTUnix(f) - Duration(n)) % Second

(* dump_waveforms, under the channels of the board that is being decoded.  *)
Waveform(board, f, n, samples) ==
  [board |-> board, time |-> ShiftTime(f, n), samples |-> samples]

-----------------------------------------------------------------------------
Group == event.groups[container]
Frag  == Group[block]
NextBlock ==
  IF block < Len(Group) THEN container' = container /\ block' = block + 1
  ELSE container' = container + 1 /\ block' = 1

(* Without the product of FrameShift produce throws.                       *)
NoFrameShift ==
  /\ stage = "event" /\ event.frame = "missing"
  /\ stage' = "thrown"
  /\ UNCHANGED <<fcombine_ext_frag, event, factive_timing_frame, timingRef, loopVars>>

(* The reference and the frame that goes with it: an event without a shift *)
(* leaves the member as it is.                                             *)
BeginEvent ==
  /\ stage = "event" /\ event.frame # "missing"
  /\ IF event.frame = "none"
     THEN timingRef' = "caen" /\ UNCHANGED factive_timing_frame
     ELSE timingRef' = event.frame /\ factive_timing_frame' = "frameshift"
  /\ stage' = "decode"
  /\ UNCHANGED <<fcombine_ext_frag, event, loopVars>>

Decoding == stage = "decode" /\ container <= Len(event.groups)

SkipInvalid ==
  /\ Decoding /\ ~ValidFragment(Frag)
  /\ NextBlock
  /\ UNCHANGED <<stage, fcombine_ext_frag, event, factive_timing_frame, timingRef,
                 fragment_indices, wvfms, first, prev_TTT, prod_wvfms>>

(* A fragment is appended to the waveforms, or these are dumped and it     *)
(* begins the next; the last of a container is dumped at once.             *)
DecodeFragment ==
  /\ Decoding /\ ValidFragment(Frag) /\ fcombine_ext_frag
  /\ LET own     == [timestamp |-> Frag.end - Frag.post, ttt |-> TTT(Frag)]
         dumps   == DumpsBefore(Frag)
         flushed == IF dumps THEN Append(prod_wvfms, Waveform(Frag.board, first, NominalSamples, wvfms))
                    ELSE prod_wvfms
         samples == (IF dumps THEN <<>> ELSE wvfms) \o SamplesOf(Frag)
         isLast  == block = Len(Group)
     IN /\ first' = IF IsFirst(Frag) \/ dumps THEN own ELSE first
        /\ prod_wvfms' = IF isLast THEN Append(flushed, Waveform(Frag.board, first', NominalSamples, samples))
                         ELSE flushed
        /\ wvfms' = IF isLast THEN <<>> ELSE samples
  /\ fragment_indices' = [fragment_indices EXCEPT ![Frag.board] = @ + 1]
  /\ prev_TTT' = TTT(Frag)
  /\ NextBlock
  /\ UNCHANGED <<stage, fcombine_ext_frag, event, factive_timing_frame, timingRef>>

(* "Combination of extended fragments disabled."                           *)
DecodeAlone ==
  /\ Decoding /\ ValidFragment(Frag) /\ ~fcombine_ext_frag
  /\ LET own == [timestamp |-> Frag.end - Frag.post, ttt |-> TTT(Frag)]
     IN prod_wvfms' = Append(prod_wvfms, Waveform(Frag.board, own, Frag.len, SamplesOf(Frag)))
  /\ fragment_indices' = [fragment_indices EXCEPT ![Frag.board] = @ + 1]
  /\ NextBlock
  /\ UNCHANGED <<stage, fcombine_ext_frag, event, factive_timing_frame, timingRef,
                 wvfms, first, prev_TTT>>

PutProducts ==
  /\ stage = "decode" /\ container > Len(event.groups)
  /\ stage' = "done"
  /\ UNCHANGED <<fcombine_ext_frag, event, factive_timing_frame, timingRef, loopVars>>

-----------------------------------------------------------------------------
NoIndices  == [b \in 0 .. NBoards - 1 |-> -1]
NoFragment == [timestamp |-> 0, ttt |-> 0]

Init ==
  /\ stage = "event" /\ event \in XaEvents
  /\ fcombine_ext_frag \in BOOLEAN
  /\ factive_timing_frame = "caen" /\ timingRef = "caen"
  /\ container = 1 /\ block = 1 /\ fragment_indices = NoIndices
  /\ wvfms = <<>> /\ first = NoFragment /\ prev_TTT = 0 /\ prod_wvfms = <<>>

(* The next event of the job: the locals are new, the member is not.       *)
NextEvent ==
  /\ stage \in {"done", "thrown"}
  /\ stage' = "event" /\ event' \in XaEvents
  /\ timingRef' = "caen"
  /\ container' = 1 /\ block' = 1 /\ fragment_indices' = NoIndices
  /\ wvfms' = <<>> /\ first' = NoFragment /\ prev_TTT' = 0 /\ prod_wvfms' = <<>>
  /\ UNCHANGED <<fcombine_ext_frag, factive_timing_frame>>

Next == \/ NoFrameShift \/ BeginEvent
        \/ SkipInvalid \/ DecodeFragment \/ DecodeAlone \/ PutProducts
        \/ NextEvent

Spec == Init /\ [][Next]_vars

-----------------------------------------------------------------------------
(* The fragments that are decoded, in the order they are.                  *)
Valid(frags) == Selected(frags, {i \in DOMAIN frags : ValidFragment(frags[i])})
Decoded      == Valid(FlattenSeq(event.groups))
StartOf(frag) == frag.end - Duration(frag.len)

(* Two fragments of a board do not belong to one waveform when the later   *)
(* is of a trigger or did not follow at once.  When a second ends between  *)
(* them the code takes the time between to be shorter by twice what was    *)
(* left of the second.                                                     *)
Separate(f, g) ==
  \/ IsNominal(g)
  \/ StartOf(g) - f.end > AllowedJittering
                          + (IF TTT(f) > TTT(g) THEN 2 * (Second - TTT(f)) ELSE 0)

(* The fragments of Decoded that begin a waveform.                         *)
Beginning ==
  {i \in DOMAIN Decoded :
     \/ ~fcombine_ext_frag \/ i = 1
     \/ Decoded[i - 1].board # Decoded[i].board
     \/ Separate(Decoded[i - 1], Decoded[i])}

(* A list that has fragments to decode, but does not end with one: the     *)
(* call for the last of it, which would dump the waveforms, returns early. *)
CutOff(group) == ~ValidFragment(Last(group)) /\ \E f \in ToSet(group) : ValidFragment(f)

(* A list's fragments are of one board, and what they leave is dumped      *)
(* before the next.                                                        *)
OneByOne ==
  fcombine_ext_frag =>
    \A g \in DOMAIN event.groups :
      /\ \A f, h \in ToSet(event.groups[g]) :
           ValidFragment(f) /\ ValidFragment(h) => f.board = h.board
      /\ CutOff(event.groups[g]) => g = Len(event.groups)

(* Every sample of every valid fragment is put once, and in order, but for *)
(* what a list that is cut off leaves in wvfms; and unless several boards  *)
(* come in one list and are combined, a waveform is the samples of one     *)
(* board that belong together: it begins at a fragment that begins one and *)
(* has the samples up to the next such fragment (decode_fragment,          *)
(* append_waveforms, dump_waveforms).                                      *)
SamplesCombined ==
  stage = "done" =>
    /\ FlattenSeq([i \in DOMAIN prod_wvfms |-> prod_wvfms[i].samples]) \o wvfms
         = FlattenSeq([i \in DOMAIN Decoded |-> SamplesOf(Decoded[i])])
    /\ wvfms # <<>> => fcombine_ext_frag /\ \E g \in ToSet(event.groups) : CutOff(g)
    /\ OneByOne =>
         {<<w.board, w.samples[1]>> : w \in ToSet(prod_wvfms)}
             \cup (IF wvfms = <<>> THEN {} ELSE {<<Last(Decoded).board, wvfms[1]>>})
           = {<<Decoded[i].board, SamplesOf(Decoded[i])[1]>> : i \in Beginning}

(* The time of a waveform is that of its trigger's first sample, the       *)
(* nominal length before the end of the fragment it begins with, also when *)
(* the timestamp is of the second before: relative to the event's frame,   *)
(* or, without one, within the second - but absolute when an event before  *)
(* had a frame (shift_time).                                               *)
WaveformTimes ==
  stage = "done" /\ OneByOne =>
    \A w \in ToSet(prod_wvfms) : \E i \in Beginning :
      LET f == Decoded[i]
          t == f.end - Duration(IF fcombine_ext_frag THEN NominalSamples ELSE f.len)
      IN /\ w.samples[1] = SamplesOf(f)[1]
         /\ w.time = CASE timingRef # "caen" -> t - event.ref
                       [] timingRef = "caen" /\ factive_timing_frame = "frameshift" -> t
                       [] OTHER -> t % Second
=============================================================================
