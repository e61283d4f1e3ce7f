---------------------------- MODULE XArapucaProof ----------------------------
(***************************************************************************)
(* Proofs about SBNDXARAPUCADecoder, for every number of boards, length of *)
(* a second and of fragments, and all lists of fragments that the boards   *)
(* may record. What was taken so far (Taken) are the valid fragments up to *)
(* the one at hand; the invariant says that their samples are in the       *)
(* waveforms put and in the one that is not complete (AllPut), and that    *)
(* each waveform has the time of the fragment it begins with (Whole). The  *)
(* code knows that a fragment continues a waveform only from an index and  *)
(* a tag per board (Tags): that the waveform that is not complete is of    *)
(* the same board needs that the lists are (Pending).                      *)
(***************************************************************************)
EXTENDS XArapucaDecoder, FoldLemmas

(* The fragments before the one at hand.                                   *)
UpTo(gs, c, b) ==
  FlattenSeq(SubSeq(gs, 1, c - 1)) \o (IF c <= Len(gs) THEN SubSeq(gs[c], 1, b - 1) ELSE <<>>)
Taken == Valid(UpTo(event.groups, container, block))

Points    == Int \X Int
Own(f)    == [timestamp |-> f.end - f.post, ttt |-> TTT(f)]
Puts(ws)  == [i \in DOMAIN ws |-> ws[i].samples]
Cut(d)    == [i \in DOMAIN d |-> SamplesOf(d[i])]
Begins(d, i) ==
  \/ ~fcombine_ext_frag \/ i = 1 \/ d[i - 1].board # d[i].board \/ Separate(d[i - 1], d[i])
Beg(d) == {i \in DOMAIN d : Begins(d, i)}

WaveformType == [board : Int, time : Int, samples : Seq(Points)]
Fresh ==
  /\ container = 1 /\ block = 1 /\ fragment_indices = NoIndices
  /\ wvfms = <<>> /\ prod_wvfms = <<>>
FrameKnown ==
  /\ event.frame = "none" => timingRef = "caen"
  /\ event.frame # "none" => timingRef = event.frame /\ factive_timing_frame = "frameshift"
XaTyped ==
  /\ event \in XaEvents /\ fcombine_ext_frag \in BOOLEAN
  /\ container \in 1 .. Len(event.groups) + 1 /\ block \in Nat
  /\ IF container <= Len(event.groups) THEN block \in 1 .. Len(Group) ELSE block = 1
  /\ stage \in {"event", "thrown"} => Fresh
  /\ stage = "done" => container > Len(event.groups)
  /\ stage \in {"decode", "done"} => FrameKnown
  /\ first \in [timestamp : Int, ttt : Int]
  /\ wvfms \in Seq(Points) /\ prod_wvfms \in Seq(WaveformType)

-----------------------------------------------------------------------------
(* All samples of what was taken are put or wait to be.                    *)
AllPut == FlattenSeq(Puts(prod_wvfms)) \o wvfms = FlattenSeq(Cut(Taken))

(* What was taken comes from lists, or a list's places, that are passed.   *)
Located ==
  \A i \in DOMAIN Taken :
    /\ ValidFragment(Taken[i])
    /\ \E g \in DOMAIN event.groups : \E k \in DOMAIN event.groups[g] :
         /\ Taken[i] = event.groups[g][k]
         /\ g < container \/ (g = container /\ k < block)

(* What the code remembers of a board, and of the fragment before.         *)
Tags ==
  /\ fragment_indices \in [0 .. NBoards - 1 -> Int]
  /\ \A b \in 0 .. NBoards - 1 :
       /\ fragment_indices[b] >= -1
       /\ fragment_indices[b] = -1 <=> \A i \in DOMAIN Taken : Taken[i].board # b
  /\ fcombine_ext_frag /\ Taken # <<>> => prev_TTT = TTT(Taken[Len(Taken)])

(* The boards of the fragments to come from this list are new, or that of  *)
(* the waveform that is not complete.                                      *)
NewBoards == \A f \in ToSet(Group) : ValidFragment(f) => \A i \in DOMAIN Taken : Taken[i].board # f.board
SameBoard ==
  /\ Taken # <<>> /\ \E f \in ToSet(Group) : ValidFragment(f)
  /\ \A f \in ToSet(Group) : ValidFragment(f) => f.board = Taken[Len(Taken)].board
Pending ==
  /\ wvfms # <<>> => fcombine_ext_frag
  /\ fcombine_ext_frag /\ OneByOne /\ container <= Len(event.groups) =>
       (wvfms = <<>> /\ NewBoards) \/ (wvfms # <<>> /\ SameBoard)

(* What waits came from this list, or from one that was cut off.           *)
Leftover ==
  wvfms # <<>> =>
    \/ \E g \in DOMAIN event.groups : CutOff(event.groups[g])
    \/ container <= Len(event.groups) /\ \E k \in 1 .. block - 1 : ValidFragment(Group[k])

(* Each waveform begins with a fragment that begins one, and has its time; *)
(* each such fragment has a waveform.                                      *)
LengthOf(f) == IF fcombine_ext_frag THEN NominalSamples ELSE f.len
IsOf(w, f) ==
  /\ w.board = f.board /\ w.samples # <<>> /\ w.samples[1] = SamplesOf(f)[1]
  /\ w.time = ShiftTime(Own(f), LengthOf(f))
Waits(f, d, w, fst) ==
  w # <<>> /\ w[1] = SamplesOf(f)[1] /\ fst = Own(f) /\ f.board = d[Len(d)].board
WholeFor(d, ws, w, fst) ==
  /\ w # <<>> => fcombine_ext_frag /\ d # <<>> /\ \E i \in Beg(d) : Waits(d[i], d, w, fst)
  /\ \A v \in ToSet(ws) : \E i \in Beg(d) : IsOf(v, d[i])
  /\ \A i \in Beg(d) : Waits(d[i], d, w, fst) \/ \E v \in ToSet(ws) : IsOf(v, d[i])
Whole == OneByOne => WholeFor(Taken, prod_wvfms, wvfms, first)

XaInv == AllPut /\ Located /\ Tags /\ Pending /\ Leftover /\ Whole

-----------------------------------------------------------------------------
(* The events have lists of fragments.                                     *)
LEMMA GroupsTyped ==
  ASSUME NEW e \in XaEvents
  PROVE  /\ e.groups \in Seq(Seq(Fragments)) /\ Len(e.groups) \in Nat
         /\ \A g \in DOMAIN e.groups : e.groups[g] \in Seq(Fragments) /\ Len(e.groups[g]) \in Nat \ {0}
<1>1. e.groups \in Seq(Seq(Fragments)) /\ \A g \in DOMAIN e.groups : e.groups[g] # <<>>
  BY RecordsAssumption
<1>2. \A g \in DOMAIN e.groups : e.groups[g] \in Seq(Fragments)
  BY <1>1
<1> HIDE DEF Fragments
<1>3. \A s \in Seq(Fragments) : s # <<>> => Len(s) \in Nat \ {0}
  OBVIOUS
<1> QED BY <1>1, <1>2, <1>3

(* One more fragment is taken after the others.                            *)
LEMMA UpToGrows ==
  ASSUME NEW gs \in Seq(Seq(Fragments)), NEW c \in 1 .. Len(gs), NEW b \in 1 .. Len(gs[c])
  PROVE  /\ UpTo(gs, c, b) \in Seq(Fragments)
         /\ b < Len(gs[c]) => UpTo(gs, c, b + 1) = Append(UpTo(gs, c, b), gs[c][b])
         /\ b = Len(gs[c]) => UpTo(gs, c + 1, 1) = Append(UpTo(gs, c, b), gs[c][b])
<1> DEFINE G == gs[c]
           F == FlattenSeq(SubSeq(gs, 1, c - 1))
           s == SubSeq(G, 1, b - 1)
           e == G[b]
<1>1. c \in Nat /\ c >= 1 /\ c <= Len(gs) /\ b \in Nat /\ b >= 1 /\ b <= Len(G)
      /\ G \in Seq(Fragments) /\ e \in Fragments
  OBVIOUS
<1>2. SubSeq(gs, 1, c - 1) \in Seq(Seq(Fragments)) /\ F \in Seq(Fragments)
  <2>1. SubSeq(gs, 1, c - 1) \in Seq(Seq(Fragments))
    BY <1>1, SubSeqProperties
  <2> QED BY <2>1, Flattened
<1>3. s \in Seq(Fragments) /\ SubSeq(G, 1, b) = Append(s, e)
  <2>1. s \in Seq(Fragments)
    BY <1>1, SubSeqProperties
  <2>2. SubSeq(G, 1, b) = Append(SubSeq(G, 1, b - 1), G[b])
    BY <1>1, SubSeqRecursiveSecond
  <2> QED BY <2>1, <2>2
<1>4. UpTo(gs, c, b) = F \o s
  BY <1>1 DEF UpTo
<1>6. ASSUME b < Len(G) PROVE UpTo(gs, c, b + 1) = F \o Append(s, e)
  <2>1. c <= Len(gs) /\ (b + 1) - 1 = b
    BY <1>1
  <2> QED BY <1>3, <2>1 DEF UpTo
<1>7. ASSUME b = Len(G) PROVE UpTo(gs, c + 1, 1) = F \o Append(s, e)
  <2>1. SubSeq(gs, 1, c) = Append(SubSeq(gs, 1, c - 1), G)
    BY <1>1, SubSeqRecursiveSecond
  <2>2. FlattenSeq(SubSeq(gs, 1, c)) = F \o G
    BY <1>1, <1>2, <2>1, FlattenGrows
  <2>3. G = Append(s, e)
    BY <1>1, <1>3, <1>7, SubSeqFull
  <2>4. (c + 1) - 1 = c
    BY <1>1
  <2>5. c + 1 <= Len(gs) => SubSeq(gs[c + 1], 1, 1 - 1) = <<>>
    BY <1>1, SubSeqEmpty
  <2>6. UpTo(gs, c + 1, 1) = FlattenSeq(SubSeq(gs, 1, c)) \o <<>>
    BY <2>4, <2>5 DEF UpTo
  <2>7. F \o G \in Seq(Fragments)
    BY <1>1, <1>2, ConcatProperties
  <2> QED BY <2>2, <2>3, <2>6, <2>7, ConcatEmptySeq
<1> HIDE DEF G, F, s, e
<1>8. F \o Append(s, e) = Append(F \o s, e) /\ F \o s \in Seq(Fragments)
  BY <1>1, <1>2, <1>3, AppendLast
<1> QED BY <1>4, <1>6, <1>7, <1>8 DEF G, e

(* At the beginning nothing was taken, at the end everything.              *)
LEMMA UpToEnds ==
  ASSUME NEW gs \in Seq(Seq(Fragments))
  PROVE  UpTo(gs, 1, 1) = <<>> /\ UpTo(gs, Len(gs) + 1, 1) = FlattenSeq(gs)
<1>1. Len(gs) \in Nat /\ (Len(gs) + 1) - 1 = Len(gs) /\ SubSeq(gs, 1, 0) = <<>>
  BY SubSeqEmpty
<1>2. FlattenSeq(<<>>) = <<>> /\ <<>> \o <<>> = <<>>
  BY ConcatEmptySeq DEF FlattenSeq
<1>3. 1 <= Len(gs) => SubSeq(gs[1], 1, 1 - 1) = <<>>
  BY SubSeqEmpty
<1>4. UpTo(gs, 1, 1) = <<>>
  <2>1. 1 - 1 = 0
    OBVIOUS
  <2>2. UpTo(gs, 1, 1) = FlattenSeq(SubSeq(gs, 1, 1 - 1)) \o <<>>
    BY <1>3 DEF UpTo
  <2> QED BY <1>1, <1>2, <2>1, <2>2
<1>5. SubSeq(gs, 1, Len(gs)) = gs
  BY SubSeqFull
<1>6. FlattenSeq(gs) \in Seq(Fragments)
  BY Flattened
<1>7. FlattenSeq(gs) \o <<>> = FlattenSeq(gs)
  BY <1>6, ConcatEmptySeq
<1>8. ~(Len(gs) + 1 <= Len(gs))
  BY <1>1
<1>9. UpTo(gs, Len(gs) + 1, 1) = FlattenSeq(gs)
  BY <1>1, <1>5, <1>7, <1>8 DEF UpTo
<1> QED BY <1>4, <1>9

(* Valid fragments are added, others are not.                              *)
LEMMA ValidGrows ==
  ASSUME NEW s \in Seq(Fragments), NEW e \in Fragments
  PROVE  /\ Valid(s) \in Seq(Fragments)
         /\ Valid(Append(s, e)) = IF ValidFragment(e) THEN Append(Valid(s), e) ELSE Valid(s)
<1> DEFINE t == Append(s, e)
           I == {i \in DOMAIN s : ValidFragment(s[i])}
           J == {i \in DOMAIN t : ValidFragment(t[i])}
<1>1. /\ DOMAIN s = 1 .. Len(s) /\ Len(s) \in Nat /\ DOMAIN t = 1 .. Len(s) + 1
      /\ \A i \in 1 .. Len(s) : t[i] = s[i]
      /\ t[Len(s) + 1] = e
  BY AppendProperties
<1>2. J = IF ValidFragment(e) THEN I \cup {Len(s) + 1} ELSE I
  <2> HIDE DEF t
  <2>1. 1 .. Len(s) + 1 = (1 .. Len(s)) \cup {Len(s) + 1}
    BY <1>1
  <2> QED BY <1>1, <2>1
<1>3. Valid(s) = Selected(s, I) /\ Valid(t) = Selected(t, J)
  BY DEF Valid
<1>4. /\ Selected(s, I) \in Seq(Fragments)
      /\ Selected(t, I) = Selected(s, I)
      /\ Selected(t, I \cup {Len(s) + 1}) = Append(Selected(s, I), e)
  <2>1. I \subseteq DOMAIN s
    OBVIOUS
  <2> HIDE DEF I
  <2>2. Selected(s, I) \in Seq(Fragments)
    BY <2>1, SelectedElements
  <2>3. /\ Selected(Append(s, e), I) = Selected(s, I)
        /\ Selected(Append(s, e), I \cup {Len(s) + 1}) = Append(Selected(s, I), e)
    BY <2>1, SelectedGrows
  <2> QED BY <2>2, <2>3
<1> HIDE DEF t, I, J
<1> QED BY <1>2, <1>3, <1>4 DEF t

(* Of nothing, nothing is valid.                                           *)
LEMMA ValidNone == Valid(<<>>) = <<>>
<1>1. {i \in DOMAIN <<>> : ValidFragment(<<>>[i])} = {}
  OBVIOUS
<1>2. Cardinality({}) = 0
  BY FS_EmptySet
<1>3. Valid(<<>>) = [k \in 1 .. 0 |-> <<>>[InOrder({})[k]]]
  BY <1>1, <1>2 DEF Valid, Selected
<1> QED BY <1>3

-----------------------------------------------------------------------------
(* Mapping over one more element.                                          *)
LEMMA PutsGrow ==
  ASSUME NEW ws \in Seq(WaveformType), NEW w \in WaveformType
  PROVE  /\ Puts(ws) \in Seq(Seq(Points))
         /\ Puts(Append(ws, w)) = Append(Puts(ws), w.samples)
<1> DEFINE v == Append(ws, w)
<1>1. /\ DOMAIN ws = 1 .. Len(ws) /\ Len(ws) \in Nat /\ v \in Seq(WaveformType)
      /\ DOMAIN v = 1 .. Len(ws) + 1 /\ v[Len(ws) + 1] = w
      /\ \A i \in 1 .. Len(ws) : v[i] = ws[i] /\ ws[i] \in WaveformType
  <2> HIDE DEF WaveformType
  <2> QED BY AppendProperties
<1>2. w.samples \in Seq(Points) /\ \A i \in 1 .. Len(ws) : ws[i].samples \in Seq(Points)
  BY <1>1 DEF WaveformType
<1>3. Puts(ws) \in Seq(Seq(Points)) /\ Len(Puts(ws)) = Len(ws)
      /\ \A i \in 1 .. Len(ws) : Puts(ws)[i] = ws[i].samples
  BY <1>1, <1>2 DEF Puts
<1> DEFINE a == Append(Puts(ws), w.samples)
<1>4. /\ a \in Seq(Seq(Points)) /\ Len(a) = Len(ws) + 1 /\ a[Len(ws) + 1] = w.samples
      /\ \A i \in 1 .. Len(ws) : a[i] = ws[i].samples
  BY <1>2, <1>3, AppendProperties
<1> HIDE DEF a, v
<1>5. a = [i \in 1 .. Len(ws) + 1 |-> a[i]]
  BY <1>4
<1>6. \A i \in 1 .. Len(ws) + 1 : a[i] = v[i].samples
  <2> SUFFICES ASSUME NEW i \in 1 .. Len(ws) + 1 PROVE a[i] = v[i].samples
    OBVIOUS
  <2>1. i \in 1 .. Len(ws) \/ i = Len(ws) + 1
    BY <1>1
  <2> QED BY <1>1, <1>4, <2>1
<1>7. Puts(v) = [i \in 1 .. Len(ws) + 1 |-> v[i].samples]
  BY <1>1 DEF Puts
<1> QED BY <1>3, <1>5, <1>6, <1>7 DEF a, v

(* The samples of a fragment are one or more points.                       *)
LEMMA SamplesTyped ==
  ASSUME NEW f \in Fragments
  PROVE  /\ SamplesOf(f) \in Seq(Points) /\ SamplesOf(f) # <<>>
         /\ SamplesOf(f)[1] = <<f.board, f.end - Duration(f.len)>>
<1>1. f.len \in Nat \ {0} /\ f.board \in Int /\ f.end \in Int
  BY DEF Fragments
<1>2. \A k \in Int : Duration(k) \in Int
  BY XaAssumption DEF Duration
<1>3. \A i \in 1 .. f.len : <<f.board, f.end - Duration(f.len - i + 1)>> \in Points
  BY <1>1, <1>2 DEF Points
<1> HIDE DEF Points
<1>4. SamplesOf(f) \in [1 .. f.len -> Points]
  BY <1>3 DEF SamplesOf
<1>5. 1 \in 1 .. f.len /\ f.len - 1 + 1 = f.len
  BY <1>1
<1>6. SamplesOf(f)[1] = <<f.board, f.end - Duration(f.len)>>
  BY <1>5 DEF SamplesOf
<1> QED BY <1>1, <1>4, <1>5, <1>6

(* So it is with the samples of the fragments.                             *)
LEMMA CutGrows ==
  ASSUME NEW d \in Seq(Fragments), NEW e \in Fragments
  PROVE  /\ Cut(d) \in Seq(Seq(Points))
         /\ Cut(Append(d, e)) = Append(Cut(d), SamplesOf(e))
<1> DEFINE v == Append(d, e)
           a == Append(Cut(d), SamplesOf(e))
<1>1. /\ DOMAIN d = 1 .. Len(d) /\ Len(d) \in Nat /\ v \in Seq(Fragments)
      /\ DOMAIN v = 1 .. Len(d) + 1 /\ v[Len(d) + 1] = e
      /\ \A i \in 1 .. Len(d) : v[i] = d[i] /\ d[i] \in Fragments
  BY AppendProperties
<1>2. Cut(d) \in Seq(Seq(Points)) /\ Len(Cut(d)) = Len(d)
      /\ \A i \in 1 .. Len(d) : Cut(d)[i] = SamplesOf(d[i])
  <2>1. \A i \in 1 .. Len(d) : SamplesOf(d[i]) \in Seq(Points)
    BY <1>1, SamplesTyped
  <2> QED BY <1>1, <2>1 DEF Cut
<1>3. /\ a \in Seq(Seq(Points)) /\ Len(a) = Len(d) + 1 /\ a[Len(d) + 1] = SamplesOf(e)
      /\ \A i \in 1 .. Len(d) : a[i] = SamplesOf(d[i])
  <2>1. SamplesOf(e) \in Seq(Points)
    BY SamplesTyped
  <2> QED BY <1>2, <2>1, AppendProperties
<1> HIDE DEF a, v
<1>4. a = [i \in 1 .. Len(d) + 1 |-> a[i]]
  BY <1>3
<1>5. \A i \in 1 .. Len(d) + 1 : a[i] = SamplesOf(v[i])
  BY <1>1, <1>3
<1>6. Cut(v) = [i \in 1 .. Len(d) + 1 |-> SamplesOf(v[i])]
  BY <1>1 DEF Cut
<1> QED BY <1>2, <1>4, <1>5, <1>6 DEF a, v

-----------------------------------------------------------------------------
(* The fragment at hand is taken if it is valid.                           *)
LEMMA TakenGrows ==
  ASSUME XaTyped, Decoding, NextBlock, UNCHANGED event
  PROVE  /\ Frag \in Fragments /\ Taken \in Seq(Fragments)
         /\ Taken' = IF ValidFragment(Frag) THEN Append(Taken, Frag) ELSE Taken
         /\ container \in DOMAIN event.groups /\ block \in DOMAIN event.groups[container]
         /\ Group \in Seq(Fragments)
<1> DEFINE gs == event.groups
<1>1. gs \in Seq(Seq(Fragments)) /\ container \in 1 .. Len(gs) /\ block \in 1 .. Len(gs[container])
      /\ Group = gs[container] /\ Frag = gs[container][block]
  BY GroupsTyped DEF XaTyped, Decoding, Group, Frag
<1>2. gs[container] \in Seq(Fragments)
  BY <1>1
<1>3. gs[container][block] \in Fragments
  BY <1>1, <1>2
<1>4. UpTo(gs, container, block) \in Seq(Fragments)
      /\ UpTo(gs, container', block') = Append(UpTo(gs, container, block), Frag)
  <2>1. CASE block < Len(Group)
    BY <1>1, <2>1, UpToGrows DEF NextBlock
  <2>2. CASE ~(block < Len(Group))
    <3>1. block = Len(Group)
      BY <1>1, <1>2, <2>2
    <3> QED BY <1>1, <2>2, <3>1, UpToGrows DEF NextBlock
  <2> QED BY <2>1, <2>2
<1>5. Taken' = Valid(UpTo(gs, container', block')) /\ Taken = Valid(UpTo(gs, container, block))
  BY DEF Taken, Valid, ValidFragment
<1> HIDE DEF gs
<1>6. Valid(Append(UpTo(gs, container, block), Frag))
        = IF ValidFragment(Frag) THEN Append(Taken, Frag) ELSE Taken
  BY <1>1, <1>3, <1>4, <1>5, ValidGrows
<1> QED BY <1>1, <1>2, <1>3, <1>4, <1>5, <1>6, ValidGrows DEF gs

(* Before an event's fragments are decoded nothing is taken.               *)
LEMMA FreshTaken ==
  ASSUME event \in XaEvents, Fresh
  PROVE  Taken = <<>>
<1>1. UpTo(event.groups, 1, 1) = <<>>
  BY GroupsTyped, UpToEnds
<1> QED BY <1>1, ValidNone DEF Taken, Fresh

(* ... and every part of the invariant holds.                              *)
LEMMA FreshInv == event \in XaEvents /\ Fresh => XaInv
<1> SUFFICES ASSUME event \in XaEvents, Fresh PROVE XaInv
  OBVIOUS
<1>1. Taken = <<>> /\ DOMAIN Taken = {}
  BY FreshTaken
<1>2. AllPut
  <2>1. Puts(<<>>) = <<>> /\ Cut(<<>>) = <<>>
    BY DEF Puts, Cut
  <2>2. FlattenSeq(<<>>) = <<>> /\ <<>> \o <<>> = <<>>
    BY ConcatEmptySeq DEF FlattenSeq
  <2> QED BY <1>1, <2>1, <2>2 DEF AllPut, Fresh
<1>3. Located
  BY <1>1 DEF Located
<1>4. Tags
  BY <1>1 DEF Tags, Fresh, NoIndices
<1>5. Pending
  BY <1>1 DEF Pending, NewBoards, Fresh
<1>6. Leftover
  BY DEF Leftover, Fresh
<1>7. Whole
  <2>1. Beg(Taken) = {} /\ ToSet(prod_wvfms) = {}
    BY <1>1 DEF Beg, Fresh, ToSet
  <2> QED BY <2>1 DEF Whole, WholeFor, Fresh
<1> QED BY <1>2, <1>3, <1>4, <1>5, <1>6, <1>7 DEF XaInv

(* The places of the loops after a turn.                                   *)
LEMMA NextPlace ==
  ASSUME XaTyped, Decoding, NextBlock, UNCHANGED event
  PROVE  /\ container' \in 1 .. Len(event.groups) + 1 /\ block' \in Nat
         /\ IF container' <= Len(event.groups) THEN block' \in 1 .. Len(event.groups[container'])
            ELSE block' = 1
         /\ \/ container' = container /\ block' = block + 1
            \/ container' = container + 1 /\ block' = 1 /\ block = Len(Group)
<1> DEFINE gs == event.groups
<1>1. gs \in Seq(Seq(Fragments)) /\ container \in 1 .. Len(gs) /\ block \in 1 .. Len(Group)
      /\ Group = gs[container] /\ Len(gs) \in Nat
      /\ \A g \in 1 .. Len(gs) : Len(gs[g]) \in Nat \ {0}
  BY GroupsTyped DEF XaTyped, Decoding, Group
<1>2. CASE block < Len(Group)
  BY <1>1, <1>2 DEF NextBlock
<1>3. CASE ~(block < Len(Group))
  <2>1. container' = container + 1 /\ block' = 1 /\ block = Len(Group)
    BY <1>1, <1>3 DEF NextBlock
  <2>2. container + 1 \in 1 .. Len(gs) + 1
    BY <1>1
  <2>3. container + 1 <= Len(gs) => 1 \in 1 .. Len(gs[container + 1])
    BY <1>1, <2>2
  <2> QED BY <2>1, <2>2, <2>3
<1> QED BY <1>2, <1>3

(* The second is not empty.                                                *)
LEMMA SecondPositive == Second \in Nat \ {0}
<1>1. NominalSamples * NsPerSample \in Nat
  BY XaAssumption
<1>2. 2 * NominalSamples * NsPerSample = 2 * (NominalSamples * NsPerSample)
  BY XaAssumption
<1> QED BY <1>1, <1>2, XaAssumption

(* A fragment's tag and timestamp, and the waveforms made with them.       *)
LEMMA OwnTyped ==
  ASSUME NEW f \in Fragments
  PROVE  /\ Own(f) \in [timestamp : Int, ttt : Int]
         /\ f.board \in Int /\ f.len \in Nat \ {0} /\ f.end \in Nat /\ TTT(f) \in 0 .. Second - 1
<1>1. f.end \in Nat /\ f.post \in Nat /\ f.board \in Int /\ f.len \in Nat \ {0}
  BY DEF Fragments
<1>2. f.end % Second \in 0 .. Second - 1
  BY <1>1, SecondPositive
<1> QED BY <1>1, <1>2 DEF Own, TTT

(* Whatever it is made of, a waveform is one.                              *)
LEMMA WaveformTyped ==
  ASSUME event \in XaEvents, NEW b \in Int, NEW f \in [timestamp : Int, ttt : Int], NEW n \in Nat,
         NEW w \in Seq(Points)
  PROVE  /\ Waveform(b, f, n, w) \in WaveformType /\ Waveform(b, f, n, w).samples = w
         /\ Waveform(b, f, n, w).board = b /\ Waveform(b, f, n, w).time = ShiftTime(f, n)
<1>1. f.timestamp \in Int /\ f.ttt \in Int /\ Second \in Nat \ {0}
  BY SecondPositive
<1>2. f.timestamp \div Second \in Int /\ \A x \in Int : x * Second \in Int /\ x % Second \in Int
  BY <1>1
<1>3. TTTUnix(f) \in Int
  BY <1>1, <1>2 DEF TTTUnix
<1>4. Duration(n) \in Int
  BY XaAssumption DEF Duration
<1>5. Timestamp \in Int
  BY RecordsAssumption DEF Timestamp
<1>6. ShiftTime(f, n) \in Int
  <2> DEFINE u == TTTUnix(f)
             d == Duration(n)
             z == Timestamp
  <2>1. u \in Int /\ d \in Int /\ z \in Int
    BY <1>3, <1>4, <1>5
  <2>2. ShiftTime(f, n) = IF factive_timing_frame = "frameshift" THEN u - z - d ELSE (u - d) % Second
    BY DEF ShiftTime
  <2> HIDE DEF u, d, z
  <2>3. u - z - d \in Int /\ u - d \in Int
    BY <2>1
  <2>4. (u - d) % Second \in Int
    BY <1>2, <2>3
  <2> QED BY <2>2, <2>3, <2>4
<1> QED BY <1>6 DEF Waveform, WaveformType

-----------------------------------------------------------------------------
(* decode_fragment in two steps: the fragment is added, with the waveforms *)
(* before it dumped or not, and the last of a list is dumped at once.      *)
Flushed  == IF DumpsBefore(Frag)
            THEN Append(prod_wvfms, Waveform(Frag.board, first, NominalSamples, wvfms))
            ELSE prod_wvfms
Gathered == (IF DumpsBefore(Frag) THEN <<>> ELSE wvfms) \o SamplesOf(Frag)
FirstNow == IF IsFirst(Frag) \/ DumpsBefore(Frag) THEN Own(Frag) ELSE first

(* What the step does, in these terms.                                     *)
LEMMA Effect ==
  ASSUME XaTyped, DecodeFragment
  PROVE  /\ Decoding /\ NextBlock /\ ValidFragment(Frag) /\ fcombine_ext_frag
         /\ UNCHANGED <<stage, fcombine_ext_frag, event, factive_timing_frame, timingRef>>
         /\ first' = FirstNow
         /\ prod_wvfms' = IF block = Len(Group)
                          THEN Append(Flushed, Waveform(Frag.board, FirstNow, NominalSamples, Gathered))
                          ELSE Flushed
         /\ wvfms' = IF block = Len(Group) THEN <<>> ELSE Gathered
         /\ fragment_indices' = [fragment_indices EXCEPT ![Frag.board] = @ + 1]
         /\ prev_TTT' = TTT(Frag)
<1>1. first' = FirstNow
  BY DEF DecodeFragment, FirstNow, Own
<1>2. prod_wvfms' = IF block = Len(Group)
                   THEN Append(Flushed, Waveform(Frag.board, first', NominalSamples, Gathered))
                   ELSE Flushed
  BY DEF DecodeFragment, Flushed, Gathered
<1>3. wvfms' = IF block = Len(Group) THEN <<>> ELSE Gathered
  BY DEF DecodeFragment, Gathered
<1> QED BY <1>1, <1>2, <1>3 DEF DecodeFragment

(* What is added and dumped has the types.                                 *)
LEMMA EffectTyped ==
  ASSUME XaTyped, DecodeFragment
  PROVE  /\ Flushed \in Seq(WaveformType) /\ Gathered \in Seq(Points) /\ Gathered # <<>>
         /\ FirstNow \in [timestamp : Int, ttt : Int]
         /\ SamplesOf(Frag) \in Seq(Points) /\ SamplesOf(Frag) # <<>>
         /\ Waveform(Frag.board, first, NominalSamples, wvfms) \in WaveformType
         /\ Waveform(Frag.board, FirstNow, NominalSamples, Gathered) \in WaveformType
<1>1. Frag \in Fragments /\ event \in XaEvents
  BY TakenGrows, Effect DEF XaTyped
<1>2. SamplesOf(Frag) \in Seq(Points) /\ SamplesOf(Frag) # <<>>
  BY <1>1, SamplesTyped
<1>3. Own(Frag) \in [timestamp : Int, ttt : Int] /\ Frag.board \in Int
  BY <1>1, OwnTyped
<1>4. first \in [timestamp : Int, ttt : Int] /\ wvfms \in Seq(Points) /\ prod_wvfms \in Seq(WaveformType)
  BY DEF XaTyped
<1>5. NominalSamples \in Nat
  BY XaAssumption
<1>6. Waveform(Frag.board, first, NominalSamples, wvfms) \in WaveformType
  BY <1>1, <1>3, <1>4, <1>5, WaveformTyped
<1>7. Flushed \in Seq(WaveformType)
  BY <1>4, <1>6, AppendProperties DEF Flushed
<1>8. Gathered \in Seq(Points) /\ Gathered # <<>>
  <2>1. ASSUME NEW a \in Seq(Points) PROVE a \o SamplesOf(Frag) \in Seq(Points) /\ a \o SamplesOf(Frag) # <<>>
    <3> DEFINE t == SamplesOf(Frag)
    <3>1. t \in Seq(Points) /\ t # <<>>
      BY <1>2
    <3> HIDE DEF t
    <3>2. a \o t \in Seq(Points) /\ Len(a \o t) = Len(a) + Len(t)
      BY <3>1, ConcatProperties
    <3>3. Len(t) > 0 /\ Len(t) \in Nat /\ Len(a) \in Nat
      BY <3>1
    <3>4. Len(a \o t) # 0
      BY <3>2, <3>3
    <3>5. Len(<<>>) = 0
      OBVIOUS
    <3> QED BY <3>2, <3>4, <3>5 DEF t
  <2>2. <<>> \in Seq(Points)
    OBVIOUS
  <2> QED BY <1>4, <2>1, <2>2 DEF Gathered
<1>9. FirstNow \in [timestamp : Int, ttt : Int]
  BY <1>3, <1>4 DEF FirstNow
<1>10. Waveform(Frag.board, FirstNow, NominalSamples, Gathered) \in WaveformType
  BY <1>1, <1>3, <1>5, <1>8, <1>9, WaveformTyped
<1> QED BY <1>2, <1>6, <1>7, <1>8, <1>9, <1>10

(* The state keeps its types.                                              *)
LEMMA XaTypes == XaTyped /\ [Next]_vars => XaTyped'
<1> SUFFICES ASSUME XaTyped, [Next]_vars PROVE XaTyped'
  OBVIOUS
<1>1. CASE NoFrameShift
  BY <1>1 DEF NoFrameShift, loopVars, XaTyped, Fresh, FrameKnown, Group
<1>2. CASE BeginEvent
  BY <1>2 DEF BeginEvent, loopVars, XaTyped, Fresh, FrameKnown, Group
<1>3. CASE SkipInvalid
  <2>1. Decoding /\ NextBlock /\ UNCHANGED event
    BY <1>3 DEF SkipInvalid
  <2> QED BY <1>3, <2>1, NextPlace DEF SkipInvalid, Decoding, XaTyped, FrameKnown, Group
<1>4. CASE DecodeFragment
  <2>1. UNCHANGED <<stage, fcombine_ext_frag, event, factive_timing_frame, timingRef>> /\ stage = "decode"
    BY <1>4, Effect DEF Decoding
  <2>2. first' \in [timestamp : Int, ttt : Int] /\ wvfms' \in Seq(Points) /\ prod_wvfms' \in Seq(WaveformType)
    <3>1. <<>> \in Seq(Points)
      OBVIOUS
    <3>2. prod_wvfms' \in Seq(WaveformType)
      <4> DEFINE w == Waveform(Frag.board, FirstNow, NominalSamples, Gathered)
      <4>1. w \in WaveformType /\ Flushed \in Seq(WaveformType)
            /\ prod_wvfms' = IF block = Len(Group) THEN Append(Flushed, w) ELSE Flushed
        BY <1>4, Effect, EffectTyped
      <4> HIDE DEF w, WaveformType
      <4>2. Append(Flushed, w) \in Seq(WaveformType)
        BY <4>1, AppendProperties
      <4> QED BY <4>1, <4>2
    <3> QED BY <1>4, <3>1, <3>2, Effect, EffectTyped
  <2>3. Decoding /\ NextBlock
    BY <1>4, Effect
  <2> QED BY <2>1, <2>2, <2>3, NextPlace DEF XaTyped, FrameKnown, Group
<1>5. CASE DecodeAlone
  <2>1. Decoding /\ NextBlock /\ UNCHANGED event
    BY <1>5 DEF DecodeAlone
  <2>2. prod_wvfms' \in Seq(WaveformType)
    <3>1. Frag \in Fragments /\ event \in XaEvents /\ prod_wvfms \in Seq(WaveformType)
      BY <2>1, TakenGrows DEF XaTyped
    <3>2. Own(Frag) \in [timestamp : Int, ttt : Int] /\ Frag.board \in Int /\ Frag.len \in Nat
      BY <3>1, OwnTyped
    <3>3. SamplesOf(Frag) \in Seq(Points)
      BY <3>1, SamplesTyped
    <3>4. Waveform(Frag.board, Own(Frag), Frag.len, SamplesOf(Frag)) \in WaveformType
      BY <3>1, <3>2, <3>3, WaveformTyped
    <3> QED BY <1>5, <3>1, <3>4, AppendProperties DEF DecodeAlone, Own
  <2> QED BY <1>5, <2>1, <2>2, NextPlace DEF DecodeAlone, Decoding, XaTyped, FrameKnown, Group
<1>6. CASE PutProducts
  BY <1>6 DEF PutProducts, loopVars, XaTyped, FrameKnown, Group
<1>7. CASE NextEvent
  <2>1. event' \in XaEvents /\ container' = 1 /\ block' = 1 /\ stage' = "event"
    BY <1>7 DEF NextEvent
  <2>2. 1 \in 1 .. Len(event'.groups) + 1
        /\ (1 <= Len(event'.groups) => 1 \in 1 .. Len(event'.groups[1]))
    <3>1. Len(event'.groups) \in Nat
          /\ \A g \in DOMAIN event'.groups : Len(event'.groups[g]) \in Nat \ {0}
      BY <2>1, GroupsTyped
    <3>2. 1 <= Len(event'.groups) => 1 \in DOMAIN event'.groups
      BY <2>1, <3>1, GroupsTyped
    <3> QED BY <3>1, <3>2
  <2>3. wvfms' \in Seq(Points) /\ prod_wvfms' \in Seq(WaveformType) /\ first' \in [timestamp : Int, ttt : Int]
    BY <1>7 DEF NextEvent, NoFragment
  <2>4. fcombine_ext_frag' \in BOOLEAN /\ Fresh'
    BY <1>7 DEF NextEvent, XaTyped, Fresh, NoIndices
  <2> QED BY <2>1, <2>2, <2>3, <2>4 DEF XaTyped, Group
<1>8. CASE UNCHANGED vars
  BY <1>8 DEF vars, loopVars, XaTyped, Fresh, FrameKnown, Group
<1> QED BY <1>1, <1>2, <1>3, <1>4, <1>5, <1>6, <1>7, <1>8 DEF Next

-----------------------------------------------------------------------------
(* A sequence and one more element.                                        *)
LEMMA OneMore ==
  ASSUME NEW S, NEW s \in Seq(S), NEW x \in S
  PROVE  /\ Append(s, x) \in Seq(S) /\ Append(s, x) # <<>> /\ Len(s) \in Nat
         /\ DOMAIN s = 1 .. Len(s) /\ DOMAIN Append(s, x) = 1 .. Len(s) + 1
         /\ Len(Append(s, x)) = Len(s) + 1 /\ Append(s, x)[Len(s) + 1] = x
         /\ \A i \in 1 .. Len(s) : Append(s, x)[i] = s[i]
         /\ ToSet(Append(s, x)) = ToSet(s) \cup {x}
<1>1. /\ Append(s, x) \in Seq(S) /\ Len(s) \in Nat /\ DOMAIN s = 1 .. Len(s)
      /\ Len(Append(s, x)) = Len(s) + 1 /\ Append(s, x)[Len(s) + 1] = x
      /\ \A i \in 1 .. Len(s) : Append(s, x)[i] = s[i]
  BY AppendProperties
<1> DEFINE t == Append(s, x)
<1> HIDE DEF t
<1>2. DOMAIN t = 1 .. Len(s) + 1 /\ t # <<>>
  BY <1>1 DEF t
<1>3. ToSet(t) = ToSet(s) \cup {x}
  <2>1. 1 .. Len(s) + 1 = (1 .. Len(s)) \cup {Len(s) + 1}
    BY <1>1
  <2>2. ToSet(t) = {t[i] : i \in 1 .. Len(s)} \cup {t[Len(s) + 1]}
    BY <1>2, <2>1 DEF ToSet
  <2>3. {t[i] : i \in 1 .. Len(s)} = {s[i] : i \in 1 .. Len(s)}
    BY <1>1 DEF t
  <2> QED BY <1>1, <2>2, <2>3 DEF ToSet, t
<1> QED BY <1>1, <1>2, <1>3 DEF t

(* Two sequences, one after the other, when the second is not empty.       *)
LEMMA Joined ==
  ASSUME NEW S, NEW s \in Seq(S), NEW t \in Seq(S)
  PROVE  /\ s \o t \in Seq(S)
         /\ t # <<>> => s \o t # <<>>
         /\ s # <<>> => (s \o t)[1] = s[1]
<1>1. /\ s \o t \in Seq(S) /\ Len(s \o t) = Len(s) + Len(t) /\ Len(s) \in Nat /\ Len(t) \in Nat
      /\ \A i \in 1 .. Len(s) + Len(t) : (s \o t)[i] = IF i <= Len(s) THEN s[i] ELSE t[i - Len(s)]
  BY ConcatProperties
<1>2. (s # <<>> => Len(s) > 0) /\ (t # <<>> => Len(t) > 0)
  BY <1>1
<1>3. s # <<>> => 1 \in 1 .. Len(s) + Len(t) /\ 1 <= Len(s)
  BY <1>1, <1>2
<1>4. t # <<>> => Len(s \o t) # 0
  BY <1>1, <1>2
<1>5. Len(<<>>) = 0
  OBVIOUS
<1> QED BY <1>1, <1>3, <1>4, <1>5

(* The new last fragment begins a waveform or not; for the others nothing  *)
(* is changed.                                                             *)
LEMMA BegGrows ==
  ASSUME NEW d \in Seq(Fragments), NEW e \in Fragments
  PROVE  /\ \A i \in Beg(d) : i \in 1 .. Len(d) /\ i \in Beg(Append(d, e))
         /\ \A i \in Beg(Append(d, e)) : i \in Beg(d) \/ i = Len(d) + 1
         /\ Len(d) + 1 \in Beg(Append(d, e)) <=>
              (~fcombine_ext_frag \/ d = <<>> \/ d[Len(d)].board # e.board \/ Separate(d[Len(d)], e))
<1> DEFINE t == Append(d, e)
<1>1. /\ Len(d) \in Nat /\ DOMAIN d = 1 .. Len(d) /\ DOMAIN t = 1 .. Len(d) + 1
      /\ t[Len(d) + 1] = e /\ \A i \in 1 .. Len(d) : t[i] = d[i]
  BY OneMore
<1> HIDE DEF t
<1>2. ASSUME NEW i \in 1 .. Len(d)
      PROVE  i \in DOMAIN t /\ (Begins(t, i) <=> Begins(d, i))
  <2>1. i \in 1 .. Len(d) + 1 /\ (i # 1 => i - 1 \in 1 .. Len(d))
    BY <1>1
  <2>2. t[i] = d[i] /\ (i # 1 => t[i - 1] = d[i - 1])
    BY <1>1, <2>1
  <2> QED BY <1>1, <2>1, <2>2 DEF Begins
<1>3. \A i \in DOMAIN t : i \in 1 .. Len(d) \/ i = Len(d) + 1
  BY <1>1
<1>4. Len(d) + 1 \in DOMAIN t
  BY <1>1
<1>5. Begins(t, Len(d) + 1) <=>
        (~fcombine_ext_frag \/ d = <<>> \/ d[Len(d)].board # e.board \/ Separate(d[Len(d)], e))
  <2>1. CASE d = <<>>
    <3>1. Len(d) + 1 = 1
      BY <2>1
    <3> QED BY <2>1, <3>1 DEF Begins
  <2>2. CASE d # <<>>
    <3>1. Len(d) # 0
      BY <2>2
    <3>2. Len(d) + 1 # 1 /\ (Len(d) + 1) - 1 = Len(d) /\ Len(d) \in 1 .. Len(d)
      BY <1>1, <3>1
    <3>3. t[Len(d)] = d[Len(d)]
      BY <1>1, <3>2
    <3> QED BY <1>1, <2>2, <3>2, <3>3 DEF Begins
  <2> QED BY <2>1, <2>2
<1> QED BY <1>1, <1>2, <1>3, <1>4, <1>5 DEF Beg, t

-----------------------------------------------------------------------------
(* The waveform that waits is dumped.                                      *)
LEMMA WholeDumped ==
  ASSUME event \in XaEvents, fcombine_ext_frag,
         NEW d \in Seq(Fragments), NEW ws \in Seq(WaveformType), NEW w \in Seq(Points),
         NEW fst \in [timestamp : Int, ttt : Int], NEW next,
         w # <<>>, d # <<>>, WholeFor(d, ws, w, fst)
  PROVE  WholeFor(d, Append(ws, Waveform(d[Len(d)].board, fst, NominalSamples, w)), <<>>, next)
<1> DEFINE b == d[Len(d)].board
           v == Waveform(b, fst, NominalSamples, w)
<1>1. b \in Int
  <2>1. d[Len(d)] \in Fragments
    BY OneMore
  <2> QED BY <2>1, OwnTyped
<1>2. v \in WaveformType /\ v.samples = w /\ v.board = b /\ v.time = ShiftTime(fst, NominalSamples)
  BY <1>1, WaveformTyped, XaAssumption
<1>3. ToSet(Append(ws, v)) = ToSet(ws) \cup {v}
  <2> HIDE DEF v, WaveformType
  <2> QED BY <1>2, OneMore
<1> HIDE DEF v
<1>4. ASSUME NEW i \in Beg(d), Waits(d[i], d, w, fst) PROVE IsOf(v, d[i])
  BY <1>2, <1>4 DEF Waits, IsOf, LengthOf
<1>5. \E i \in Beg(d) : IsOf(v, d[i])
  BY <1>4 DEF WholeFor
<1>6. \A u \in ToSet(ws) : \E i \in Beg(d) : IsOf(u, d[i])
  BY DEF WholeFor
<1>7. \A i \in Beg(d) : IsOf(v, d[i]) \/ \E u \in ToSet(ws) : IsOf(u, d[i])
  BY <1>4 DEF WholeFor
<1> QED BY <1>3, <1>5, <1>6, <1>7 DEF WholeFor, v

(* A fragment begins a waveform, that waits.                               *)
LEMMA WholeBegun ==
  ASSUME fcombine_ext_frag,
         NEW d \in Seq(Fragments), NEW e \in Fragments, NEW ws, NEW fst,
         d = <<>> \/ d[Len(d)].board # e.board \/ Separate(d[Len(d)], e),
         WholeFor(d, ws, <<>>, fst)
  PROVE  WholeFor(Append(d, e), ws, SamplesOf(e), Own(e))
<1> DEFINE t == Append(d, e)
           m == Len(d) + 1
<1>1. /\ m \in Beg(t) /\ \A i \in Beg(d) : i \in 1 .. Len(d) /\ i \in Beg(t)
      /\ \A i \in Beg(t) : i \in Beg(d) \/ i = m
  BY BegGrows
<1>2. t[m] = e /\ Len(t) = m /\ t # <<>> /\ \A i \in 1 .. Len(d) : t[i] = d[i]
  BY OneMore
<1> HIDE DEF t, m
<1>3. Waits(t[m], t, SamplesOf(e), Own(e))
  BY <1>2, SamplesTyped DEF Waits
<1>4. \A v \in ToSet(ws) : \E i \in Beg(t) : IsOf(v, t[i])
  BY <1>1, <1>2 DEF WholeFor
<1>5. ASSUME NEW i \in Beg(t)
      PROVE  Waits(t[i], t, SamplesOf(e), Own(e)) \/ \E v \in ToSet(ws) : IsOf(v, t[i])
  <2>1. CASE i = m
    BY <1>3, <2>1
  <2>2. CASE i \in Beg(d)
    <3>1. ~Waits(d[i], d, <<>>, fst)
      BY DEF Waits
    <3>2. \E v \in ToSet(ws) : IsOf(v, d[i])
      BY <2>2, <3>1 DEF WholeFor
    <3> QED BY <1>1, <1>2, <2>2, <3>2
  <2> QED BY <1>1, <2>1, <2>2
<1> QED BY <1>1, <1>2, <1>3, <1>4, <1>5 DEF WholeFor, t

(* A fragment continues the waveform that waits.                           *)
LEMMA WholeContinued ==
  ASSUME fcombine_ext_frag,
         NEW d \in Seq(Fragments), NEW e \in Fragments, NEW ws, NEW w \in Seq(Points), NEW fst,
         w # <<>>, d # <<>>, d[Len(d)].board = e.board, ~Separate(d[Len(d)], e),
         WholeFor(d, ws, w, fst)
  PROVE  WholeFor(Append(d, e), ws, w \o SamplesOf(e), fst)
<1> DEFINE t == Append(d, e)
           m == Len(d) + 1
           x == w \o SamplesOf(e)
<1>1. /\ m \notin Beg(t) /\ \A i \in Beg(d) : i \in 1 .. Len(d) /\ i \in Beg(t)
      /\ \A i \in Beg(t) : i \in Beg(d) \/ i = m
  BY BegGrows
<1>2. t[m] = e /\ Len(t) = m /\ t # <<>> /\ \A i \in 1 .. Len(d) : t[i] = d[i]
  BY OneMore
<1>3. x # <<>> /\ x[1] = w[1]
  BY SamplesTyped, Joined
<1> HIDE DEF t, m, x
<1>4. ASSUME NEW i \in Beg(d), Waits(d[i], d, w, fst) PROVE Waits(t[i], t, x, fst)
  <2>1. t[i] = d[i] /\ t[Len(t)].board = d[Len(d)].board
    BY <1>1, <1>2
  <2> QED BY <1>3, <1>4, <2>1 DEF Waits
<1>5. \E i \in Beg(t) : Waits(t[i], t, x, fst)
  BY <1>1, <1>4 DEF WholeFor
<1>6. \A v \in ToSet(ws) : \E i \in Beg(t) : IsOf(v, t[i])
  BY <1>1, <1>2 DEF WholeFor
<1>7. ASSUME NEW i \in Beg(t)
      PROVE  Waits(t[i], t, x, fst) \/ \E v \in ToSet(ws) : IsOf(v, t[i])
  <2>1. i \in Beg(d) /\ t[i] = d[i]
    BY <1>1, <1>2
  <2>2. Waits(d[i], d, w, fst) \/ \E v \in ToSet(ws) : IsOf(v, d[i])
    BY <2>1 DEF WholeFor
  <2> QED BY <1>4, <2>1, <2>2
<1> QED BY <1>2, <1>5, <1>6, <1>7 DEF WholeFor, t, x

(* A fragment is a waveform by itself.                                     *)
LEMMA WholeAlone ==
  ASSUME event \in XaEvents, ~fcombine_ext_frag,
         NEW d \in Seq(Fragments), NEW e \in Fragments, NEW ws \in Seq(WaveformType), NEW fst,
         WholeFor(d, ws, <<>>, fst)
  PROVE  WholeFor(Append(d, e), Append(ws, Waveform(e.board, Own(e), e.len, SamplesOf(e))), <<>>, fst)
<1> DEFINE t == Append(d, e)
           m == Len(d) + 1
           v == Waveform(e.board, Own(e), e.len, SamplesOf(e))
<1>1. /\ m \in Beg(t) /\ \A i \in Beg(d) : i \in 1 .. Len(d) /\ i \in Beg(t)
      /\ \A i \in Beg(t) : i \in Beg(d) \/ i = m
  BY BegGrows
<1>2. t[m] = e /\ \A i \in 1 .. Len(d) : t[i] = d[i]
  BY OneMore
<1>3. /\ v \in WaveformType /\ v.samples = SamplesOf(e) /\ v.board = e.board
      /\ v.time = ShiftTime(Own(e), e.len)
  BY OwnTyped, SamplesTyped, WaveformTyped
<1>4. ToSet(Append(ws, v)) = ToSet(ws) \cup {v}
  <2> HIDE DEF v, WaveformType
  <2> QED BY <1>3, OneMore
<1>5. IsOf(v, e)
  <2> HIDE DEF v
  <2> QED BY <1>3, SamplesTyped DEF IsOf, LengthOf
<1> HIDE DEF t, m, v
<1>6. \A u \in ToSet(ws) : \E i \in Beg(t) : IsOf(u, t[i])
  BY <1>1, <1>2 DEF WholeFor
<1>7. ASSUME NEW i \in Beg(t) PROVE \E u \in ToSet(ws) \cup {v} : IsOf(u, t[i])
  <2>1. CASE i = m
    BY <1>2, <1>5, <2>1
  <2>2. CASE i \in Beg(d)
    <3>1. ~Waits(d[i], d, <<>>, fst)
      BY DEF Waits
    <3>2. \E u \in ToSet(ws) : IsOf(u, d[i])
      BY <2>2, <3>1 DEF WholeFor
    <3> QED BY <1>1, <1>2, <2>2, <3>2
  <2> QED BY <1>1, <2>1, <2>2
<1> QED BY <1>1, <1>2, <1>4, <1>5, <1>6, <1>7 DEF WholeFor, t, v

-----------------------------------------------------------------------------
(* A list's places, and the lists' boards.                                 *)
LEMMA InGroup ==
  ASSUME XaTyped, container <= Len(event.groups)
  PROVE  /\ container \in DOMAIN event.groups /\ Group \in Seq(Fragments)
         /\ block \in 1 .. Len(Group) /\ Len(Group) \in Nat /\ DOMAIN Group = 1 .. Len(Group)
         /\ Frag \in ToSet(Group) /\ Last(Group) = Group[Len(Group)]
         /\ \A f \in ToSet(Group) : \E k \in 1 .. Len(Group) : f = Group[k]
<1>1. /\ event.groups \in Seq(Seq(Fragments)) /\ container \in 1 .. Len(event.groups)
      /\ block \in 1 .. Len(Group)
  BY GroupsTyped DEF XaTyped
<1>2. container \in DOMAIN event.groups /\ Group \in Seq(Fragments)
  BY <1>1 DEF Group
<1>3. Len(Group) \in Nat /\ DOMAIN Group = 1 .. Len(Group)
  BY <1>2
<1> QED BY <1>1, <1>2, <1>3 DEF ToSet, Frag, Last

(* What was taken before a list is of other boards.                        *)
LEMMA NewList == XaTyped /\ Located /\ container <= Len(event.groups) /\ block = 1 => NewBoards
<1> SUFFICES ASSUME XaTyped, Located, container <= Len(event.groups), block = 1,
                    NEW f \in ToSet(Group), NEW i \in DOMAIN Taken, Taken[i].board = f.board
             PROVE  FALSE
  BY DEF NewBoards
<1>1. PICK g \in DOMAIN event.groups : \E k \in DOMAIN event.groups[g] :
        Taken[i] = event.groups[g][k] /\ (g < container \/ (g = container /\ k < block))
  BY DEF Located
<1>2. PICK k \in DOMAIN event.groups[g] :
        Taken[i] = event.groups[g][k] /\ (g < container \/ (g = container /\ k < block))
  BY <1>1
<1>3. container \in DOMAIN event.groups /\ event \in XaEvents
  BY InGroup DEF XaTyped
<1>4. PICK h \in 1 .. Len(Group) : f = Group[h]
  BY InGroup
<1>5. h \in DOMAIN event.groups[container] /\ event.groups[container][h] = f
  BY <1>4, InGroup DEF Group
<1>6. g = container
  BY <1>2, <1>3, <1>5, RecordsAssumption
<1>7. k \in Nat /\ k >= 1 /\ container \in Nat
  <2>1. event.groups[g] \in Seq(Fragments) /\ event.groups \in Seq(Seq(Fragments))
    BY <1>3, GroupsTyped
  <2> QED BY <1>3, <2>1
<1> QED BY <1>2, <1>6, <1>7

(* A fragment is taken after those of its board in the list, and within a  *)
(* second.                                                                 *)
LEMMA TakenBefore ==
  ASSUME XaTyped, Located, Decoding, NEW i \in DOMAIN Taken, Taken[i].board = Frag.board
  PROVE  Frag.end - Taken[i].end \in 0 .. Second - 1
<1>1. PICK g \in DOMAIN event.groups : \E k \in DOMAIN event.groups[g] :
        Taken[i] = event.groups[g][k] /\ (g < container \/ (g = container /\ k < block))
  BY DEF Located
<1>2. PICK k \in DOMAIN event.groups[g] :
        Taken[i] = event.groups[g][k] /\ (g < container \/ (g = container /\ k < block))
  BY <1>1
<1>3. /\ container \in DOMAIN event.groups /\ event \in XaEvents
      /\ block \in DOMAIN event.groups[container] /\ Frag = event.groups[container][block]
  BY InGroup DEF XaTyped, Decoding, Group, Frag
<1>4. g = container
  BY <1>2, <1>3, RecordsAssumption
<1>5. k < block
  <2>1. container \in Int
    BY DEF XaTyped
  <2> QED BY <1>2, <1>4, <2>1
<1> QED BY <1>2, <1>3, <1>4, <1>5, RecordsAssumption

(* The difference of two tags says how much time is between them, but for  *)
(* the second that may end.                                                *)
LEMMA TagsDiffer ==
  ASSUME NEW S \in Nat \ {0}, NEW a \in Nat, NEW b \in Nat, b - a \in 0 .. S - 1
  PROVE  b - a = (b % S) - (a % S) + (IF a % S > b % S THEN S ELSE 0)
<1> DEFINE p == a \div S
           q == b \div S
           r == a % S
           s == b % S
<1>1. p \in Int /\ q \in Int /\ r \in 0 .. S - 1 /\ s \in 0 .. S - 1 /\ a = p * S + r /\ b = q * S + s
  OBVIOUS
<1> HIDE DEF p, q, r, s
<1>2. q - p \in Int /\ b - a = (q - p) * S + (s - r)
  BY <1>1
<1>3. q - p = 0 \/ q - p = 1
  <2>1. \A k \in Int : (k <= -1 => k * S <= -S) /\ (k >= 2 => k * S >= 2 * S) /\ k * S \in Int
    OBVIOUS
  <2> DEFINE k == q - p
             x == k * S
  <2>2. k \in Int /\ x \in Int /\ b - a = x + (s - r) /\ (k <= -1 => x <= -S) /\ (k >= 2 => x >= 2 * S)
    BY <1>2, <2>1
  <2> HIDE DEF k, x
  <2>3. k = 0 \/ k = 1
    BY <1>1, <2>2
  <2> QED BY <2>3 DEF k
<1>4. 0 * S = 0 /\ 1 * S = S
  OBVIOUS
<1>5. CASE q - p = 0
  BY <1>1, <1>2, <1>4, <1>5
<1>6. CASE q - p = 1
  BY <1>1, <1>2, <1>4, <1>6
<1> QED BY <1>3, <1>5, <1>6 DEF r, s

(* The code dumps before a fragment when it and the one before are         *)
(* separate: the indices and tags say what the times do.                   *)
LEMMA DumpsWhenSeparate ==
  ASSUME XaTyped, Located, Tags, Decoding, ValidFragment(Frag), fcombine_ext_frag,
         Taken \in Seq(Fragments), Frag \in Fragments,
         Taken # <<>>, Taken[Len(Taken)].board = Frag.board
  PROVE  ~IsFirst(Frag) /\ (DumpsBefore(Frag) <=> Separate(Taken[Len(Taken)], Frag))
<1> DEFINE f == Taken[Len(Taken)]
           g == Frag
           D == Duration(g.len)
<1>1. Len(Taken) \in DOMAIN Taken /\ f \in Fragments
  BY OneMore
<1>2. ~IsFirst(Frag)
  BY <1>1 DEF Tags, IsFirst, ValidFragment
<1>3. g.end - f.end \in 0 .. Second - 1
  BY <1>1, TakenBefore
<1>4. prev_TTT = TTT(f) /\ TTT(f) = f.end % Second /\ TTT(g) = g.end % Second
  BY DEF Tags, TTT
<1>5. /\ f.end \in Nat /\ g.end \in Nat /\ g.len \in Nat /\ Second \in Nat \ {0}
      /\ TTT(f) \in 0 .. Second - 1 /\ TTT(g) \in 0 .. Second - 1
  BY <1>1, OwnTyped, SecondPositive
<1>6. D \in Int /\ AllowedJittering \in Int
  BY <1>5, XaAssumption DEF Duration
<1>7. StartOf(g) = g.end - D
  BY DEF StartOf
<1>8. DumpsBefore(g) <=> IsNominal(g) \/ TTTDif(g) > D + AllowedJittering
  BY <1>2 DEF DumpsBefore
<1>9. TTTDif(g) = IF TTT(f) > TTT(g) THEN TTT(f) - (Second - TTT(g)) ELSE TTT(g) - TTT(f)
  BY <1>4 DEF TTTDif
<1>10. Separate(f, g) <=>
         IsNominal(g) \/ g.end - D - f.end > AllowedJittering + (IF TTT(f) > TTT(g) THEN 2 * (Second - TTT(f)) ELSE 0)
  BY <1>7 DEF Separate
<1>11. g.end - f.end = TTT(g) - TTT(f) + (IF TTT(f) > TTT(g) THEN Second ELSE 0)
  <2> DEFINE a == f.end
             b == g.end
  <2>1. a \in Nat /\ b \in Nat /\ b - a \in 0 .. Second - 1 /\ Second \in Nat \ {0}
    BY <1>3, <1>5
  <2> HIDE DEF a, b
  <2>2. b - a = (b % Second) - (a % Second) + (IF a % Second > b % Second THEN Second ELSE 0)
    BY <2>1, TagsDiffer
  <2> QED BY <1>4, <2>2 DEF a, b
<1> DEFINE x == TTT(f)
           y == TTT(g)
           dif == TTTDif(g)
<1>12. x \in Int /\ y \in Int /\ dif = IF x > y THEN x - (Second - y) ELSE y - x
  BY <1>5, <1>9
<1>13. dif > D + AllowedJittering <=> g.end - D - f.end > AllowedJittering + (IF x > y THEN 2 * (Second - x) ELSE 0)
  <2> DEFINE ge == g.end
             fe == f.end
  <2>1. ge \in Int /\ fe \in Int /\ ge - fe = y - x + (IF x > y THEN Second ELSE 0)
    BY <1>5, <1>11
  <2> HIDE DEF x, y, dif, D, ge, fe
  <2>2. dif > D + AllowedJittering
          <=> ge - D - fe > AllowedJittering + (IF x > y THEN 2 * (Second - x) ELSE 0)
    <3>1. CASE x > y
      BY <1>5, <1>6, <1>12, <2>1, <3>1
    <3>2. CASE ~(x > y)
      BY <1>5, <1>6, <1>12, <2>1, <3>2
    <3> QED BY <3>1, <3>2
  <2> QED BY <2>2 DEF ge, fe
<1>14. DumpsBefore(g) <=> Separate(f, g)
  BY <1>8, <1>10, <1>13
<1> QED BY <1>2, <1>14

-----------------------------------------------------------------------------
(* Located, whatever becomes of the fragment at hand.                      *)
LEMMA LocatedStep ==
  ASSUME XaTyped, Located, Decoding, NextBlock, UNCHANGED event
  PROVE  Located'
<1>1. /\ Frag \in Fragments /\ Taken \in Seq(Fragments)
      /\ Taken' = IF ValidFragment(Frag) THEN Append(Taken, Frag) ELSE Taken
      /\ container \in DOMAIN event.groups /\ block \in DOMAIN event.groups[container]
  BY TakenGrows
<1>2. \/ container' = container /\ block' = block + 1
      \/ container' = container + 1 /\ block' = 1
  BY NextPlace
<1>3. container \in Int /\ block \in Int /\ event.groups \in Seq(Seq(Fragments))
      /\ \A g \in DOMAIN event.groups : g \in Int /\ \A k \in DOMAIN event.groups[g] : k \in Int
  <2>1. event.groups \in Seq(Seq(Fragments)) /\ \A g \in DOMAIN event.groups : event.groups[g] \in Seq(Fragments)
    BY GroupsTyped DEF XaTyped
  <2> QED BY <2>1 DEF XaTyped
<1> DEFINE At(f) == \E g \in DOMAIN event.groups : \E k \in DOMAIN event.groups[g] :
                      /\ f = event.groups[g][k]
                      /\ g < container' \/ (g = container' /\ k < block')
<1>4. ASSUME NEW i \in DOMAIN Taken
      PROVE  ValidFragment(Taken[i]) /\ At(Taken[i])
  <2>1. ValidFragment(Taken[i])
    BY DEF Located
  <2>2. PICK g \in DOMAIN event.groups : \E k \in DOMAIN event.groups[g] :
          Taken[i] = event.groups[g][k] /\ (g < container \/ (g = container /\ k < block))
    BY DEF Located
  <2>3. PICK k \in DOMAIN event.groups[g] :
          Taken[i] = event.groups[g][k] /\ (g < container \/ (g = container /\ k < block))
    BY <2>2
  <2>4. g < container' \/ (g = container' /\ k < block')
    BY <1>2, <1>3, <2>3
  <2> QED BY <2>1, <2>3, <2>4
<1>5. At(Frag)
  <2>1. Frag = event.groups[container][block]
    BY DEF Frag, Group
  <2>2. container < container' \/ (container = container' /\ block < block')
    BY <1>2, <1>3
  <2> QED BY <1>1, <2>1, <2>2
<1>6. \A i \in DOMAIN Taken' : ValidFragment(Taken'[i]) /\ At(Taken'[i])
  <2>1. CASE ~ValidFragment(Frag)
    BY <1>1, <1>4, <2>1
  <2>2. CASE ValidFragment(Frag)
    <3> DEFINE e == Frag
               T == Taken
    <3>1. Taken' = Append(T, e) /\ T \in Seq(Fragments) /\ e \in Fragments
      BY <1>1, <2>2
    <3> HIDE DEF e, T, At
    <3>2. /\ DOMAIN Taken' = 1 .. Len(T) + 1 /\ Taken'[Len(T) + 1] = e /\ Len(T) \in Nat
          /\ DOMAIN T = 1 .. Len(T) /\ \A i \in 1 .. Len(T) : Taken'[i] = T[i]
      BY <3>1, OneMore
    <3>3. \A i \in DOMAIN Taken' : i \in 1 .. Len(T) \/ i = Len(T) + 1
      BY <3>2
    <3>4. ValidFragment(e) /\ At(e) /\ \A i \in DOMAIN T : ValidFragment(T[i]) /\ At(T[i])
      BY <1>4, <1>5, <2>2 DEF e, T
    <3> QED BY <3>2, <3>3, <3>4
  <2> QED BY <2>1, <2>2
<1> QED BY <1>6 DEF Located, ValidFragment

(* What the code remembers, after a fragment.                              *)
LEMMA TagsStep ==
  ASSUME XaTyped, Tags, Decoding, NextBlock, UNCHANGED <<event, fcombine_ext_frag>>, ValidFragment(Frag),
         fragment_indices' = [fragment_indices EXCEPT ![Frag.board] = @ + 1],
         fcombine_ext_frag => prev_TTT' = TTT(Frag)
  PROVE  Tags'
<1> DEFINE e == Frag
           T == Taken
           a == Append(T, e)
<1>1. Taken' = a /\ T \in Seq(Fragments) /\ e \in Fragments
  BY TakenGrows
<1>2. e.board \in 0 .. NBoards - 1
  BY DEF ValidFragment
<1>3. /\ fragment_indices \in [0 .. NBoards - 1 -> Int]
      /\ \A b \in 0 .. NBoards - 1 :
           /\ fragment_indices[b] >= -1
           /\ fragment_indices[b] = -1 <=> \A i \in DOMAIN T : T[i].board # b
  BY DEF Tags
<1>4. fragment_indices' = [fragment_indices EXCEPT ![e.board] = fragment_indices[e.board] + 1]
  OBVIOUS
<1>5. prev_TTT' = TTT(e) \/ ~fcombine_ext_frag
  OBVIOUS
<1> HIDE DEF e, T
<1>6. /\ DOMAIN a = 1 .. Len(T) + 1 /\ a[Len(T) + 1] = e /\ Len(T) \in Nat /\ Len(a) = Len(T) + 1
      /\ DOMAIN T = 1 .. Len(T) /\ \A i \in 1 .. Len(T) : a[i] = T[i]
  BY <1>1, OneMore
<1> HIDE DEF a
<1>7. fragment_indices' \in [0 .. NBoards - 1 -> Int]
  BY <1>2, <1>3, <1>4
<1>8. ASSUME NEW b \in 0 .. NBoards - 1
      PROVE  /\ fragment_indices'[b] >= -1
             /\ fragment_indices'[b] = -1 <=> \A i \in DOMAIN a : a[i].board # b
  <2>1. CASE b = e.board
    <3>1. fragment_indices'[b] = fragment_indices[b] + 1 /\ fragment_indices[b] \in Int /\ fragment_indices[b] >= -1
      BY <1>3, <1>4, <2>1
    <3>2. Len(T) + 1 \in DOMAIN a /\ a[Len(T) + 1].board = b
      BY <1>6, <2>1
    <3>3. fragment_indices'[b] >= -1 /\ fragment_indices'[b] # -1
      BY <3>1
    <3> QED BY <3>2, <3>3
  <2>2. CASE b # e.board
    <3>1. fragment_indices'[b] = fragment_indices[b]
      BY <1>3, <1>4, <2>2
    <3>2. (\A i \in DOMAIN a : a[i].board # b) <=> (\A i \in DOMAIN T : T[i].board # b)
      <4>1. \A i \in DOMAIN a : i \in DOMAIN T \/ i = Len(T) + 1
        BY <1>6
      <4>2. \A i \in DOMAIN T : i \in DOMAIN a
        BY <1>6
      <4> QED BY <1>6, <2>2, <4>1, <4>2
    <3> QED BY <1>3, <3>1, <3>2
  <2> QED BY <2>1, <2>2
<1>9. a[Len(a)] = e
  BY <1>6
<1> QED BY <1>1, <1>5, <1>7, <1>8, <1>9 DEF Tags, TTT

-----------------------------------------------------------------------------
(* A dumped waveform's samples are put, in the place where they waited.    *)
LEMMA PutDumped ==
  ASSUME NEW ws \in Seq(WaveformType), NEW v \in WaveformType, NEW x \in Seq(Points)
  PROVE  FlattenSeq(Puts(Append(ws, v))) \o x = FlattenSeq(Puts(ws)) \o (v.samples \o x)
<1> DEFINE p == Puts(ws)
           s == v.samples
           a == FlattenSeq(p)
<1>1. p \in Seq(Seq(Points)) /\ Puts(Append(ws, v)) = Append(p, s)
  BY PutsGrow
<1>2. s \in Seq(Points)
  BY DEF WaveformType
<1> HIDE DEF p, s
<1>3. FlattenSeq(Append(p, s)) = a \o s /\ a \in Seq(Points)
  BY <1>1, <1>2, FlattenGrows, Flattened
<1> HIDE DEF a
<1>4. (a \o s) \o x = a \o (s \o x)
  BY <1>2, <1>3, ConcatAssociative
<1> QED BY <1>1, <1>3, <1>4 DEF a, p, s

(* A taken fragment's samples wait.                                        *)
LEMMA PutWaiting ==
  ASSUME NEW d \in Seq(Fragments), NEW e \in Fragments, NEW ws \in Seq(WaveformType), NEW w \in Seq(Points),
         FlattenSeq(Puts(ws)) \o w = FlattenSeq(Cut(d))
  PROVE  FlattenSeq(Puts(ws)) \o (w \o SamplesOf(e)) = FlattenSeq(Cut(Append(d, e)))
<1> DEFINE a == FlattenSeq(Puts(ws))
           s == SamplesOf(e)
           c == Cut(d)
<1>1. a \in Seq(Points)
  <2>1. Puts(ws) \in Seq(Seq(Points))
    <3>1. CASE ws = <<>>
      BY <3>1 DEF Puts
    <3>2. CASE ws # <<>>
      <4> DEFINE v == ws[Len(ws)]
      <4>1. v \in WaveformType
        <5> HIDE DEF WaveformType
        <5> QED BY <3>2
      <4> QED BY <4>1, PutsGrow
    <3> QED BY <3>1, <3>2
  <2> QED BY <2>1, Flattened
<1>2. s \in Seq(Points)
  BY SamplesTyped
<1>3. c \in Seq(Seq(Points)) /\ Cut(Append(d, e)) = Append(c, s)
  BY CutGrows
<1>4. a \o w = FlattenSeq(c)
  OBVIOUS
<1> HIDE DEF a, s, c
<1>5. FlattenSeq(Append(c, s)) = FlattenSeq(c) \o s
  BY <1>2, <1>3, FlattenGrows
<1>6. (a \o w) \o s = a \o (w \o s)
  BY <1>1, <1>2, ConcatAssociative
<1>7. a \o (w \o s) = FlattenSeq(Cut(Append(d, e)))
  BY <1>3, <1>4, <1>5, <1>6
<1> QED BY <1>7 DEF a, s

(* Everything is put, after a fragment.                                    *)
LEMMA AllPutCombined == XaTyped /\ AllPut /\ DecodeFragment => AllPut'
<1> SUFFICES ASSUME XaTyped, AllPut, DecodeFragment PROVE AllPut'
  OBVIOUS
<1> DEFINE e == Frag
           T == Taken
           v == Waveform(Frag.board, first, NominalSamples, wvfms)
           u == Waveform(Frag.board, FirstNow, NominalSamples, Gathered)
           dumps == DumpsBefore(Frag)
           last == block = Len(Group)
           Fl == Flushed
           Ga == Gathered
           s == SamplesOf(e)
<1>1. Taken' = Append(T, e) /\ T \in Seq(Fragments) /\ e \in Fragments
  BY Effect, TakenGrows
<1>2. /\ prod_wvfms \in Seq(WaveformType) /\ wvfms \in Seq(Points) /\ s \in Seq(Points)
      /\ Fl \in Seq(WaveformType) /\ Ga \in Seq(Points)
      /\ v \in WaveformType /\ u \in WaveformType /\ v.samples = wvfms /\ u.samples = Ga
  <2>1. v.samples = wvfms /\ u.samples = Ga
    BY DEF Waveform
  <2> QED BY <2>1, EffectTyped DEF XaTyped
<1>3. /\ Fl = IF dumps THEN Append(prod_wvfms, v) ELSE prod_wvfms
      /\ Ga = (IF dumps THEN <<>> ELSE wvfms) \o s
  BY DEF Flushed, Gathered
<1>4. /\ prod_wvfms' = IF last THEN Append(Fl, u) ELSE Fl
      /\ wvfms' = IF last THEN <<>> ELSE Ga
  BY Effect
<1>5. FlattenSeq(Puts(prod_wvfms)) \o wvfms = FlattenSeq(Cut(T))
  BY DEF AllPut
<1>6. FlattenSeq(Puts(prod_wvfms)) \o (wvfms \o s) = FlattenSeq(Cut(Append(T, e)))
  BY <1>1, <1>2, <1>5, PutWaiting
<1>7. <<>> \in Seq(Points) /\ \A x \in Seq(Points) : <<>> \o x = x /\ x \o <<>> = x
  BY ConcatEmptySeq
<1> HIDE DEF e, T, v, u, dumps, last, Fl, Ga, s
<1>8. FlattenSeq(Puts(Fl)) \o Ga = FlattenSeq(Cut(Append(T, e)))
  <2>1. CASE dumps
    <3>1. FlattenSeq(Puts(Append(prod_wvfms, v))) \o s = FlattenSeq(Puts(prod_wvfms)) \o (wvfms \o s)
      BY <1>2, PutDumped
    <3> QED BY <1>2, <1>3, <1>6, <1>7, <2>1, <3>1
  <2>2. CASE ~dumps
    BY <1>3, <1>6, <2>2
  <2> QED BY <2>1, <2>2
<1>9. FlattenSeq(Puts(prod_wvfms')) \o wvfms' = FlattenSeq(Cut(Append(T, e)))
  <2>1. CASE last
    <3>1. FlattenSeq(Puts(Append(Fl, u))) \o <<>> = FlattenSeq(Puts(Fl)) \o (Ga \o <<>>)
      BY <1>2, <1>7, PutDumped
    <3>2. Ga \o <<>> = Ga
      BY <1>2, <1>7
    <3> QED BY <1>4, <1>8, <2>1, <3>1, <3>2
  <2>2. CASE ~last
    BY <1>4, <1>8, <2>2
  <2> QED BY <2>1, <2>2
<1> QED BY <1>1, <1>9 DEF AllPut, Puts, Cut, SamplesOf, Duration

(* ... and when each is a waveform by itself.                              *)
LEMMA AllPutAlone == XaTyped /\ AllPut /\ Pending /\ DecodeAlone => AllPut'
<1> SUFFICES ASSUME XaTyped, AllPut, Pending, DecodeAlone PROVE AllPut'
  OBVIOUS
<1> DEFINE e == Frag
           T == Taken
           u == Waveform(Frag.board, Own(Frag), Frag.len, SamplesOf(Frag))
           s == SamplesOf(e)
<1>1. Taken' = Append(T, e) /\ T \in Seq(Fragments) /\ e \in Fragments /\ event \in XaEvents
  BY TakenGrows DEF DecodeAlone, XaTyped
<1>2. wvfms = <<>> /\ wvfms' = <<>> /\ prod_wvfms' = Append(prod_wvfms, u) /\ prod_wvfms \in Seq(WaveformType)
  BY DEF DecodeAlone, Pending, XaTyped, Own
<1>3. s \in Seq(Points) /\ u \in WaveformType /\ u.samples = s
  <2>1. s \in Seq(Points)
    BY <1>1, SamplesTyped
  <2>2. Own(e) \in [timestamp : Int, ttt : Int] /\ e.board \in Int /\ e.len \in Nat
    BY <1>1, OwnTyped
  <2> QED BY <1>1, <2>1, <2>2, WaveformTyped
<1>4. <<>> \in Seq(Points) /\ \A x \in Seq(Points) : <<>> \o x = x /\ x \o <<>> = x
  BY ConcatEmptySeq
<1>5. FlattenSeq(Puts(prod_wvfms)) \o <<>> = FlattenSeq(Cut(T))
  BY <1>2 DEF AllPut
<1>6. FlattenSeq(Puts(prod_wvfms)) \o (<<>> \o s) = FlattenSeq(Cut(Append(T, e)))
  BY <1>1, <1>2, <1>4, <1>5, PutWaiting
<1> HIDE DEF e, T, u, s
<1>7. FlattenSeq(Puts(Append(prod_wvfms, u))) \o <<>> = FlattenSeq(Puts(prod_wvfms)) \o (s \o <<>>)
  BY <1>2, <1>3, <1>4, PutDumped
<1>8. s \o <<>> = s /\ <<>> \o s = s
  BY <1>3, <1>4
<1>9. FlattenSeq(Puts(prod_wvfms')) \o wvfms' = FlattenSeq(Cut(Append(T, e)))
  BY <1>2, <1>6, <1>7, <1>8
<1> QED BY <1>1, <1>9 DEF AllPut, Puts, Cut, SamplesOf, Duration

-----------------------------------------------------------------------------
(* What belongs together does not depend on the loops.                     *)
LEMMA WholeNext ==
  ASSUME UNCHANGED <<event, fcombine_ext_frag, factive_timing_frame>>
  PROVE  Whole' <=> (OneByOne => WholeFor(Taken', prod_wvfms', wvfms', first'))
BY DEF Whole, WholeFor, OneByOne, CutOff, ValidFragment, Waits, IsOf, Own, TTT, SamplesOf, Duration, LengthOf,
       ShiftTime, TTTUnix, Timestamp, Beg, Begins, Separate, IsNominal, StartOf

(* Lists one by one: the fragment is of a board that nothing was taken of, *)
(* or of the one before.                                                   *)
LEMMA BoardAtHand ==
  ASSUME XaTyped, Pending, Decoding, ValidFragment(Frag), fcombine_ext_frag, OneByOne
  PROVE  \/ wvfms = <<>> /\ \A i \in DOMAIN Taken : Taken[i].board # Frag.board
         \/ wvfms # <<>> /\ Taken # <<>> /\ Taken[Len(Taken)].board = Frag.board
<1>1. container <= Len(event.groups) /\ Frag \in ToSet(Group)
  BY InGroup DEF Decoding
<1> QED BY <1>1 DEF Pending, NewBoards, SameBoard

(* After decode_fragment, but for the last of a list, and after it.        *)
LEMMA WholeCombined == XaTyped /\ Located /\ Tags /\ Pending /\ Whole /\ DecodeFragment => Whole'
<1> SUFFICES ASSUME XaTyped, Located, Tags, Pending, Whole, DecodeFragment PROVE Whole'
  OBVIOUS
<1> SUFFICES ASSUME OneByOne PROVE WholeFor(Taken', prod_wvfms', wvfms', first')
  <2>1. UNCHANGED <<event, fcombine_ext_frag, factive_timing_frame>>
    BY Effect
  <2> QED BY <2>1, WholeNext
<1> DEFINE e == Frag
           T == Taken
           w == wvfms
           ws == prod_wvfms
           dumps == DumpsBefore(Frag)
<1>1. /\ Decoding /\ NextBlock /\ ValidFragment(e) /\ fcombine_ext_frag
      /\ UNCHANGED event
  BY Effect
<1>2. Taken' = Append(T, e) /\ T \in Seq(Fragments) /\ e \in Fragments /\ event \in XaEvents
  BY <1>1, TakenGrows DEF XaTyped
<1>3. /\ ws \in Seq(WaveformType) /\ w \in Seq(Points) /\ SamplesOf(e) \in Seq(Points)
      /\ Flushed \in Seq(WaveformType) /\ Gathered \in Seq(Points) /\ Gathered # <<>>
      /\ first \in [timestamp : Int, ttt : Int] /\ FirstNow \in [timestamp : Int, ttt : Int]
  BY EffectTyped DEF XaTyped
<1>4. WholeFor(T, ws, w, first)
  BY DEF Whole
<1>5. WholeFor(Append(T, e), Flushed, Gathered, FirstNow)
  <2>1. CASE w = <<>> /\ \A i \in DOMAIN T : T[i].board # e.board
    <3>1. IsFirst(e) /\ ~dumps
      BY <1>1, <2>1 DEF Tags, IsFirst, ValidFragment, DumpsBefore
    <3>2. SamplesOf(e) = <<>> \o SamplesOf(e)
      BY <1>3, ConcatEmptySeq
    <3>3. Flushed = ws /\ Gathered = SamplesOf(e) /\ FirstNow = Own(e)
      BY <2>1, <3>1, <3>2 DEF Flushed, Gathered, FirstNow
    <3>4. T = <<>> \/ T[Len(T)].board # e.board
      BY <1>2, <2>1, OneMore
    <3>5. WholeFor(T, ws, <<>>, first)
      BY <1>4, <2>1
    <3> HIDE DEF e, T, ws
    <3> QED BY <1>1, <1>2, <3>3, <3>4, <3>5, WholeBegun
  <2>2. CASE w # <<>> /\ T # <<>> /\ T[Len(T)].board = e.board
    <3>1. ~IsFirst(e) /\ (dumps <=> Separate(T[Len(T)], e))
      BY <1>1, <1>2, <2>2, DumpsWhenSeparate
    <3>2. CASE dumps
      <4> DEFINE v == Waveform(T[Len(T)].board, first, NominalSamples, w)
      <4>1. Flushed = Append(ws, v) /\ FirstNow = Own(e) /\ Gathered = <<>> \o SamplesOf(e)
        BY <2>2, <3>2 DEF Flushed, FirstNow, Gathered
      <4>2. Gathered = SamplesOf(e)
        BY <1>3, <4>1, ConcatEmptySeq
      <4>3. Separate(T[Len(T)], e)
        BY <3>1, <3>2
      <4> HIDE DEF e, T, ws, w
      <4>4. WholeFor(T, Append(ws, v), <<>>, first)
        BY <1>1, <1>2, <1>3, <1>4, <2>2, WholeDumped
      <4> HIDE DEF v
      <4> QED BY <1>1, <1>2, <4>1, <4>2, <4>3, <4>4, WholeBegun
    <3>3. CASE ~dumps
      <4>1. Flushed = ws /\ FirstNow = first /\ Gathered = w \o SamplesOf(e)
        BY <3>1, <3>3 DEF Flushed, FirstNow, Gathered
      <4>2. ~Separate(T[Len(T)], e)
        BY <3>1, <3>3
      <4> HIDE DEF e, T, ws, w
      <4> QED BY <1>1, <1>2, <1>3, <1>4, <2>2, <4>1, <4>2, WholeContinued
    <3> QED BY <3>2, <3>3
  <2> QED BY <1>1, <2>1, <2>2, BoardAtHand
<1> DEFINE d == Append(T, e)
           Fl == Flushed
           Ga == Gathered
           Fi == FirstNow
           u == Waveform(e.board, Fi, NominalSamples, Ga)
           last == block = Len(Group)
<1>6. first' = Fi /\ prod_wvfms' = (IF last THEN Append(Fl, u) ELSE Fl)
      /\ wvfms' = (IF last THEN <<>> ELSE Ga)
  BY Effect
<1>7. d \in Seq(Fragments) /\ d # <<>> /\ d[Len(d)] = e
  <2> HIDE DEF T, e
  <2> QED BY <1>2, OneMore
<1>8. CASE last
  <2>1. WholeFor(d, Append(Fl, u), <<>>, Fi)
    <3>1. Fl \in Seq(WaveformType) /\ Ga \in Seq(Points) /\ Ga # <<>> /\ Fi \in [timestamp : Int, ttt : Int]
          /\ WholeFor(d, Fl, Ga, Fi)
      BY <1>3, <1>5
    <3>2. u = Waveform(d[Len(d)].board, Fi, NominalSamples, Ga)
      BY <1>7
    <3> HIDE DEF d, Fl, Ga, Fi, u
    <3> QED BY <1>1, <1>2, <1>7, <3>1, <3>2, WholeDumped
  <2> HIDE DEF d, Fl, u, Fi, last
  <2> QED BY <1>2, <1>6, <1>8, <2>1 DEF d
<1>9. CASE ~last
  BY <1>2, <1>5, <1>6, <1>9
<1> QED BY <1>8, <1>9

(* ... and without combining.                                              *)
LEMMA WholeByItself == XaTyped /\ Pending /\ Whole /\ DecodeAlone => Whole'
<1> SUFFICES ASSUME XaTyped, Pending, Whole, DecodeAlone, OneByOne
             PROVE  WholeFor(Taken', prod_wvfms', wvfms', first')
  BY WholeNext DEF DecodeAlone
<1> DEFINE e == Frag
           T == Taken
           ws == prod_wvfms
<1>1. /\ Decoding /\ NextBlock /\ ValidFragment(e) /\ ~fcombine_ext_frag
      /\ UNCHANGED <<event, first>>
      /\ prod_wvfms' = Append(ws, Waveform(e.board, Own(e), e.len, SamplesOf(e)))
  BY DEF DecodeAlone, Own
<1>2. Taken' = Append(T, e) /\ T \in Seq(Fragments) /\ e \in Fragments /\ event \in XaEvents
      /\ ws \in Seq(WaveformType)
  BY <1>1, TakenGrows DEF XaTyped
<1>3. wvfms = <<>> /\ wvfms' = <<>>
  BY <1>1 DEF Pending, DecodeAlone
<1>4. WholeFor(T, ws, <<>>, first)
  BY <1>3 DEF Whole
<1> HIDE DEF e, T, ws
<1> QED BY <1>1, <1>2, <1>3, <1>4, WholeAlone

-----------------------------------------------------------------------------
(* The next list, when nothing waits, or what waits is dropped with a list *)
(* that is cut off.                                                        *)
LEMMA PendingStep ==
  ASSUME XaTyped, XaTyped', Pending, Located', NextBlock, Decoding,
         SkipInvalid \/ DecodeFragment
  PROVE  Pending'
<1>1. UNCHANGED <<event, fcombine_ext_frag>>
  BY Effect DEF SkipInvalid
<1>2. OneByOne' <=> OneByOne
  BY <1>1 DEF OneByOne, CutOff, ValidFragment
<1>3. \/ container' = container /\ block' = block + 1
      \/ container' = container + 1 /\ block' = 1 /\ block = Len(Group)
  BY <1>1, NextPlace
<1>4. /\ container \in DOMAIN event.groups /\ Frag \in ToSet(Group) /\ container \in Int /\ block \in Int
      /\ Group = event.groups[container] /\ Last(Group) = Group[Len(Group)] /\ Frag = Group[block]
  BY InGroup DEF Decoding, Group, Frag, XaTyped
<1>5. (wvfms # <<>> => fcombine_ext_frag)'
  <2>1. CASE SkipInvalid
    BY <2>1 DEF SkipInvalid, Pending
  <2>2. CASE DecodeFragment
    BY <2>2 DEF DecodeFragment
  <2> QED BY <2>1, <2>2
<1> SUFFICES ASSUME fcombine_ext_frag, OneByOne, container' <= Len(event.groups)
             PROVE  (wvfms' = <<>> /\ NewBoards') \/ (wvfms' # <<>> /\ SameBoard')
  BY <1>1, <1>2, <1>5 DEF Pending
<1>6. (wvfms = <<>> /\ NewBoards) \/ (wvfms # <<>> /\ SameBoard)
  BY DEF Pending, Decoding
<1>7. container' = container + 1 /\ block' = 1 => NewBoards'
  <2>1. XaTyped' /\ Located' /\ (container <= Len(event.groups))' /\ (block = 1)' => NewBoards'
    BY NewList, PTL
  <2> QED BY <1>1, <2>1
<1>8. CASE SkipInvalid
  <2>1. wvfms' = wvfms /\ Taken' = Taken /\ ~ValidFragment(Frag)
    BY <1>1, <1>8, TakenGrows DEF SkipInvalid
  <2>2. CASE container' = container
    <3>1. Group' = Group
      BY <1>1, <2>2 DEF Group
    <3> QED BY <1>6, <2>1, <3>1 DEF NewBoards, SameBoard, ValidFragment
  <2>3. CASE container' = container + 1 /\ block' = 1 /\ block = Len(Group)
    <3>1. wvfms = <<>>
      <4> SUFFICES ASSUME wvfms # <<>> PROVE FALSE
        OBVIOUS
      <4>1. CutOff(Group)
        BY <1>4, <1>6, <2>1, <2>3 DEF SameBoard, CutOff
      <4>2. container = Len(event.groups)
        BY <1>4, <4>1 DEF OneByOne
      <4> QED BY <1>4, <2>3, <4>2
    <3> QED BY <1>7, <2>1, <2>3, <3>1
  <2> QED BY <1>3, <2>2, <2>3
<1>9. CASE DecodeFragment
  <2>1. /\ wvfms' = IF block = Len(Group) THEN <<>> ELSE Gathered
        /\ Gathered # <<>> /\ ValidFragment(Frag)
    BY <1>9, Effect, EffectTyped
  <2>2. CASE block = Len(Group)
    <3>1. container' = container + 1 /\ block' = 1
      BY <2>2 DEF NextBlock
    <3> QED BY <1>7, <2>1, <2>2, <3>1
  <2>3. CASE block # Len(Group)
    <3>1. container' = container /\ Group' = Group
      BY <1>1, <1>3, <2>3 DEF Group
    <3>2. Taken' = Append(Taken, Frag) /\ Taken \in Seq(Fragments) /\ Frag \in Fragments
      BY <1>1, <2>1, TakenGrows
    <3>3. Taken' # <<>> /\ Taken'[Len(Taken')] = Frag
      BY <3>2, OneMore
    <3>4. \A f \in ToSet(Group) : ValidFragment(f) => f.board = Frag.board
      BY <1>4, <2>1 DEF OneByOne
    <3>5. SameBoard'
      BY <1>4, <2>1, <3>1, <3>3, <3>4 DEF SameBoard, ValidFragment
    <3> QED BY <2>1, <2>3, <3>5
  <2> QED BY <2>2, <2>3
<1> QED BY <1>8, <1>9

(* What waits after a turn is of this list, or of one that was cut off.    *)
LEMMA LeftoverStep ==
  ASSUME XaTyped, Leftover, NextBlock, Decoding, SkipInvalid \/ DecodeFragment
  PROVE  Leftover'
<1>1. UNCHANGED <<event, fcombine_ext_frag>>
  BY Effect DEF SkipInvalid
<1>2. \/ container' = container /\ block' = block + 1
      \/ container' = container + 1 /\ block' = 1 /\ block = Len(Group)
  BY <1>1, NextPlace
<1>3. /\ container \in DOMAIN event.groups /\ container \in Int /\ block \in Int
      /\ Group = event.groups[container] /\ Last(Group) = Group[Len(Group)] /\ Frag = Group[block]
      /\ block \in 1 .. Len(Group) /\ Len(Group) \in Nat /\ DOMAIN Group = 1 .. Len(Group)
  BY InGroup DEF Decoding, Group, Frag, XaTyped
<1>4. (\E g \in DOMAIN event.groups : CutOff(event.groups[g]))
        => (\E g \in DOMAIN event.groups : CutOff(event.groups[g]))'
  BY <1>1 DEF CutOff, ValidFragment
<1> SUFFICES ASSUME wvfms' # <<>>, ~\E g \in DOMAIN event.groups : CutOff(event.groups[g])
             PROVE  (container <= Len(event.groups) /\ \E k \in 1 .. block - 1 : ValidFragment(Group[k]))'
  BY <1>4 DEF Leftover
<1>5. CASE SkipInvalid
  <2>1. wvfms' = wvfms /\ ~ValidFragment(Frag)
    BY <1>5 DEF SkipInvalid
  <2>2. PICK k \in 1 .. block - 1 : ValidFragment(Group[k])
    BY <2>1 DEF Leftover
  <2>3. k \in DOMAIN Group
    BY <1>3
  <2>4. block # Len(Group)
    <3> SUFFICES ASSUME block = Len(Group) PROVE FALSE
      OBVIOUS
    <3>1. Group[k] \in ToSet(Group)
      BY <2>3 DEF ToSet
    <3>2. CutOff(Group)
      BY <1>3, <2>1, <2>2, <3>1 DEF CutOff
    <3> QED BY <1>3, <3>2
  <2>5. container' = container /\ block' = block + 1 /\ Group' = Group
    BY <1>1, <1>2, <2>4 DEF Group
  <2>6. k \in 1 .. block' - 1
    BY <1>3, <2>5
  <2> QED BY <1>1, <2>2, <2>5, <2>6 DEF Decoding, ValidFragment
<1>6. CASE DecodeFragment
  <2>1. wvfms' = (IF block = Len(Group) THEN <<>> ELSE Gathered) /\ ValidFragment(Frag)
    BY <1>6, Effect
  <2>2. container' = container /\ block' = block + 1 /\ Group' = Group
    BY <1>1, <1>2, <2>1 DEF Group
  <2>3. block \in 1 .. block' - 1
    BY <1>3, <2>2
  <2> QED BY <1>1, <1>3, <2>1, <2>2, <2>3 DEF Decoding, ValidFragment
<1> QED BY <1>5, <1>6

-----------------------------------------------------------------------------
(* The loops and the members decide everything.                            *)
LEMMA XaUnchanged ==
  ASSUME XaInv, UNCHANGED <<event, fcombine_ext_frag, factive_timing_frame, loopVars>>
  PROVE  XaInv'
<1>1. /\ Taken' = Taken /\ Group' = Group
      /\ UNCHANGED <<container, block, fragment_indices, wvfms, first, prev_TTT, prod_wvfms>>
  BY DEF loopVars, Taken, Valid, ValidFragment, Group
<1>2. AllPut'
  BY <1>1 DEF XaInv, AllPut, Puts, Cut, SamplesOf, Duration
<1>3. Located'
  BY <1>1 DEF XaInv, Located, ValidFragment
<1>4. Tags'
  BY <1>1 DEF XaInv, Tags, TTT
<1>5. OneByOne' <=> OneByOne
  BY DEF OneByOne, CutOff, ValidFragment
<1>6. Pending'
  BY <1>1, <1>5 DEF XaInv, Pending, NewBoards, SameBoard, ValidFragment
<1>7. Leftover'
  BY <1>1 DEF XaInv, Leftover, CutOff, ValidFragment
<1>8. Whole'
  BY <1>1, WholeNext DEF XaInv, Whole
<1> QED BY <1>2, <1>3, <1>4, <1>6, <1>7, <1>8 DEF XaInv

(* The invariant holds at first ...                                        *)
LEMMA XaInit == Init => XaTyped /\ XaInv
<1> SUFFICES ASSUME Init PROVE XaTyped /\ XaInv
  OBVIOUS
<1>1. event \in XaEvents /\ Fresh
  BY DEF Init, Fresh
<1>2. Len(event.groups) \in Nat /\ (1 <= Len(event.groups) => 1 \in 1 .. Len(Group))
  <2>1. event.groups \in Seq(Seq(Fragments)) /\ Len(event.groups) \in Nat
        /\ \A g \in DOMAIN event.groups : Len(event.groups[g]) \in Nat \ {0}
    BY <1>1, GroupsTyped
  <2>2. 1 <= Len(event.groups) => 1 \in DOMAIN event.groups
    BY <2>1
  <2>3. Group = event.groups[1]
    BY <1>1 DEF Group, Fresh
  <2> QED BY <2>1, <2>2, <2>3
<1>3. XaTyped
  <2>1. first \in [timestamp : Int, ttt : Int] /\ wvfms \in Seq(Points) /\ prod_wvfms \in Seq(WaveformType)
    BY DEF Init, NoFragment
  <2> QED BY <1>1, <1>2, <2>1 DEF Init, XaTyped, Fresh
<1> QED BY <1>1, <1>3, FreshInv

(* ... and is kept by every step.                                          *)
LEMMA XaStep == XaTyped /\ XaInv /\ [Next]_vars => XaTyped' /\ XaInv'
<1> SUFFICES ASSUME XaTyped, XaInv, [Next]_vars PROVE XaTyped' /\ XaInv'
  OBVIOUS
<1>1. XaTyped'
  BY XaTypes
<1>2. (event \in XaEvents)' /\ Fresh' => XaInv'
  BY FreshInv, PTL
<1>3. CASE NoFrameShift
  BY <1>1, <1>2, <1>3 DEF NoFrameShift, XaTyped
<1>4. CASE BeginEvent
  <2>1. Fresh /\ UNCHANGED <<event, loopVars>>
    BY <1>4 DEF BeginEvent, XaTyped
  <2>2. Fresh' /\ event' \in XaEvents
    BY <2>1 DEF Fresh, loopVars, XaTyped
  <2> QED BY <1>1, <1>2, <2>2
<1>5. CASE NextEvent
  <2>1. Fresh' /\ event' \in XaEvents
    BY <1>5 DEF NextEvent, Fresh, NoIndices
  <2> QED BY <1>1, <1>2, <2>1
<1>6. CASE SkipInvalid
  <2>1. /\ Decoding /\ NextBlock /\ ~ValidFragment(Frag)
        /\ UNCHANGED <<event, fcombine_ext_frag, factive_timing_frame>>
        /\ UNCHANGED <<fragment_indices, wvfms, first, prev_TTT, prod_wvfms>>
    BY <1>6 DEF SkipInvalid
  <2>2. Taken' = Taken
    BY <2>1, TakenGrows
  <2>3. AllPut'
    BY <2>1, <2>2 DEF XaInv, AllPut, Puts, Cut, SamplesOf, Duration
  <2>4. Located'
    BY <2>1, LocatedStep DEF XaInv
  <2>5. Tags'
    BY <2>1, <2>2 DEF XaInv, Tags, TTT
  <2>6. Pending' /\ Leftover'
    BY <1>1, <1>6, <2>1, <2>4, PendingStep, LeftoverStep DEF XaInv
  <2>7. Whole'
    BY <2>1, <2>2, WholeNext DEF XaInv, Whole
  <2> QED BY <1>1, <2>3, <2>4, <2>5, <2>6, <2>7 DEF XaInv
<1>7. CASE DecodeFragment
  <2>1. /\ Decoding /\ NextBlock /\ ValidFragment(Frag)
        /\ UNCHANGED <<event, fcombine_ext_frag>>
        /\ fragment_indices' = [fragment_indices EXCEPT ![Frag.board] = @ + 1]
        /\ prev_TTT' = TTT(Frag)
    BY <1>7, Effect
  <2>2. AllPut'
    BY <1>7, AllPutCombined DEF XaInv
  <2>3. Located'
    BY <2>1, LocatedStep DEF XaInv
  <2>4. Tags'
    BY <2>1, TagsStep DEF XaInv
  <2>5. Pending' /\ Leftover'
    BY <1>1, <1>7, <2>1, <2>3, PendingStep, LeftoverStep DEF XaInv
  <2>6. Whole'
    BY <1>7, WholeCombined DEF XaInv
  <2> QED BY <1>1, <2>2, <2>3, <2>4, <2>5, <2>6 DEF XaInv
<1>8. CASE DecodeAlone
  <2>1. /\ Decoding /\ NextBlock /\ ValidFragment(Frag) /\ ~fcombine_ext_frag
        /\ UNCHANGED <<event, fcombine_ext_frag, wvfms>>
        /\ fragment_indices' = [fragment_indices EXCEPT ![Frag.board] = @ + 1]
    BY <1>8 DEF DecodeAlone
  <2>2. AllPut'
    BY <1>8, AllPutAlone DEF XaInv
  <2>3. Located'
    BY <2>1, LocatedStep DEF XaInv
  <2>4. Tags'
    BY <2>1, TagsStep DEF XaInv
  <2>5. Pending' /\ Leftover'
    BY <2>1 DEF XaInv, Pending, Leftover
  <2>6. Whole'
    BY <1>8, WholeByItself DEF XaInv
  <2> QED BY <1>1, <2>2, <2>3, <2>4, <2>5, <2>6 DEF XaInv
<1>9. CASE PutProducts
  BY <1>1, <1>9, XaUnchanged DEF PutProducts
<1>10. CASE UNCHANGED vars
  BY <1>1, <1>10, XaUnchanged DEF vars
<1> QED BY <1>3, <1>4, <1>5, <1>6, <1>7, <1>8, <1>9, <1>10 DEF Next

-----------------------------------------------------------------------------
(* At the end all fragments were taken.                                    *)
LEMMA AllTaken ==
  ASSUME XaTyped, stage = "done"
  PROVE  /\ Taken = Decoded /\ Decoded \in Seq(Fragments) /\ Beg(Taken) = Beginning
         /\ ~(container <= Len(event.groups))
<1>1. event.groups \in Seq(Seq(Fragments)) /\ Len(event.groups) \in Nat
  BY GroupsTyped DEF XaTyped
<1>2. container = Len(event.groups) + 1 /\ block = 1 /\ ~(container <= Len(event.groups))
  BY <1>1 DEF XaTyped
<1>3. Taken = Decoded
  BY <1>1, <1>2, UpToEnds DEF Taken, Decoded
<1>4. Decoded \in Seq(Fragments)
  <2> DEFINE s == FlattenSeq(event.groups)
  <2>1. s \in Seq(Fragments)
    BY <1>1, Flattened
  <2>2. PICK e \in Fragments : TRUE
    <3>1. [board |-> 0, len |-> 1, end |-> 0, post |-> 0] \in Fragments
      BY SecondPositive DEF Fragments
    <3> QED BY <3>1
  <2> HIDE DEF s
  <2>3. Valid(s) \in Seq(Fragments)
    BY <2>1, <2>2, ValidGrows
  <2> QED BY <2>3 DEF Decoded, s
<1>5. Beg(Taken) = Beginning
  BY <1>3 DEF Beg, Begins, Beginning
<1> QED BY <1>2, <1>3, <1>4, <1>5

(* Every sample of a valid fragment is put once and in order, or was left  *)
(* by a list that is cut off; lists one by one give the waveforms of the   *)
(* fragments that begin one.                                               *)
THEOREM SamplesAreCombined == Spec => []SamplesCombined
<1>1. XaTyped /\ XaInv => SamplesCombined
  <2> SUFFICES ASSUME XaTyped, XaInv, stage = "done"
               PROVE  SamplesCombined
    BY DEF SamplesCombined
  <2> DEFINE d == Decoded
  <2>1. Taken = d /\ Beg(d) = Beginning /\ ~(container <= Len(event.groups)) /\ d \in Seq(Fragments)
    BY AllTaken
  <2>2. FlattenSeq([i \in DOMAIN prod_wvfms |-> prod_wvfms[i].samples]) \o wvfms
          = FlattenSeq([i \in DOMAIN Decoded |-> SamplesOf(Decoded[i])])
    BY <2>1 DEF XaInv, AllPut, Puts, Cut
  <2>3. wvfms # <<>> => fcombine_ext_frag /\ \E g \in ToSet(event.groups) : CutOff(g)
    BY <2>1 DEF XaInv, Pending, Leftover, ToSet
  <2>4. ASSUME OneByOne
        PROVE  {<<w.board, w.samples[1]>> : w \in ToSet(prod_wvfms)}
                   \cup (IF wvfms = <<>> THEN {} ELSE {<<Last(Decoded).board, wvfms[1]>>})
                 = {<<Decoded[i].board, SamplesOf(Decoded[i])[1]>> : i \in Beginning}
    <3>1. WholeFor(d, prod_wvfms, wvfms, first)
      BY <2>1, <2>4 DEF XaInv, Whole
    <3>2. ASSUME NEW w \in ToSet(prod_wvfms)
          PROVE  \E i \in Beginning : <<w.board, w.samples[1]>> = <<d[i].board, SamplesOf(d[i])[1]>>
      BY <2>1, <3>1 DEF WholeFor, IsOf
    <3>3. ASSUME wvfms # <<>>
          PROVE  \E i \in Beginning : <<Last(d).board, wvfms[1]>> = <<d[i].board, SamplesOf(d[i])[1]>>
      BY <2>1, <3>1, <3>3 DEF WholeFor, Waits, Last
    <3>4. ASSUME NEW i \in Beginning
          PROVE  \/ \E w \in ToSet(prod_wvfms) :
                      <<w.board, w.samples[1]>> = <<d[i].board, SamplesOf(d[i])[1]>>
                 \/ wvfms # <<>> /\ <<Last(d).board, wvfms[1]>> = <<d[i].board, SamplesOf(d[i])[1]>>
      <4>1. Waits(d[i], d, wvfms, first) \/ \E v \in ToSet(prod_wvfms) : IsOf(v, d[i])
        BY <2>1, <3>1 DEF WholeFor
      <4> QED BY <4>1 DEF Waits, IsOf, Last
    <3> QED BY <3>2, <3>3, <3>4
  <2> QED BY <2>2, <2>3, <2>4 DEF SamplesCombined
<1> QED BY <1>1, XaInit, XaStep, PTL DEF Spec

(* The tag and the timestamp of a fragment give its end.                   *)
LEMMA EndOf ==
  ASSUME NEW f \in Fragments
  PROVE  TTTUnix(Own(f)) = f.end
<1> DEFINE b == f.end
           a == f.end - f.post
<1>1. b \in Nat /\ a \in Nat /\ b - a \in 0 .. Second - 1 /\ Second \in Nat \ {0}
  BY SecondPositive DEF Fragments
<1>2. Own(f).timestamp = a /\ Own(f).ttt = b % Second
  BY DEF Own, TTT
<1> HIDE DEF a, b
<1>3. b - a = (b % Second) - (a % Second) + (IF a % Second > b % Second THEN Second ELSE 0)
  BY <1>1, TagsDiffer
<1> DEFINE p == a \div Second
           r == a % Second
           s == b % Second
<1>4. p \in Int /\ r \in Int /\ s \in Int /\ a = p * Second + r /\ p * Second \in Int
  BY <1>1
<1>5. TTTUnix(Own(f)) = IF r > s THEN (p + 1) * Second + s ELSE p * Second + s
  BY <1>2 DEF TTTUnix
<1>6. b - a = s - r + (IF r > s THEN Second ELSE 0)
  BY <1>3
<1> HIDE DEF p, r, s
<1>7. (p + 1) * Second = p * Second + Second
  BY <1>1, <1>4
<1>8. TTTUnix(Own(f)) = b
  <2>1. CASE r > s
    BY <1>1, <1>4, <1>5, <1>6, <1>7, <2>1
  <2>2. CASE ~(r > s)
    BY <1>1, <1>4, <1>5, <1>6, <2>2
  <2> QED BY <2>1, <2>2
<1> QED BY <1>8 DEF b

(* The time of a waveform is that of the trigger's first sample, relative  *)
(* to the event's frame, within a second or, after an event with a frame,  *)
(* absolute.                                                               *)
THEOREM TimesAreOfTriggers == Spec => []WaveformTimes
<1>1. XaTyped /\ XaInv => WaveformTimes
  <2> SUFFICES ASSUME XaTyped, XaInv, stage = "done", OneByOne, NEW w \in ToSet(prod_wvfms)
               PROVE  \E i \in Beginning :
                        LET f == Decoded[i]
                            t == f.end - Duration(IF fcombine_ext_frag THEN NominalSamples ELSE f.len)
                        IN /\ w.samples[1] = SamplesOf(f)[1]
                           /\ w.time = CASE timingRef # "caen" -> t - event.ref
                                         [] timingRef = "caen" /\ factive_timing_frame = "frameshift" -> t
                                         [] OTHER -> t % Second
    BY DEF WaveformTimes
  <2>1. Taken = Decoded /\ Beg(Taken) = Beginning /\ Decoded \in Seq(Fragments)
    BY AllTaken
  <2>2. PICK i \in Beginning : IsOf(w, Decoded[i])
    BY <2>1 DEF XaInv, Whole, WholeFor
  <2> DEFINE f == Decoded[i]
             n == LengthOf(f)
             D == Duration(n)
             t == f.end - D
  <2>3. f \in Fragments
    BY <2>1 DEF Beginning
  <2>4. f.end \in Int /\ D \in Int /\ event \in XaEvents
    <3>1. f.end \in Nat /\ f.len \in Nat
      BY <2>3, OwnTyped
    <3>2. n \in Nat
      BY <3>1, XaAssumption DEF LengthOf
    <3> QED BY <3>1, <3>2, XaAssumption DEF Duration, XaTyped
  <2>5. w.samples[1] = SamplesOf(f)[1] /\ w.time = ShiftTime(Own(f), n)
    BY <2>2 DEF IsOf
  <2>6. ShiftTime(Own(f), n)
          = IF factive_timing_frame = "frameshift" THEN f.end - Timestamp - D ELSE (f.end - D) % Second
    BY <2>3, EndOf DEF ShiftTime
  <2>7. FrameKnown /\ event.frame # "caen" /\ event.ref \in Int
    BY <2>4, RecordsAssumption DEF XaTyped
  <2>8. CASE timingRef # "caen"
    <3>1. factive_timing_frame = "frameshift" /\ Timestamp = event.ref
      BY <2>7, <2>8 DEF FrameKnown, Timestamp
    <3>2. w.time = f.end - event.ref - D
      BY <2>5, <2>6, <3>1
    <3>3. f.end - event.ref - D = t - event.ref
      <4> DEFINE x == f.end
                 z == event.ref
      <4> HIDE DEF x, z, D
      <4>1. x \in Int /\ z \in Int /\ D \in Int
        BY <2>4, <2>7 DEF x, z
      <4>2. x - z - D = (x - D) - z
        BY <4>1
      <4> QED BY <4>2 DEF x, z
    <3>4. n = IF fcombine_ext_frag THEN NominalSamples ELSE f.len
      BY DEF LengthOf
    <3>5. w.time = t - event.ref
      BY <3>2, <3>3
    <3> HIDE DEF n
    <3> QED BY <2>5, <2>8, <3>4, <3>5
  <2>9. CASE timingRef = "caen"
    <3>1. Timestamp = 0
      BY <2>7, <2>9 DEF FrameKnown, Timestamp
    <3>2. f.end - 0 = f.end
      BY <2>4
    <3>3. w.time = IF factive_timing_frame = "frameshift" THEN t ELSE t % Second
      BY <2>5, <2>6, <3>1, <3>2
    <3>4. n = IF fcombine_ext_frag THEN NominalSamples ELSE f.len
      BY DEF LengthOf
    <3> HIDE DEF n
    <3> QED BY <2>5, <2>9, <3>3, <3>4
  <2> QED BY <2>8, <2>9
<1> QED BY <1>1, XaInit, XaStep, PTL DEF Spec
=============================================================================
