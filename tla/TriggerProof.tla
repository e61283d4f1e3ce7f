---------------------------- MODULE TriggerProof ----------------------------
(***************************************************************************)
(* Proofs about opDetSBNDTriggerAlg, for every waveform, configuration and *)
(* number of channels. The invariant of the scan (ScanInv) relates its     *)
(* deadtime counter to the trigger found latest, of whichever kind, and    *)
(* each range found to the samples it was found on; that of the merge      *)
(* (MergeInv) the primitives kept to those that overlap the one at hand.   *)
(* From them follow the order and the spacing of the triggers, that no     *)
(* pulse of a live channel is lost, and that no trigger is of another      *)
(* event. The invariants of the cut (CutTyped, CutSized, CutCovers) and    *)
(* the way from a pulse to its readout are in the second half.             *)
(***************************************************************************)
EXTENDS TriggerAlg, FoldLemmas

(* The times of the samples are in order, a period apart.                  *)
LEMMA TimesInOrder ==
  /\ \A k \in Int : TimeOf(k) \in Int /\ TimeOf(k + 1) = TimeOf(k) + Period
  /\ \A j, k \in Int : j < k <=> TimeOf(j) < TimeOf(k)
  /\ \A j, k \in Int : j < k <=> TimeOf(j) + Period <= TimeOf(k)
<1>1. WfmStart \in Int /\ Period \in Nat /\ Period > 0
  BY TriggerAssumption
<1>2. ASSUME NEW j \in Int, NEW k \in Int, j < k PROVE (j + 1) * Period <= k * Period
  BY <1>1, <1>2
<1>3. \A j, k \in Int : j < k => TimeOf(j) + Period <= TimeOf(k)
  <2> SUFFICES ASSUME NEW j \in Int, NEW k \in Int, j < k PROVE TimeOf(j) + Period <= TimeOf(k)
    OBVIOUS
  <2>1. (j + 1) * Period = j * Period + Period
    BY <1>1
  <2> QED BY <1>1, <1>2, <2>1 DEF TimeOf
<1>4. \A k \in Int : TimeOf(k) \in Int /\ TimeOf(k + 1) = TimeOf(k) + Period
  <2> SUFFICES ASSUME NEW k \in Int PROVE TimeOf(k) \in Int /\ TimeOf(k + 1) = TimeOf(k) + Period
    OBVIOUS
  <2>1. (k + 1) * Period = k * Period + Period
    BY <1>1
  <2> QED BY <1>1, <2>1 DEF TimeOf
<1>5. \A j, k \in Int : ~(j < k) => ~(TimeOf(j) < TimeOf(k))
  <2> SUFFICES ASSUME NEW j \in Int, NEW k \in Int, ~(j < k) PROVE ~(TimeOf(j) < TimeOf(k))
    OBVIOUS
  <2>1. CASE j = k
    BY <2>1, <1>4
  <2>2. CASE k < j
    BY <2>2, <1>1, <1>3, <1>4
  <2> QED BY <2>1, <2>2
<1>6. \A j, k \in Int : ~(j < k) => ~(TimeOf(j) + Period <= TimeOf(k))
  BY <1>1, <1>4, <1>5
<1>7. \A j, k \in Int : j < k => TimeOf(j) < TimeOf(k)
  BY <1>1, <1>3, <1>4
<1> QED BY <1>3, <1>4, <1>5, <1>6, <1>7

(* The first sample that is scanned is one, or the one past the last; the  *)
(* last is one, or comes before the first.                                 *)
LEMMA ScanEnds ==
  ASSUME fConfig \in Configs
  PROVE  StartI \in Nat /\ EndI \in Int /\ EndI < NSamples
<1>1. /\ WfmStart \in Int /\ Period \in Nat /\ Period > 0 /\ NSamples \in Nat
      /\ fConfig.WinStart \in Int /\ fConfig.WinEnd \in Int
  BY TriggerAssumption DEF ConfigType
<1>2. ASSUME NEW a \in Int PROVE a \div Period \in Int /\ (a >= 0 => a \div Period >= 0)
  BY <1>1
<1>3. StartI \in Nat
  <2>1. CASE WfmStart > fConfig.WinStart
    BY <2>1 DEF StartI
  <2>2. CASE ~(WfmStart > fConfig.WinStart)
    <3> DEFINE q == (fConfig.WinStart - WfmStart) \div Period
    <3>1. q \in Nat
      BY <1>1, <1>2, <2>2
    <3> QED BY <2>2, <3>1 DEF StartI
  <2> QED BY <2>1, <2>2
<1> DEFINE e == (fConfig.WinEnd - WfmStart) \div Period
           end_i == IF TimeOf(NSamples - 1) < fConfig.WinEnd THEN NSamples - 1 ELSE e
<1>4. end_i \in Int /\ end_i < NSamples
  <2>1. CASE TimeOf(NSamples - 1) < fConfig.WinEnd
    BY <1>1, <2>1
  <2>2. CASE ~(TimeOf(NSamples - 1) < fConfig.WinEnd)
    <3>1. fConfig.WinEnd - WfmStart <= (NSamples - 1) * Period
      BY <1>1, <2>2 DEF TimeOf
    <3>2. ASSUME NEW a \in Int, NEW m \in Int, a <= m * Period PROVE a \div Period <= m
      <4>1. a \div Period \in Int /\ (a \div Period) * Period <= a
        BY <1>1
      <4>2. ASSUME a \div Period >= m + 1 PROVE (a \div Period) * Period >= (m + 1) * Period
        BY <1>1, <4>1, <4>2
      <4>3. (m + 1) * Period = m * Period + Period
        BY <1>1
      <4> QED BY <1>1, <3>2, <4>1, <4>2, <4>3
    <3>3. e <= NSamples - 1
      BY <1>1, <3>1, <3>2
    <3>4. e \in Int
      BY <1>1, <1>2
    <3> HIDE DEF e
    <3> QED BY <1>1, <2>2, <3>3, <3>4
  <2> QED BY <2>1, <2>2
<1>5. EndI = IF IsTriggerEnabled(TimeOf(end_i + 1)) /\ end_i + 1 < NSamples THEN end_i + 1 ELSE end_i
  BY DEF EndI
<1> HIDE DEF end_i
<1> QED BY <1>1, <1>3, <1>4, <1>5

-----------------------------------------------------------------------------
(* A range is of two times, in order; the lists of them are by start.      *)
Ranges == {L \in Int \X Int : L[1] <= L[2]}
ByStart(s) == \A j, k \in DOMAIN s : j < k => s[j][1] <= s[k][1]

(* AddTriggerLocation adds the range, and keeps the order.                 *)
LEMMA LocationAdded ==
  ASSUME NEW s \in Seq(Ranges), ByStart(s), NEW L \in Ranges
  PROVE  /\ AddTriggerLocation(s, L) \in Seq(Ranges)
         /\ ByStart(AddTriggerLocation(s, L))
         /\ ToSet(AddTriggerLocation(s, L)) = ToSet(s) \cup {L}
<1> DEFINE key == [R \in Ranges |-> R[1]]
           A == {k \in DOMAIN s : s[k][1] < L[1]}
           B == {k \in DOMAIN s : key[s[k]] < key[L]}
           c == Cardinality(A)
<1>1. key \in [Ranges -> Int]
  BY DEF Ranges
<1>2. \A t \in Seq(Ranges) : \A k \in DOMAIN t : t[k] \in Ranges /\ key[t[k]] = t[k][1]
  OBVIOUS
<1>3. A = B /\ key[L] = L[1]
  BY <1>2
<1>4. \A t \in Seq(Ranges) : NonDecreasing(key, t) <=> ByStart(t)
  BY <1>2 DEF NonDecreasing, ByStart
<1>5. AddTriggerLocation(s, L) = InsertAt(s, c + 1, L)
  BY DEF AddTriggerLocation
<1>6. c = Below(key, s, key[L])
  <2>1. c = Cardinality(B)
    <3> HIDE DEF A, B
    <3> QED BY <1>3
  <2> QED BY <2>1 DEF Below
<1> HIDE DEF key, c
<1>7. /\ InsertAt(s, c + 1, L) \in Seq(Ranges)
      /\ NonDecreasing(key, InsertAt(s, c + 1, L))
      /\ ToSet(InsertAt(s, c + 1, L)) = ToSet(s) \cup {L}
  <2>1. NonDecreasing(key, s) /\ key[L] \in Int /\ Beside(key[L], key[L])
    BY <1>1, <1>4 DEF Beside
  <2> QED BY <1>1, <1>6, <2>1, InsertedInOrder
<1> QED BY <1>4, <1>5, <1>7

-----------------------------------------------------------------------------
(* The primitives of the channels, by start and by finish.                 *)
Primitives == [start : Int, finish : Int, channel : Channels]
StartsOf(s)   == \A j, k \in DOMAIN s : j < k => s[j].start <= s[k].start
FinishesOf(s) == \A j, k \in DOMAIN s : j < k => s[j].finish <= s[k].finish

(* AddTriggerPrimitive and AddTriggerPrimitiveFinish add the primitive and *)
(* keep their order.                                                       *)
LEMMA PrimitiveAdded ==
  ASSUME NEW s \in Seq(Primitives), StartsOf(s), NEW p \in Primitives
  PROVE  /\ AddTriggerPrimitive(s, p) \in Seq(Primitives)
         /\ StartsOf(AddTriggerPrimitive(s, p))
         /\ ToSet(AddTriggerPrimitive(s, p)) = ToSet(s) \cup {p}
<1> DEFINE key == [q \in Primitives |-> q.start]
           A == {k \in DOMAIN s : s[k].start < p.start}
           B == {k \in DOMAIN s : key[s[k]] < key[p]}
           c == Cardinality(A)
<1>1. key \in [Primitives -> Int]
  BY DEF Primitives
<1>2. \A t \in Seq(Primitives) : \A k \in DOMAIN t : t[k] \in Primitives /\ key[t[k]] = t[k].start
  OBVIOUS
<1>3. A = B /\ key[p] = p.start
  BY <1>2
<1>4. \A t \in Seq(Primitives) : NonDecreasing(key, t) <=> StartsOf(t)
  BY <1>2 DEF NonDecreasing, StartsOf
<1>5. AddTriggerPrimitive(s, p) = InsertAt(s, c + 1, p)
  BY DEF AddTriggerPrimitive
<1>6. c = Below(key, s, key[p])
  <2>1. c = Cardinality(B)
    <3> HIDE DEF A, B
    <3> QED BY <1>3
  <2> QED BY <2>1 DEF Below
<1> HIDE DEF key, c
<1>7. /\ InsertAt(s, c + 1, p) \in Seq(Primitives)
      /\ NonDecreasing(key, InsertAt(s, c + 1, p))
      /\ ToSet(InsertAt(s, c + 1, p)) = ToSet(s) \cup {p}
  <2>1. NonDecreasing(key, s) /\ key[p] \in Int /\ Beside(key[p], key[p])
    BY <1>1, <1>4 DEF Beside
  <2> QED BY <1>1, <1>6, <2>1, InsertedInOrder
<1> QED BY <1>4, <1>5, <1>7

(* AddTriggerPrimitiveFinish adds the primitive, and keeps the list in the *)
(* order of the finishes.                                                  *)
LEMMA FinishAdded ==
  ASSUME NEW s \in Seq(Primitives), FinishesOf(s), NEW p \in Primitives
  PROVE  /\ AddTriggerPrimitiveFinish(s, p) \in Seq(Primitives)
         /\ FinishesOf(AddTriggerPrimitiveFinish(s, p))
         /\ Len(AddTriggerPrimitiveFinish(s, p)) = Len(s) + 1
         /\ \E k \in 1 .. Len(s) + 1 : AddTriggerPrimitiveFinish(s, p)[k] = p
<1> DEFINE key == [q \in Primitives |-> q.finish]
           A == {k \in DOMAIN s : s[k].finish <= p.finish}
           B == {k \in DOMAIN s : key[s[k]] < key[p] + 1}
           c == Cardinality(A)
<1>1. key \in [Primitives -> Int]
  BY DEF Primitives
<1>2. \A t \in Seq(Primitives) : \A k \in DOMAIN t : /\ t[k] \in Primitives /\ t[k].finish \in Int
                                                     /\ key[t[k]] = t[k].finish
  <2>1. \A q \in Primitives : q.finish \in Int /\ key[q] = q.finish
    BY DEF Primitives
  <2> HIDE DEF key
  <2> QED BY <2>1
<1>3. A = B /\ key[p] = p.finish
  BY <1>1, <1>2
<1>4. \A t \in Seq(Primitives) : NonDecreasing(key, t) <=> FinishesOf(t)
  BY <1>2 DEF NonDecreasing, FinishesOf
<1>5. AddTriggerPrimitiveFinish(s, p) = InsertAt(s, c + 1, p)
  BY DEF AddTriggerPrimitiveFinish
<1>6. c = Below(key, s, key[p] + 1)
  <2>1. c = Cardinality(B)
    <3> HIDE DEF A, B
    <3> QED BY <1>3
  <2> QED BY <2>1 DEF Below
<1> HIDE DEF key, c
<1>7. /\ c \in 0 .. Len(s)
      /\ InsertAt(s, c + 1, p) \in Seq(Primitives)
      /\ NonDecreasing(key, InsertAt(s, c + 1, p))
      /\ Len(InsertAt(s, c + 1, p)) = Len(s) + 1
      /\ InsertAt(s, c + 1, p)[c + 1] = p
  <2> DEFINE x == key[p] + 1
  <2>1. NonDecreasing(key, s) /\ x \in Int /\ x = key[p] + 1 /\ c = Below(key, s, x)
    BY <1>1, <1>4, <1>6
  <2> HIDE DEF x
  <2>2. Beside(x, key[p])
    BY <2>1 DEF Beside
  <2>3. /\ c \in 0 .. Len(s)
        /\ InsertAt(s, c + 1, p) \in Seq(Primitives) /\ Len(InsertAt(s, c + 1, p)) = Len(s) + 1
        /\ InsertAt(s, c + 1, p)[c + 1] = p
        /\ NonDecreasing(key, InsertAt(s, c + 1, p))
        /\ ToSet(InsertAt(s, c + 1, p)) = ToSet(s) \cup {p}
    BY <1>1, <2>1, <2>2, InsertedInOrder
  <2> QED BY <2>3
<1>8. c + 1 \in 1 .. Len(s) + 1
  BY <1>7
<1> QED BY <1>4, <1>5, <1>7, <1>8

(* What Collect makes of the list of the primitives.                       *)
LEMMA AllCollected ==
  ASSUME NEW seq \in Seq(Primitives)
  PROVE  LET all == FoldLeft(AddTriggerPrimitive, <<>>, seq)
         IN all \in Seq(Primitives) /\ StartsOf(all) /\ ToSet(all) = ToSet(seq)
<1> DEFINE l == Len(seq)
           D == 1 .. l
           V == {s \in Seq(Primitives) : StartsOf(s)}
           Iterates(g) == g = [s \in SUBSET D |-> IF s = {} THEN <<>>
                                 ELSE AddTriggerPrimitive(g[s \ {Max(s)}], seq[Max(s)])]
           ch == [s \in SUBSET D |-> Max(s)]
           step == [sv \in (SUBSET D) \X V |->
                      IF sv[1] = {} THEN <<>> ELSE AddTriggerPrimitive(sv[2], seq[ch[sv[1]]])]
<1>1. l \in Nat /\ DOMAIN seq = D /\ IsFiniteSet(D) /\ \A k \in D : seq[k] \in Primitives
  BY FS_Interval
<1>2. Chooses(ch, D)
  BY <1>1, GreatestIndex DEF Chooses
<1>3. <<>> \in V
  BY DEF StartsOf
<1>4. \A s \in V, p \in Primitives : AddTriggerPrimitive(s, p) \in V
  BY PrimitiveAdded
<1> HIDE DEF V
<1>5. step \in [(SUBSET D) \X V -> V]
  <2> SUFFICES ASSUME NEW s \in SUBSET D, NEW v \in V
               PROVE  (IF s = {} THEN <<>> ELSE AddTriggerPrimitive(v, seq[ch[s]])) \in V
    OBVIOUS
  <2>1. s # {} => seq[ch[s]] \in Primitives
    BY <1>1, <1>2 DEF Chooses
  <2> HIDE DEF ch
  <2> QED BY <1>3, <1>4, <2>1
<1>6. PICK h \in [SUBSET D -> V] : Recurses(h, D, <<>>, step, ch)
  <2> HIDE DEF ch, step, D
  <2> QED BY <1>1, <1>2, <1>3, <1>5, RecursionExists
<1>7. Iterates(h)
  <2>1. h[{}] = <<>>
    BY <1>6 DEF Recurses
  <2>2. ASSUME NEW s \in SUBSET D, s # {}
        PROVE  h[s] = AddTriggerPrimitive(h[s \ {Max(s)}], seq[Max(s)])
    <3>1. h[s] = step[<<s, h[s \ {ch[s]}]>>]
      BY <1>6, <2>2 DEF Recurses
    <3>2. h[s \ {ch[s]}] \in V
      OBVIOUS
    <3> QED BY <2>2, <3>1, <3>2
  <2> QED BY <2>1, <2>2
<1> DEFINE g == CHOOSE g : Iterates(g)
<1>8. Iterates(g)
  <2> HIDE DEF Iterates
  <2> QED BY <1>7
<1>9. FoldLeft(AddTriggerPrimitive, <<>>, seq) = g[D]
  BY <1>1 DEF FoldLeft, MapThenFoldSet
<1> HIDE DEF g
<1> DEFINE Good(m) == g[1 .. m] \in V /\ ToSet(g[1 .. m]) = {seq[k] : k \in 1 .. m}
           T == {m \in 0 .. l : ~Good(m)}
<1>10. T = {}
  <2> SUFFICES ASSUME T # {} PROVE FALSE
    OBVIOUS
  <2>1. PICK m \in T : \A k \in 0 .. l : k < m => k \notin T
    <3>1. T \subseteq 0 .. l
      OBVIOUS
    <3> HIDE DEF T, l
    <3> QED BY <1>1, <3>1, LeastOf
  <2>2. m # 0
    <3>1. 1 .. 0 = {} /\ {} \in SUBSET D
      OBVIOUS
    <3>2. g[{}] = <<>>
      BY <1>8, <3>1
    <3>3. {seq[k] : k \in 1 .. 0} = {} /\ ToSet(<<>>) = {}
      BY DEF ToSet
    <3>4. Good(0)
      BY <1>3, <3>1, <3>2, <3>3
    <3> QED BY <3>4
  <2>3. Good(m - 1) /\ m \in 1 .. l
    BY <2>1, <2>2
  <2>4. g[1 .. m] = AddTriggerPrimitive(g[1 .. m - 1], seq[m])
    <3>1. 1 .. m \in SUBSET D /\ 1 .. m # {} /\ Max(1 .. m) = m /\ (1 .. m) \ {m} = 1 .. m - 1
      BY <1>1, <2>3, GreatestIndex
    <3> QED BY <1>8, <3>1
  <2>5. seq[m] \in Primitives
    BY <1>1, <2>3
  <2>6. g[1 .. m] \in V
    BY <1>4, <2>3, <2>4, <2>5
  <2>7. ToSet(g[1 .. m]) = ToSet(g[1 .. m - 1]) \cup {seq[m]}
    BY <2>3, <2>4, <2>5, PrimitiveAdded DEF V
  <2>8. {seq[k] : k \in 1 .. m} = {seq[k] : k \in 1 .. m - 1} \cup {seq[m]}
    BY <2>3
  <2>9. Good(m)
    BY <2>3, <2>6, <2>7, <2>8
  <2> QED BY <2>9
<1>11. Good(l)
  BY <1>1, <1>10
<1>12. ToSet(seq) = {seq[k] : k \in 1 .. l}
  BY <1>1 DEF ToSet
<1> QED BY <1>9, <1>11, <1>12 DEF V

(* What MergeTriggerLocations collects: the primitives of the channels     *)
(* that are not masked.                                                    *)
PrimitiveOf(c, L) == [start |-> L[1], finish |-> L[2], channel |-> c]
AllPrimitives ==
  UNION {{PrimitiveOf(c, L) : L \in ToSet(fTriggerRangesPerChannel[c])} : c \in Channels \ masked}

(* The list the merge collects has the ranges of every channel that is not *)
(* masked, in the order of their starts.                                   *)
LEMMA Collected ==
  ASSUME fTriggerRangesPerChannel \in [Channels -> Seq(Ranges)], Collect
  PROVE  /\ all_trigger_locations' \in Seq(Primitives)
         /\ StartsOf(all_trigger_locations')
         /\ ToSet(all_trigger_locations') = AllPrimitives
<1> DEFINE C == {c \in Channels : ~IsChannelMasked(c)}
           order == InOrder(C)
           seqs == [k \in DOMAIN order |-> ChannelPrimitives(order[k])]
<1>1. C = Channels \ masked /\ IsFiniteSet(C) /\ \A c \in C : c \in Int
  <2>1. IsFiniteSet(Channels) /\ \A c \in Channels : c \in Int
    BY TriggerAssumption
  <2>2. C \subseteq Channels
    OBVIOUS
  <2> QED BY <2>1, <2>2, FS_Subset DEF IsChannelMasked
<1>2. order \in Seq(C) /\ ToSet(order) = C
  <2> HIDE DEF C
  <2> QED BY <1>1, InOrderLists
<1> HIDE DEF order
<1>3. ASSUME NEW c \in Channels
      PROVE  /\ ChannelPrimitives(c) \in Seq(Primitives)
             /\ ToSet(ChannelPrimitives(c)) = {PrimitiveOf(c, L) : L \in ToSet(fTriggerRangesPerChannel[c])}
  <2> DEFINE r == fTriggerRangesPerChannel[c]
  <2>1. r \in Seq(Ranges)
    OBVIOUS
  <2> HIDE DEF r
  <2>2. DOMAIN r = 1 .. Len(r) /\ Len(r) \in Nat /\ \A k \in DOMAIN r : r[k] \in Ranges
    BY <2>1
  <2>3. ChannelPrimitives(c) = [k \in 1 .. Len(r) |-> PrimitiveOf(c, r[k])]
    BY <2>2 DEF ChannelPrimitives, PrimitiveOf, r
  <2>4. \A L \in Ranges : PrimitiveOf(c, L) \in Primitives
    BY DEF Ranges, Primitives, PrimitiveOf
  <2> HIDE DEF Ranges, Primitives, PrimitiveOf
  <2>5. ChannelPrimitives(c) \in Seq(Primitives)
    BY <2>2, <2>3, <2>4
  <2>6. ToSet(ChannelPrimitives(c)) = {PrimitiveOf(c, L) : L \in ToSet(r)}
    BY <2>2, <2>3 DEF ToSet
  <2> QED BY <2>5, <2>6 DEF r
<1>4. DOMAIN order = 1 .. Len(order) /\ Len(order) \in Nat /\ \A k \in DOMAIN order : order[k] \in Channels
  BY <1>1, <1>2
<1>5. /\ seqs \in Seq(Seq(Primitives)) /\ Len(seqs) = Len(order)
      /\ \A k \in 1 .. Len(order) : seqs[k] = ChannelPrimitives(order[k])
  BY <1>3, <1>4
<1> HIDE DEF seqs, C
<1>6. /\ FlattenSeq(seqs) \in Seq(Primitives)
      /\ ToSet(FlattenSeq(seqs)) = UNION {ToSet(seqs[k]) : k \in 1 .. Len(seqs)}
  BY <1>5, Flattened
<1>7. UNION {ToSet(seqs[k]) : k \in 1 .. Len(seqs)} = AllPrimitives
  <2>1. \A c \in C : \E k \in 1 .. Len(order) : order[k] = c
    BY <1>2, <1>4 DEF ToSet
  <2>2. \A k \in 1 .. Len(order) : order[k] \in C
    BY <1>2
  <2> DEFINE Of(c) == {PrimitiveOf(c, L) : L \in ToSet(fTriggerRangesPerChannel[c])}
  <2>3. \A k \in 1 .. Len(order) : ToSet(seqs[k]) = Of(order[k])
    BY <1>3, <1>4, <1>5
  <2>4. AllPrimitives = UNION {Of(c) : c \in C}
    BY <1>1 DEF AllPrimitives
  <2> HIDE DEF Of
  <2>5. ASSUME NEW c \in C PROVE \E k \in 1 .. Len(order) : Of(c) = ToSet(seqs[k])
    BY <2>1, <2>3
  <2>6. ASSUME NEW k \in 1 .. Len(order) PROVE \E c \in C : Of(c) = ToSet(seqs[k])
    BY <2>2, <2>3
  <2> QED BY <1>5, <2>4, <2>5, <2>6
<1>8. all_trigger_locations' = FoldLeft(AddTriggerPrimitive, <<>>, FlattenSeq(seqs))
  BY DEF Collect, seqs, order, C
<1> QED BY <1>6, <1>7, <1>8, AllCollected

-----------------------------------------------------------------------------
(* What the members and the merge's list hold.                             *)
MembersTyped ==
  /\ stage \in {"find", "merge", "apply", "reading", "applied"}
  /\ fConfig \in Configs
  /\ fTriggerRangesPerChannel \in [Channels -> Seq(Ranges)]
  /\ fTriggerLocationsPerChannel \in [Channels -> Seq(Int)]
  /\ fTriggerLocations \in Seq(Int)
  /\ all_trigger_locations \in Seq(Primitives)
  /\ n \in Nat

(* The scan's variables are those of a scan under way, or fresh.           *)
ScanTyped ==
  /\ i \in Int /\ StartI <= i
  /\ above_threshold \in BOOLEAN /\ beam_trigger_added \in BOOLEAN
  /\ trigger_start \in Int /\ t_since \in Nat
  /\ t_deadtime \in {fConfig.TriggerHoldoff, fConfig.BeamTriggerHoldoff}
  /\ locations \in Seq(Ranges) /\ ByStart(locations)
  /\ ByStart(fTriggerRangesPerChannel[Channel]) /\ adcs \in Seq(Levels)
  /\ above_threshold => trigger_start < TimeOf(i)
  /\ stage = "find" => /\ Len(adcs) = i - StartI /\ (adcs # <<>> => i <= EndI + 1)
                       /\ fTriggerRangesPerChannel[Channel] = <<>>
  /\ stage # "find" => FreshScan

Typed == MembersTyped /\ ScanTyped

(* A new event's ranges are ranges.                                        *)
LEMMA EventRangesTyped ==
  ASSUME NEW r \in EventRanges
  PROVE  r \in [Channels -> Seq(Ranges)] /\ r[Channel] = <<>>
<1>1. ASSUME NEW s \in OtherRanges PROVE s \in Seq(Ranges)
  <2>1. s \in Seq(Int \X Int) /\ \A k \in DOMAIN s : s[k][1] <= s[k][2]
    BY RangesAssumption
  <2>2. DOMAIN s = 1 .. Len(s) /\ Len(s) \in Nat /\ \A k \in 1 .. Len(s) : s[k] \in Int \X Int
    BY <2>1
  <2>3. \A k \in 1 .. Len(s) : s[k] \in Ranges
    BY <2>1, <2>2 DEF Ranges
  <2> HIDE DEF Ranges
  <2> QED BY <2>1, <2>2, <2>3
<1>2. <<>> \in Seq(Ranges)
  OBVIOUS
<1> HIDE DEF Ranges
<1> QED BY <1>1, <1>2, TriggerAssumption DEF EventRanges

(* The scan's ends depend on the configuration alone.                      *)
LEMMA SameEnds ==
  ASSUME fConfig' = fConfig
  PROVE  StartI' = StartI /\ EndI' = EndI
BY DEF StartI, EndI, IsTriggerEnabled, TimeOf

(* The steps after the scan keep what it left.                             *)
LEMMA LaterSteps ==
  ASSUME Merge \/ Apply
  PROVE  /\ stage # "find" /\ stage' # "find"
         /\ UNCHANGED <<fConfig, masked, fTriggerRangesPerChannel, scanVars, adcs>>
BY DEF Merge, Apply, CopyOwn, Collect, MergeOne, Merged, BeginApply, ReadSample, Return, memberVars

(* The members and the scan's variables have their types at first.         *)
LEMMA TypedStart == Init => Typed
<1> SUFFICES ASSUME Init PROVE Typed
  OBVIOUS
<1>1. fConfig \in Configs /\ stage = "find" /\ FreshScan /\ adcs = <<>> /\ FreshMerge
  BY DEF Init
<1>2. /\ fTriggerRangesPerChannel \in [Channels -> Seq(Ranges)] /\ fTriggerRangesPerChannel[Channel] = <<>>
      /\ fTriggerLocationsPerChannel \in [Channels -> Seq(Int)] /\ fTriggerLocations = <<>>
  BY EventRangesTyped DEF Init, CleanMembers, NoTimes
<1>3. MembersTyped
  BY <1>1, <1>2 DEF MembersTyped, FreshMerge
<1>4. StartI \in Nat
  BY <1>1, ScanEnds
<1>5. ScanTyped
  <2>1. i = StartI /\ locations = <<>> /\ trigger_start = 0 /\ t_since = 99999 /\ ~above_threshold
    BY <1>1 DEF FreshScan, LongAgo
  <2>2. <<>> \in Seq(Ranges) /\ <<>> \in Seq(Levels) /\ Len(<<>>) = 0
    OBVIOUS
  <2>3. beam_trigger_added = FALSE /\ above_threshold = FALSE /\ t_deadtime = fConfig.TriggerHoldoff
    BY <1>1 DEF FreshScan
  <2>4. above_threshold \in BOOLEAN /\ beam_trigger_added \in BOOLEAN
    BY <2>3
  <2>5. i \in Int /\ StartI <= i /\ Len(adcs) = i - StartI
    BY <1>1, <1>4, <2>1, <2>2
  <2>6. ByStart(<<>>)
    BY DEF ByStart
  <2> QED BY <1>1, <1>2, <2>1, <2>2, <2>3, <2>4, <2>5, <2>6 DEF ScanTyped
<1> QED BY <1>3, <1>5 DEF Typed

(* What an iteration of the scan does to its variables.                    *)
LEMMA SampleTyped ==
  ASSUME Typed, NEW val \in Levels, Sample(val)
  PROVE  ScanTyped'
<1> DEFINE T == TimeOf(i)
           opens == Opens(val)
           closes == Closes(val)
           beam == IsLive /\ IsBeamSample
           closed == IF closes THEN AddTriggerLocation(locations, <<trigger_start, T>>) ELSE locations
<1>1. /\ stage = "find" /\ stage' = "find" /\ i <= EndI /\ i' = i + 1 /\ adcs' = Append(adcs, val)
      /\ fConfig' = fConfig /\ fTriggerRangesPerChannel' = fTriggerRangesPerChannel
      /\ above_threshold' = (opens \/ (above_threshold /\ ~closes))
      /\ trigger_start' = IF opens THEN T ELSE trigger_start
      /\ locations' = IF beam THEN AddTriggerLocation(closed, <<T, T>>) ELSE closed
      /\ t_since' = IF opens \/ beam THEN 0 ELSE t_since + Period
      /\ t_deadtime' = Deadtime(opens, beam)
      /\ beam_trigger_added' = (beam \/ beam_trigger_added)
  BY DEF Sample, memberVars
<1>2. /\ i \in Int /\ StartI <= i /\ T \in Int /\ TimeOf(i + 1) = T + Period /\ Period \in Nat /\ Period > 0
      /\ trigger_start \in Int /\ t_since \in Nat /\ StartI \in Nat /\ EndI \in Int
  <2>1. fConfig \in Configs /\ i \in Int /\ StartI <= i /\ trigger_start \in Int /\ t_since \in Nat
    BY DEF Typed, ScanTyped, MembersTyped
  <2>2. StartI \in Nat /\ EndI \in Int
    BY <2>1, ScanEnds
  <2>3. T \in Int /\ TimeOf(i + 1) = T + Period
    BY <2>1, TimesInOrder
  <2>4. Period \in Nat /\ Period > 0
    BY TriggerAssumption
  <2> QED BY <2>1, <2>2, <2>3, <2>4
<1>3. StartI' = StartI /\ EndI' = EndI /\ TimeOf(i)' = TimeOf(i')
  BY <1>1, SameEnds DEF TimeOf
<1>4. above_threshold => trigger_start < T
  BY DEF Typed, ScanTyped
<1>5. above_threshold' \in BOOLEAN /\ beam_trigger_added' \in BOOLEAN
  BY <1>1
<1>6. trigger_start' \in Int /\ t_since' \in Nat
  <2> HIDE DEF opens, beam, T
  <2> QED BY <1>1, <1>2
<1>7. t_deadtime' \in {fConfig'.TriggerHoldoff, fConfig'.BeamTriggerHoldoff}
  BY <1>1 DEF Deadtime, Typed, ScanTyped
<1>8. above_threshold' => trigger_start' < TimeOf(i')
  <2>1. CASE opens
    <3>1. trigger_start' = T /\ TimeOf(i') = T + Period
      BY <1>1, <1>2, <2>1
    <3> QED BY <1>2, <3>1
  <2>2. CASE ~opens
    <3>1. above_threshold' => above_threshold
      BY <1>1, <2>2
    <3>2. trigger_start' = trigger_start /\ TimeOf(i') = T + Period
      BY <1>1, <1>2, <2>2
    <3> QED BY <1>2, <1>4, <3>1, <3>2
  <2> QED BY <2>1, <2>2
<1>9. adcs' \in Seq(Levels) /\ Len(adcs') = i' - StartI' /\ i' <= EndI' + 1
  <2>1. adcs \in Seq(Levels) /\ Len(adcs) = i - StartI
    BY <1>1 DEF Typed, ScanTyped
  <2> QED BY <1>1, <1>2, <1>3, <2>1
<1>10. locations' \in Seq(Ranges) /\ ByStart(locations')
  <2>1. locations \in Seq(Ranges) /\ ByStart(locations)
    BY DEF Typed, ScanTyped
  <2>2. closes => <<trigger_start, T>> \in Ranges
    BY <1>2, <1>4 DEF Closes, Ranges
  <2>3. <<T, T>> \in Ranges
    BY <1>2 DEF Ranges
  <2> HIDE DEF closes, T, beam
  <2>4. closed \in Seq(Ranges) /\ ByStart(closed)
    BY <2>1, <2>2, LocationAdded
  <2> HIDE DEF closed
  <2>5. AddTriggerLocation(closed, <<T, T>>) \in Seq(Ranges) /\ ByStart(AddTriggerLocation(closed, <<T, T>>))
    BY <2>3, <2>4, LocationAdded
  <2> QED BY <1>1, <2>4, <2>5
<1>11. fTriggerRangesPerChannel'[Channel] = <<>> /\ ByStart(fTriggerRangesPerChannel[Channel])'
  BY <1>1 DEF Typed, ScanTyped
<1>12. i' \in Int /\ StartI' <= i'
  BY <1>1, <1>2, <1>3
<1> QED BY <1>1, <1>3, <1>5, <1>6, <1>7, <1>8, <1>9, <1>10, <1>11, <1>12 DEF ScanTyped, ByStart

(* What Store leaves.                                                      *)
LEMMA StoreTyped ==
  ASSUME Typed, Store
  PROVE  /\ ScanTyped'
         /\ fTriggerRangesPerChannel' = [fTriggerRangesPerChannel EXCEPT ![Channel] = locations]
<1>1. /\ stage = "find" /\ stage' = "merge" /\ fConfig' = fConfig /\ adcs' = adcs
      /\ i' = StartI /\ above_threshold' = FALSE /\ trigger_start' = 0 /\ t_since' = 99999
      /\ t_deadtime' = fConfig.TriggerHoldoff /\ beam_trigger_added' = FALSE /\ locations' = <<>>
  BY DEF Store, LongAgo
<1>2. fTriggerRangesPerChannel' = [fTriggerRangesPerChannel EXCEPT ![Channel] = locations]
  BY <1>1 DEF Store, Typed, ScanTyped
<1>3. fTriggerRangesPerChannel'[Channel] = locations
  BY <1>2, TriggerAssumption DEF Typed, MembersTyped
<1>4. StartI' = StartI /\ EndI' = EndI /\ StartI \in Nat
  BY <1>1, SameEnds, ScanEnds DEF Typed, MembersTyped
<1>5. FreshScan'
  BY <1>1, <1>4 DEF FreshScan, LongAgo
<1>6. /\ ByStart(<<>>) /\ <<>> \in Seq(Ranges)
      /\ ByStart(locations) /\ adcs \in Seq(Levels)
  BY DEF ByStart, Typed, ScanTyped
<1>7. ByStart(locations)' /\ ByStart(fTriggerRangesPerChannel[Channel])'
  BY <1>1, <1>3, <1>6 DEF ByStart
<1>8. above_threshold' \in BOOLEAN /\ beam_trigger_added' \in BOOLEAN
  <2>1. above_threshold' = FALSE /\ beam_trigger_added' = FALSE
    BY DEF Store
  <2> QED BY <2>1
<1> QED BY <1>1, <1>2, <1>4, <1>5, <1>6, <1>7, <1>8 DEF ScanTyped

(* The variables keep their types.                                         *)
LEMMA TypedStep == Typed /\ [Next]_vars => Typed'
<1> SUFFICES ASSUME Typed, [Next]_vars PROVE Typed'
  OBVIOUS
<1>1. /\ fConfig \in Configs
      /\ fTriggerRangesPerChannel \in [Channels -> Seq(Ranges)]
      /\ fTriggerLocationsPerChannel \in [Channels -> Seq(Int)]
      /\ fTriggerLocations \in Seq(Int)
      /\ all_trigger_locations \in Seq(Primitives) /\ n \in Nat
      /\ stage \in {"find", "merge", "apply", "reading", "applied"}
  BY DEF Typed, MembersTyped
<1>2. ASSUME UNCHANGED <<fConfig, masked, fTriggerRangesPerChannel, scanVars, adcs>>,
             stage # "find", stage' # "find"
      PROVE  ScanTyped'
  <2>1. ScanTyped /\ FreshScan
    BY <1>2 DEF Typed, ScanTyped
  <2>2. StartI' = StartI /\ EndI' = EndI /\ TimeOf(i)' = TimeOf(i)
    BY <1>2, SameEnds DEF scanVars, TimeOf
  <2>3. FreshScan'
    BY <1>2, <2>1, <2>2 DEF FreshScan, scanVars
  <2> QED BY <1>2, <2>1, <2>2, <2>3 DEF ScanTyped, scanVars, ByStart
<1>3. CASE Find
  <2>1. CASE \E val \in Levels : Sample(val)
    <3>1. ScanTyped'
      BY <2>1, SampleTyped
    <3>2. UNCHANGED <<memberVars, mergeVars>>
      BY <1>3, <2>1 DEF Find, Sample, Store
    <3> QED BY <1>1, <3>1, <3>2 DEF Typed, MembersTyped, memberVars, mergeVars
  <2>2. CASE Store
    <3>1. ScanTyped' /\ fTriggerRangesPerChannel' = [fTriggerRangesPerChannel EXCEPT ![Channel] = locations]
      BY <2>2, StoreTyped
    <3>2. /\ UNCHANGED <<fConfig, fTriggerLocationsPerChannel, fTriggerLocations, all_trigger_locations, n>>
          /\ stage' = "merge"
      BY <1>3, <2>2 DEF Find, Sample, Store, mergeVars
    <3>3. locations \in Seq(Ranges)
      BY DEF Typed, ScanTyped
    <3>4. fTriggerRangesPerChannel' \in [Channels -> Seq(Ranges)]
      BY <1>1, <3>1, <3>3
    <3> QED BY <1>1, <3>1, <3>2, <3>4 DEF Typed, MembersTyped
  <2> QED BY <1>3, <2>1, <2>2 DEF Find
<1>4. CASE Merge
  <2>1. ScanTyped' /\ UNCHANGED <<fConfig, fTriggerRangesPerChannel>>
    BY <1>2, <1>4, LaterSteps
  <2>2. CASE CopyOwn
    <3>1. ASSUME NEW c \in Channels PROVE OwnStarts(c) \in Seq(Int)
      <4>1. fTriggerRangesPerChannel[c] \in Seq(Ranges)
        BY <1>1
      <4>2. \A k \in DOMAIN fTriggerRangesPerChannel[c] : fTriggerRangesPerChannel[c][k][1] \in Int
        BY <4>1 DEF Ranges
      <4> QED BY <4>1, <4>2 DEF OwnStarts
    <3>2. fTriggerLocationsPerChannel' \in [Channels -> Seq(Int)]
      BY <2>2, <3>1 DEF CopyOwn
    <3>3. stage' = "apply" /\ UNCHANGED <<fTriggerLocations, all_trigger_locations, n>>
      BY <2>2 DEF CopyOwn, mergeVars
    <3> QED BY <1>1, <2>1, <3>2, <3>3 DEF Typed, MembersTyped
  <2>3. CASE Collect
    <3>1. all_trigger_locations' \in Seq(Primitives)
      BY <1>1, <2>3, Collected
    <3>2. n' = 1 /\ UNCHANGED <<stage, fTriggerLocationsPerChannel, fTriggerLocations>>
      BY <2>3 DEF Collect, memberVars
    <3> QED BY <1>1, <2>1, <3>1, <3>2 DEF Typed, MembersTyped
  <2>4. CASE MergeOne
    <3>1. all_trigger_locations[n].start \in Int
      <4>1. n \in DOMAIN all_trigger_locations
        BY <2>4 DEF MergeOne
      <4>2. all_trigger_locations[n] \in Primitives
        BY <1>1, <4>1
      <4> QED BY <4>2 DEF Primitives
    <3>2. /\ UNCHANGED <<stage, fTriggerLocationsPerChannel, all_trigger_locations>>
          /\ n' = n + 1
          /\ \/ fTriggerLocations' = fTriggerLocations
             \/ fTriggerLocations' = Append(fTriggerLocations, all_trigger_locations[n].start)
      BY <2>4 DEF MergeOne
    <3>3. fTriggerLocations' \in Seq(Int) /\ n' \in Nat
      <4>1. Append(fTriggerLocations, all_trigger_locations[n].start) \in Seq(Int)
        BY <1>1, <3>1
      <4>2. n' \in Nat
        BY <1>1, <3>2
      <4>3. fTriggerLocations' \in Seq(Int)
        <5> HIDE DEF Primitives
        <5> QED BY <1>1, <3>2, <4>1, ZenonT(20)
      <4> QED BY <4>2, <4>3
    <3> QED BY <1>1, <2>1, <3>2, <3>3 DEF Typed, MembersTyped
  <2>5. CASE Merged
    <3>1. /\ stage' = "apply" /\ UNCHANGED <<fTriggerLocationsPerChannel, fTriggerLocations>>
          /\ all_trigger_locations' = <<>> /\ n' = 0
      BY <2>5 DEF Merged
    <3> QED BY <1>1, <2>1, <3>1 DEF Typed, MembersTyped
  <2> QED BY <1>4, <2>2, <2>3, <2>4, <2>5 DEF Merge
<1>5. CASE Apply
  <2>1. ScanTyped' /\ UNCHANGED <<fConfig, fTriggerRangesPerChannel>>
    BY <1>2, <1>5, LaterSteps
  <2>2. /\ UNCHANGED <<fTriggerLocationsPerChannel, fTriggerLocations, all_trigger_locations, n>>
        /\ stage' \in {"find", "merge", "apply", "reading", "applied"}
    BY <1>1, <1>5 DEF Apply, BeginApply, ReadSample, Return, memberVars, mergeVars
  <2> QED BY <1>1, <2>1, <2>2 DEF Typed, MembersTyped
<1>6. CASE NextEvent
  <2>1. /\ stage = "applied" /\ stage' = "find" /\ fConfig' = fConfig /\ adcs' = <<>>
        /\ UNCHANGED <<scanVars, all_trigger_locations, n>>
        /\ fTriggerLocationsPerChannel' = NoTimes /\ fTriggerLocations' = <<>>
    BY <1>6 DEF NextEvent, ClearTriggerLocations, mergeVars
  <2>2. /\ fTriggerRangesPerChannel' \in [Channels -> Seq(Ranges)]
        /\ fTriggerRangesPerChannel'[Channel] = <<>>
    BY <1>6, EventRangesTyped DEF NextEvent, ClearTriggerLocations
  <2>3. ScanTyped /\ FreshScan
    BY <2>1 DEF Typed, ScanTyped
  <2>4. StartI' = StartI /\ EndI' = EndI /\ TimeOf(i)' = TimeOf(i) /\ i = StartI /\ i \in Int
    BY <2>1, <2>3, SameEnds DEF scanVars, TimeOf, FreshScan, ScanTyped
  <2>5. /\ <<>> \in Seq(Levels) /\ Len(<<>>) = i - StartI
        /\ ByStart(<<>>) /\ NoTimes \in [Channels -> Seq(Int)]
    BY <2>4 DEF ByStart, NoTimes
  <2>6. ByStart(fTriggerRangesPerChannel[Channel])' /\ ByStart(locations)'
    BY <2>1, <2>2, <2>3, <2>5 DEF ByStart, scanVars, ScanTyped
  <2>7. ScanTyped'
    BY <2>1, <2>2, <2>3, <2>4, <2>5, <2>6 DEF ScanTyped, scanVars
  <2> QED BY <1>1, <2>1, <2>2, <2>5, <2>7 DEF Typed, MembersTyped
<1>7. CASE UNCHANGED vars
  <2>1. ScanTyped /\ FreshScan' = FreshScan
    BY <1>7, SameEnds DEF Typed, vars, memberVars, FreshScan, scanVars
  <2>2. StartI' = StartI /\ EndI' = EndI /\ TimeOf(i)' = TimeOf(i)
    BY <1>7, SameEnds DEF vars, memberVars, scanVars, TimeOf
  <2>3. ScanTyped'
    BY <1>7, <2>1, <2>2 DEF ScanTyped, ByStart, vars, memberVars, scanVars
  <2> QED BY <1>1, <1>7, <2>3 DEF Typed, MembersTyped, vars, memberVars, mergeVars
<1> QED BY <1>3, <1>4, <1>5, <1>6, <1>7 DEF Next

(* They have their types throughout.                                       *)
LEMMA AlwaysTyped == Spec => []Typed
BY TypedStart, TypedStep, PTL DEF Spec
-----------------------------------------------------------------------------
(* Instants and intervals among the ranges F.                              *)
BeamsOf(F)  == {L[1] : L \in {M \in F : M[1] = M[2]}}
PulsesOf(F) == {L[1] : L \in {M \in F : M[1] < M[2]}}

(* Of a union they are the union, of one range its start or none.          *)
LEMMA StartsOfUnion ==
  ASSUME NEW F, NEW G
  PROVE  BeamsOf(F \cup G) = BeamsOf(F) \cup BeamsOf(G) /\ PulsesOf(F \cup G) = PulsesOf(F) \cup PulsesOf(G)
BY DEF BeamsOf, PulsesOf

(* Of a single range the start is an instant's, a pulse's or neither.      *)
LEMMA StartsOfOne ==
  ASSUME NEW L
  PROVE  /\ L[1] = L[2] => BeamsOf({L}) = {L[1]}
         /\ L[1] # L[2] => BeamsOf({L}) = {}
         /\ L[1] < L[2] => PulsesOf({L}) = {L[1]}
         /\ ~(L[1] < L[2]) => PulsesOf({L}) = {}
BY DEF BeamsOf, PulsesOf

(* Of no range there is no start.                                          *)
LEMMA StartsOfNone == BeamsOf({}) = {} /\ PulsesOf({}) = {}
BY DEF BeamsOf, PulsesOf

(* The triggers found and started are known by what the scan keeps.        *)
LEMMA StartsKnown ==
  ASSUME Typed
  PROVE  /\ Found \subseteq Ranges /\ BeamTimes = BeamsOf(Found)
         /\ Starts = BeamsOf(Found) \cup PulsesOf(Found) \cup (IF above_threshold THEN {trigger_start} ELSE {})
         /\ BeamTimes \subseteq Int /\ Starts \subseteq Int /\ BeamTimes \subseteq Starts
         /\ \A s \in Starts : DeadtimeAfter(s) \in Nat
<1>1. locations \in Seq(Ranges) /\ fTriggerRangesPerChannel[Channel] \in Seq(Ranges)
      /\ trigger_start \in Int
  BY TriggerAssumption DEF Typed, MembersTyped, ScanTyped
<1>2. \A s \in Seq(Ranges) : ToSet(s) \subseteq Ranges
  <2> HIDE DEF Ranges
  <2> QED BY DEF ToSet
<1>3. Found \subseteq Ranges
  BY <1>1, <1>2 DEF Found
<1>4. BeamTimes = BeamsOf(Found)
  BY DEF BeamTimes, BeamsOf
<1>5. Starts = BeamsOf(Found) \cup PulsesOf(Found) \cup (IF above_threshold THEN {trigger_start} ELSE {})
  BY <1>4 DEF Starts, PulseTimes, PulsesOf
<1>6. BeamsOf(Found) \subseteq Int /\ PulsesOf(Found) \subseteq Int
  BY <1>3 DEF BeamsOf, PulsesOf, Ranges
<1>7. fConfig.TriggerHoldoff \in Nat /\ fConfig.BeamTriggerHoldoff \in Nat
  BY TriggerAssumption DEF Typed, MembersTyped, ConfigType
<1>8. \A s \in Starts : DeadtimeAfter(s) \in Nat
  BY <1>7 DEF DeadtimeAfter
<1> QED BY <1>1, <1>3, <1>4, <1>5, <1>6, <1>8

(* What an iteration adds to what the scan has found and read.             *)
LEMMA SampleEffect ==
  ASSUME Typed, NEW val \in Levels, Sample(val)
  PROVE  LET T == TimeOf(i)
             closes == Closes(val)
             beam == IsLive /\ IsBeamSample
         IN  /\ Found' = Found \cup (IF closes THEN {<<trigger_start, T>>} ELSE {})
                               \cup (IF beam THEN {<<T, T>>} ELSE {})
             /\ BeamTimes' = BeamTimes \cup (IF beam THEN {T} ELSE {})
             /\ Starts' = Starts \cup (IF Opens(val) \/ beam THEN {T} ELSE {})
             /\ Read' = Read \cup {i} /\ i \notin Read /\ Read = StartI .. i - 1
             /\ \A k \in Read : Val(k)' = Val(k)
             /\ \A k : k = i => Val(k)' = val
<1> DEFINE T == TimeOf(i)
           opens == Opens(val)
           closes == Closes(val)
           beam == IsLive /\ IsBeamSample
           A == IF closes THEN {<<trigger_start, T>>} ELSE {}
           B == IF beam THEN {<<T, T>>} ELSE {}
           closed == IF closes THEN AddTriggerLocation(locations, <<trigger_start, T>>) ELSE locations
<1>1. /\ i' = i + 1 /\ adcs' = Append(adcs, val) /\ stage = "find"
      /\ fConfig' = fConfig /\ fTriggerRangesPerChannel' = fTriggerRangesPerChannel
      /\ above_threshold' = (opens \/ (above_threshold /\ ~closes))
      /\ trigger_start' = IF opens THEN T ELSE trigger_start
      /\ locations' = IF beam THEN AddTriggerLocation(closed, <<T, T>>) ELSE closed
  BY DEF Sample, memberVars
<1>2. /\ i \in Int /\ StartI \in Nat /\ StartI <= i /\ T \in Int /\ trigger_start \in Int
      /\ locations \in Seq(Ranges) /\ ByStart(locations)
      /\ adcs \in Seq(Levels) /\ Len(adcs) = i - StartI
      /\ StartI' = StartI
  BY <1>1, TimesInOrder, ScanEnds, SameEnds DEF Typed, ScanTyped, MembersTyped
<1>3. above_threshold => trigger_start < T
  BY DEF Typed, ScanTyped
<1>4. ToSet(locations') = ToSet(locations) \cup A \cup B
  <2>1. closes => <<trigger_start, T>> \in Ranges
    BY <1>2, <1>3 DEF Closes, Ranges
  <2>2. <<T, T>> \in Ranges
    BY <1>2 DEF Ranges
  <2> HIDE DEF closes, T, beam
  <2>3. closed \in Seq(Ranges) /\ ByStart(closed) /\ ToSet(closed) = ToSet(locations) \cup A
    BY <1>2, <2>1, LocationAdded
  <2> HIDE DEF closed
  <2>4. ToSet(AddTriggerLocation(closed, <<T, T>>)) = ToSet(closed) \cup {<<T, T>>}
    BY <2>2, <2>3, LocationAdded
  <2> QED BY <1>1, <2>3, <2>4
<1>5. Found' = Found \cup A \cup B
  BY <1>1, <1>4 DEF Found
<1>6. closes => trigger_start < T
  BY <1>3 DEF Closes
<1>7. BeamsOf(A) = {} /\ PulsesOf(A) = (IF closes THEN {trigger_start} ELSE {})
  <2>1. BeamsOf({}) = {} /\ PulsesOf({}) = {}
    BY StartsOfNone
  <2>2. closes => BeamsOf({<<trigger_start, T>>}) = {} /\ PulsesOf({<<trigger_start, T>>}) = {trigger_start}
    <3> DEFINE L == <<trigger_start, T>>
    <3>1. closes => L[1] # L[2] /\ L[1] < L[2] /\ L[1] = trigger_start
      BY <1>2, <1>6
    <3> HIDE DEF closes, L
    <3>2. closes => BeamsOf({L}) = {} /\ PulsesOf({L}) = {trigger_start}
      BY <3>1, StartsOfOne
    <3> QED BY <3>2 DEF L
  <2> HIDE DEF closes, T
  <2> QED BY <2>1, <2>2
<1>8. BeamsOf(B) = (IF beam THEN {T} ELSE {}) /\ PulsesOf(B) = {}
  <2> HIDE DEF beam, T
  <2>1. BeamsOf({}) = {} /\ PulsesOf({}) = {}
    BY StartsOfNone
  <2>2. BeamsOf({<<T, T>>}) = {T} /\ PulsesOf({<<T, T>>}) = {}
    <3> DEFINE L == <<T, T>>
    <3>1. L[1] = L[2] /\ ~(L[1] < L[2]) /\ L[1] = T
      BY <1>2
    <3> HIDE DEF L
    <3>2. BeamsOf({L}) = {T} /\ PulsesOf({L}) = {}
      BY <3>1, StartsOfOne
    <3> QED BY <3>2 DEF L
  <2> QED BY <2>1, <2>2
<1>9. closes => above_threshold
  BY DEF Closes
<1>10. opens => ~above_threshold /\ ~closes
  BY DEF Opens, Closes
<1> HIDE DEF A, B, T, opens, closes, beam
<1>11. BeamTimes' = BeamTimes \cup (IF beam THEN {T} ELSE {})
  <2>1. BeamsOf(Found') = BeamsOf(Found) \cup BeamsOf(A) \cup BeamsOf(B)
    <3>1. BeamsOf((Found \cup A) \cup B) = BeamsOf(Found \cup A) \cup BeamsOf(B)
      BY StartsOfUnion
    <3>2. BeamsOf(Found \cup A) = BeamsOf(Found) \cup BeamsOf(A)
      BY StartsOfUnion
    <3> QED BY <1>5, <3>1, <3>2
  <2>2. BeamTimes = BeamsOf(Found) /\ BeamTimes' = BeamsOf(Found')
    BY DEF BeamTimes, BeamsOf
  <2> QED BY <1>7, <1>8, <2>1, <2>2
<1>12. Starts' = Starts \cup (IF opens \/ beam THEN {T} ELSE {})
  <2>1. PulsesOf(Found') = PulsesOf(Found) \cup PulsesOf(A) \cup PulsesOf(B)
    <3>1. PulsesOf((Found \cup A) \cup B) = PulsesOf(Found \cup A) \cup PulsesOf(B)
      BY StartsOfUnion
    <3>2. PulsesOf(Found \cup A) = PulsesOf(Found) \cup PulsesOf(A)
      BY StartsOfUnion
    <3> QED BY <1>5, <3>1, <3>2
  <2>2. /\ PulseTimes = PulsesOf(Found) \cup (IF above_threshold THEN {trigger_start} ELSE {})
        /\ PulseTimes' = PulsesOf(Found') \cup (IF above_threshold' THEN {trigger_start'} ELSE {})
    BY DEF PulseTimes, PulsesOf
  <2>3. PulseTimes' = PulseTimes \cup (IF opens THEN {T} ELSE {})
    <3>1. CASE opens
      BY <1>1, <1>7, <1>8, <1>10, <2>1, <2>2, <3>1
    <3>2. CASE ~opens /\ closes
      BY <1>1, <1>7, <1>8, <1>9, <2>1, <2>2, <3>2
    <3>3. CASE ~opens /\ ~closes
      BY <1>1, <1>7, <1>8, <2>1, <2>2, <3>3
    <3> QED BY <3>1, <3>2, <3>3
  <2> QED BY <1>11, <2>3 DEF Starts
<1>13. Read' = Read \cup {i} /\ i \notin Read /\ Read = StartI .. i - 1
  <2>1. Len(adcs') = Len(adcs) + 1
    BY <1>1, <1>2
  <2> QED BY <1>1, <1>2, <2>1 DEF Read
<1>14. \A k \in Read : Val(k)' = Val(k)
  <2> SUFFICES ASSUME NEW k \in Read PROVE Val(k)' = Val(k)
    OBVIOUS
  <2>1. k - StartI + 1 \in 1 .. Len(adcs)
    BY <1>2, <1>13
  <2>2. Append(adcs, val)[k - StartI + 1] = adcs[k - StartI + 1]
    BY <1>2, <2>1
  <2> QED BY <1>1, <1>2, <2>2 DEF Val
<1>15. \A k : k = i => Val(k)' = val
  <2> SUFFICES ASSUME NEW k, k = i PROVE Val(k)' = val
    OBVIOUS
  <2>1. k - StartI + 1 = Len(adcs) + 1
    BY <1>2
  <2>2. Append(adcs, val)[Len(adcs) + 1] = val
    BY <1>2
  <2> QED BY <1>1, <1>2, <2>1, <2>2 DEF Val
<1> QED BY <1>5, <1>11, <1>12, <1>13, <1>14, <1>15 DEF A, B, T, opens, closes, beam

-----------------------------------------------------------------------------
(* Unless the holdoff is longer than the time the scan pretends to have    *)
(* been without a trigger, the channel is live at its start.               *)
ShortHoldoff == \A c \in Configs : c.TriggerHoldoff < LongAgo + Period

(* The latest trigger is what t_since_last_trigger and t_deadtime are of.  *)
Latest(l) ==
  /\ l = TimeOf(i) - Period - t_since /\ t_deadtime = DeadtimeAfter(l)
  /\ \A s \in Starts : s # l => s < l /\ l - s > DeadtimeAfter(s)
SinceLatest ==
  \/ Starts = {} /\ t_since >= LongAgo /\ t_deadtime = fConfig.TriggerHoldoff
  \/ \E l \in Starts : Latest(l)

(* From sample j up to the time t no sample was below threshold.           *)
NotBelow(j, t) == \A k \in Read : j <= k /\ TimeOf(k) < t => Val(k) # "below"

(* A trigger that is open was opened at a sample, and none of the samples  *)
(* since was below threshold; at the end of the scan it is a late one.     *)
OpenAt(j) ==
  /\ trigger_start = TimeOf(j) /\ (i >= EndI => j >= EndI - 1)
  /\ NotBelow(j, TimeOf(i))

Scanning ==
  stage = "find" =>
    /\ SinceLatest
    /\ above_threshold => \E j \in Read : OpenAt(j)
    /\ beam_trigger_added <=> BeamTimes # {}
    /\ \A L \in Found : L[2] < TimeOf(i)

(* Every range found started on a sample, and ended with the first sample  *)
(* below threshold, or at the end of the scan.                             *)
StartedAt(L, j) == L[1] = TimeOf(j) /\ NotBelow(j, L[2])
FoundOnSamples == \A L \in Found : \E j \in Nat : j >= StartI /\ StartedAt(L, j)
OneBeam == \A s, t \in BeamTimes : s = t

ScanInv ==
  /\ Scanning /\ FoundOnSamples /\ OneBeam
  /\ HoldoffRespected
  /\ ShortHoldoff => PulsesFound /\ BeamHeldOff

(* Every trigger started a sample or more ago, and the channel is live     *)
(* exactly when the sample is not in the dead time of one.                 *)
LEMMA LiveIsNotDead ==
  ASSUME Typed, SinceLatest
  PROVE  /\ \A s \in Starts : s + Period <= TimeOf(i)
         /\ IsLive => \A s \in Starts : TimeOf(i) - s > DeadtimeAfter(s)
         /\ ShortHoldoff /\ ~IsLive => Dead(TimeOf(i))
<1>1. /\ TimeOf(i) \in Int /\ Period \in Nat /\ Period > 0 /\ t_since \in Nat /\ Starts \subseteq Int
      /\ \A s \in Starts : DeadtimeAfter(s) \in Nat
      /\ fConfig.TriggerHoldoff \in Nat /\ fConfig \in Configs
  <2>1. i \in Int /\ t_since \in Nat /\ fConfig \in Configs
    BY DEF Typed, ScanTyped, MembersTyped
  <2>2. TimeOf(i) \in Int /\ Period \in Nat /\ Period > 0
    BY <2>1, TimesInOrder, TriggerAssumption
  <2>3. Starts \subseteq Int /\ \A s \in Starts : DeadtimeAfter(s) \in Nat
    BY StartsKnown
  <2>4. fConfig.TriggerHoldoff \in Nat
    BY <2>1, TriggerAssumption DEF ConfigType
  <2> QED BY <2>1, <2>2, <2>3, <2>4
<1>2. CASE Starts = {} /\ t_since >= LongAgo /\ t_deadtime = fConfig.TriggerHoldoff
  BY <1>1, <1>2 DEF ShortHoldoff, IsLive, LongAgo
<1>3. CASE \E l \in Starts : Latest(l)
  <2>1. PICK l \in Starts : Latest(l)
    BY <1>3
  <2>2. /\ l \in Int /\ DeadtimeAfter(l) \in Nat /\ l = TimeOf(i) - Period - t_since
        /\ t_deadtime = DeadtimeAfter(l)
    BY <1>1, <2>1 DEF Latest
  <2>3. ASSUME NEW s \in Starts PROVE s \in Int /\ DeadtimeAfter(s) \in Nat /\ (s = l \/ (s < l /\ l - s > DeadtimeAfter(s)))
    BY <1>1, <2>1 DEF Latest
  <2>4. \A s \in Starts : s + Period <= TimeOf(i)
    BY <1>1, <2>2, <2>3
  <2>5. IsLive => \A s \in Starts : TimeOf(i) - s > DeadtimeAfter(s)
    BY <1>1, <2>2, <2>3 DEF IsLive
  <2>6. ~IsLive => l < TimeOf(i) /\ TimeOf(i) - l <= DeadtimeAfter(l)
    BY <1>1, <2>2 DEF IsLive
  <2> QED BY <2>4, <2>5, <2>6 DEF Dead
<1> QED BY <1>2, <1>3 DEF SinceLatest

(* What is said of the scan does not change with what it is not said of.   *)
LEMMA SameScan ==
  ASSUME UNCHANGED <<fConfig, fTriggerRangesPerChannel, scanVars, adcs>>
  PROVE  /\ Found' = Found /\ BeamTimes' = BeamTimes /\ Starts' = Starts
         /\ Read' = Read /\ StartI' = StartI /\ EndI' = EndI
         /\ \A k : Val(k)' = Val(k)
         /\ \A s : DeadtimeAfter(s)' = DeadtimeAfter(s)
         /\ \A t : Dead(t)' = Dead(t)
<1>1. Found' = Found
  BY DEF Found, scanVars
<1>2. BeamTimes' = BeamTimes
  BY <1>1 DEF BeamTimes
<1>3. PulseTimes' = PulseTimes
  BY <1>1 DEF PulseTimes, scanVars
<1>4. Starts' = Starts
  BY <1>2, <1>3 DEF Starts
<1>5. StartI' = StartI /\ EndI' = EndI
  BY SameEnds
<1>6. Read' = Read /\ \A k : Val(k)' = Val(k)
  BY <1>5 DEF Read, Val
<1>7. \A s : DeadtimeAfter(s)' = DeadtimeAfter(s)
  BY <1>2 DEF DeadtimeAfter
<1>8. \A t : Dead(t)' = Dead(t)
  BY <1>4, <1>7 DEF Dead
<1> QED BY <1>1, <1>2, <1>4, <1>5, <1>6, <1>7, <1>8

(* Before the first sample of an event nothing is found.                   *)
LEMMA ScanFresh ==
  ASSUME stage = "find", FreshScan, adcs = <<>>, fTriggerRangesPerChannel[Channel] = <<>>, Typed
  PROVE  ScanInv
<1>1. StartI \in Nat
  BY ScanEnds DEF Typed, MembersTyped
<1>2. Found = {} /\ Read = {}
  BY <1>1 DEF Found, FreshScan, ToSet, Read
<1>3. BeamTimes = {} /\ Starts = {}
  BY <1>2 DEF BeamTimes, PulseTimes, Starts, FreshScan
<1>4. SinceLatest
  BY <1>3 DEF SinceLatest, FreshScan, LongAgo
<1>5. Scanning
  BY <1>2, <1>3, <1>4 DEF Scanning, FreshScan
<1> QED BY <1>2, <1>3, <1>5 DEF ScanInv, FoundOnSamples, OneBeam, HoldoffRespected, PulsesFound, BeamHeldOff

(* An iteration keeps what the scan knows of its triggers.                 *)
LEMMA ScanStep ==
  ASSUME Typed, ScanInv, NEW val \in Levels, Sample(val)
  PROVE  ScanInv'
<1> DEFINE opens == Opens(val)
           closes == Closes(val)
           beam == IsLive /\ IsBeamSample
<1>1. PICK m, T : m = i /\ T = TimeOf(i)
  OBVIOUS
<1>2. /\ stage = "find" /\ stage' = "find" /\ m <= EndI /\ i' = m + 1 /\ fConfig' = fConfig
      /\ above_threshold' = (opens \/ (above_threshold /\ ~closes))
      /\ trigger_start' = IF opens THEN T ELSE trigger_start
      /\ t_since' = IF opens \/ beam THEN 0 ELSE t_since + Period
      /\ t_deadtime' = Deadtime(opens, beam)
      /\ beam_trigger_added' = (beam \/ beam_trigger_added)
  BY <1>1 DEF Sample, memberVars
<1>3. /\ m \in Int /\ T \in Int /\ TimeOf(m) = T /\ TimeOf(i') = T + Period /\ StartI \in Nat /\ StartI <= m
      /\ Period \in Nat /\ Period > 0 /\ trigger_start \in Int /\ t_since \in Nat /\ EndI \in Int
      /\ StartI' = StartI /\ EndI' = EndI
      /\ above_threshold \in BOOLEAN /\ beam_trigger_added \in BOOLEAN
  <2>1. /\ i \in Int /\ StartI <= i /\ trigger_start \in Int /\ t_since \in Nat /\ fConfig \in Configs
        /\ above_threshold \in BOOLEAN /\ beam_trigger_added \in BOOLEAN
    BY DEF Typed, ScanTyped, MembersTyped
  <2>2. StartI \in Nat /\ EndI \in Int /\ StartI' = StartI /\ EndI' = EndI
    BY <1>2, <2>1, ScanEnds, SameEnds
  <2>3. TimeOf(m) = T /\ T \in Int /\ TimeOf(m + 1) = T + Period /\ Period \in Nat /\ Period > 0
    BY <1>1, <2>1, TimesInOrder, TriggerAssumption
  <2> QED BY <1>1, <1>2, <2>1, <2>2, <2>3
<1>4. /\ Found' = Found \cup (IF closes THEN {<<trigger_start, T>>} ELSE {})
                        \cup (IF beam THEN {<<T, T>>} ELSE {})
      /\ BeamTimes' = BeamTimes \cup (IF beam THEN {T} ELSE {})
      /\ Starts' = Starts \cup (IF opens \/ beam THEN {T} ELSE {})
      /\ Read' = Read \cup {m} /\ m \notin Read /\ Read = StartI .. m - 1
      /\ \A k \in Read : Val(k)' = Val(k)
      /\ Val(m)' = val
  BY <1>1, SampleEffect
<1>5. /\ SinceLatest /\ (\A L \in Found : L[2] < TimeOf(i)) /\ (above_threshold => \E j \in Read : OpenAt(j))
      /\ (beam_trigger_added <=> BeamTimes # {})
      /\ FoundOnSamples /\ OneBeam /\ HoldoffRespected
      /\ ShortHoldoff => PulsesFound /\ BeamHeldOff
  BY <1>2 DEF ScanInv, Scanning
<1>6. /\ \A s \in Starts : s \in Int /\ DeadtimeAfter(s) \in Nat /\ s + Period <= T
      /\ IsLive => \A s \in Starts : T - s > DeadtimeAfter(s)
      /\ ShortHoldoff /\ ~IsLive => Dead(T)
      /\ BeamTimes \subseteq Starts /\ Found \subseteq Ranges
  BY <1>1, <1>5, LiveIsNotDead, StartsKnown
<1>7. /\ closes => above_threshold /\ ~opens
      /\ opens => IsLive /\ ~above_threshold /\ val = "above"
      /\ beam => IsLive /\ IsBeamSample
      /\ above_threshold /\ ~closes => val # "below" /\ m + 1 # EndI
  BY <1>1 DEF Opens, Closes, Levels
<1>8. /\ fConfig.BeamTriggerEnable /\ ~beam_trigger_added /\ IsNearBeam(m) => IsBeamSample
      /\ IsBeamSample => ~beam_trigger_added
  <2>1. fConfig.BeamTriggerTime \in Int
    BY TriggerAssumption DEF Typed, MembersTyped, ConfigType
  <2> QED BY <1>1, <1>3, <2>1 DEF IsBeamSample, IsNearBeam
<1> HIDE DEF opens, closes, beam
<1>9. \A s \in Starts : DeadtimeAfter(s)' = DeadtimeAfter(s)
  BY <1>2, <1>3, <1>4, <1>6 DEF DeadtimeAfter
<1>10. opens \/ beam => DeadtimeAfter(T)' = t_deadtime'
  <2>1. T \notin BeamTimes
    BY <1>3, <1>6
  <2>2. CASE beam
    BY <1>2, <1>4, <2>2 DEF DeadtimeAfter, Deadtime
  <2>3. CASE ~beam /\ opens
    BY <1>2, <1>4, <2>1, <2>3 DEF DeadtimeAfter, Deadtime
  <2> QED BY <2>2, <2>3
<1>11. /\ \A t : Dead(t) => Dead(t)'
       /\ \A t \in Int : t <= T /\ Dead(t)' => Dead(t)
  <2>1. ASSUME NEW t, Dead(t) PROVE Dead(t)'
    BY <1>4, <1>9, <2>1 DEF Dead
  <2>2. ASSUME NEW t \in Int, t <= T, Dead(t)' PROVE Dead(t)
    <3>1. PICK s \in Starts' : s < t /\ t - s <= DeadtimeAfter(s)'
      BY <2>2 DEF Dead
    <3>2. s \in Starts
      BY <1>3, <1>4, <2>2, <3>1
    <3> QED BY <1>9, <3>1, <3>2 DEF Dead
  <2> QED BY <2>1, <2>2
<1>12. IsLive => ~Dead(T)
  <2> SUFFICES ASSUME IsLive, NEW s \in Starts PROVE ~(T - s <= DeadtimeAfter(s))
    BY DEF Dead
  <2>1. T - s > DeadtimeAfter(s) /\ s \in Int /\ DeadtimeAfter(s) \in Nat
    BY <1>6
  <2> QED BY <1>3, <2>1
<1>13. SinceLatest'
  <2>1. CASE opens \/ beam
    <3>1. T = TimeOf(i)' - Period - t_since' /\ T \in Starts'
      BY <1>2, <1>3, <1>4, <2>1 DEF TimeOf
    <3>2. \A s \in Starts' : s # T => s < T /\ T - s > DeadtimeAfter(s)'
      BY <1>3, <1>4, <1>6, <1>7, <1>9, <2>1
    <3>3. Latest(T)'
      BY <1>10, <2>1, <3>1, <3>2 DEF Latest
    <3> QED BY <3>1, <3>3 DEF SinceLatest
  <2>2. CASE ~(opens \/ beam)
    <3>1. /\ Starts' = Starts /\ t_since' = t_since + Period /\ t_deadtime' = t_deadtime
          /\ TimeOf(i)' = T + Period /\ BeamTimes' = BeamTimes
      <4>1. TimeOf(i)' = TimeOf(i')
        BY DEF TimeOf
      <4> QED BY <1>2, <1>3, <1>4, <2>2, <4>1 DEF Deadtime
    <3>2. ASSUME Starts = {}, t_since >= LongAgo, t_deadtime = fConfig.TriggerHoldoff PROVE SinceLatest'
      BY <1>2, <1>3, <3>1, <3>2 DEF SinceLatest, LongAgo
    <3>3. ASSUME NEW l \in Starts, Latest(l) PROVE SinceLatest'
      <4>1. /\ l = T - Period - t_since /\ t_deadtime = DeadtimeAfter(l)
            /\ \A s \in Starts : s # l => s < l /\ l - s > DeadtimeAfter(s)
        BY <1>1, <3>3 DEF Latest
      <4>2. l = TimeOf(i)' - Period - t_since'
        BY <1>3, <3>1, <4>1
      <4>3. t_deadtime' = DeadtimeAfter(l)' /\ \A s \in Starts' : s # l => s < l /\ l - s > DeadtimeAfter(s)'
        BY <1>9, <3>1, <4>1
      <4>4. Latest(l)'
        BY <4>2, <4>3 DEF Latest
      <4> QED BY <3>1, <4>4 DEF SinceLatest
    <3> QED BY <1>5, <3>2, <3>3 DEF SinceLatest
  <2> QED BY <2>1, <2>2
<1>14. ASSUME NEW j \in Int, NEW t \in Int, NotBelow(j, t), t <= T \/ val # "below"
       PROVE  NotBelow(j, t)'
  <2> SUFFICES ASSUME NEW k \in Read', j <= k, TimeOf(k) < t PROVE Val(k)' # "below"
    BY DEF NotBelow, TimeOf
  <2>1. CASE k \in Read
    BY <1>4, <1>14, <2>1 DEF NotBelow
  <2>2. CASE k = m
    BY <1>3, <1>4, <1>14, <2>2
  <2> QED BY <1>4, <2>1, <2>2
<1>15. above_threshold' => \E j \in Read' : OpenAt(j)'
  <2>1. CASE opens
    <3>1. \A k \in Read' : m <= k => k = m
      BY <1>3, <1>4
    <3>2. trigger_start' = TimeOf(m)' /\ (i' >= EndI' => m >= EndI' - 1)
      BY <1>2, <1>3, <2>1 DEF TimeOf
    <3>3. OpenAt(m)'
      BY <1>4, <1>7, <2>1, <3>1, <3>2 DEF OpenAt, NotBelow
    <3> QED BY <1>4, <3>3
  <2>2. CASE ~opens /\ above_threshold /\ ~closes
    <3>1. PICK j \in Read : OpenAt(j)
      BY <1>5, <2>2
    <3>2. j \in Int /\ trigger_start = TimeOf(j) /\ (m >= EndI => j >= EndI - 1) /\ NotBelow(j, T)
      BY <1>1, <1>3, <1>4, <3>1 DEF OpenAt
    <3>3. trigger_start' = TimeOf(j)' /\ (i' >= EndI' => j >= EndI' - 1)
      BY <1>2, <1>3, <1>7, <2>2, <3>2 DEF TimeOf
    <3>4. NotBelow(j, T + Period)
      BY <1>3, <1>4, <3>2, TimesInOrder DEF NotBelow
    <3>5. NotBelow(j, T + Period)'
      BY <1>3, <1>7, <1>14, <2>2, <3>2, <3>4
    <3>6. TimeOf(i)' = T + Period
      BY <1>3 DEF TimeOf
    <3>7. NotBelow(j, TimeOf(i))'
      BY <3>5, <3>6 DEF NotBelow
    <3>8. OpenAt(j)'
      BY <3>3, <3>7 DEF OpenAt
    <3> QED BY <1>4, <3>8
  <2> QED BY <1>2, <2>1, <2>2
<1>16. beam_trigger_added' <=> BeamTimes' # {}
  BY <1>2, <1>4, <1>5
<1>17. \A L \in Found' : L[2] < TimeOf(i)'
  <2> SUFFICES ASSUME NEW L \in Found' PROVE L[2] < TimeOf(i)'
    OBVIOUS
  <2>1. TimeOf(i)' = T + Period
    BY <1>3 DEF TimeOf
  <2>2. L \in Found \/ L = <<trigger_start, T>> \/ L = <<T, T>>
    BY <1>4
  <2>3. L \in Found => L[2] \in Int /\ L[2] < T
    BY <1>1, <1>5, <1>6 DEF Ranges
  <2> QED BY <1>3, <2>1, <2>2, <2>3
<1>18. Scanning'
  BY <1>13, <1>15, <1>16, <1>17 DEF Scanning
<1>19. FoundOnSamples'
  <2> SUFFICES ASSUME NEW L \in Found' PROVE \E j \in Nat : j >= StartI' /\ StartedAt(L, j)'
    BY DEF FoundOnSamples, StartedAt
  <2>1. CASE L \in Found
    <3>1. PICK j \in Nat : j >= StartI /\ L[1] = TimeOf(j) /\ NotBelow(j, L[2])
      BY <1>5, <2>1 DEF FoundOnSamples, StartedAt
    <3>2. L[2] \in Int /\ L[2] <= T
      BY <1>1, <1>3, <1>5, <1>6, <2>1 DEF Ranges
    <3>3. NotBelow(j, L[2])'
      BY <1>14, <3>1, <3>2
    <3> QED BY <1>3, <3>1, <3>3 DEF StartedAt, TimeOf
  <2>2. CASE closes /\ L = <<trigger_start, T>>
    <3>1. PICK j \in Read : OpenAt(j)
      BY <1>5, <1>7, <2>2
    <3>2. j \in Nat /\ j >= StartI /\ trigger_start = TimeOf(j) /\ NotBelow(j, T)
      BY <1>1, <1>3, <1>4, <3>1 DEF OpenAt
    <3>3. NotBelow(j, T)'
      BY <1>3, <1>14, <3>2
    <3>4. L[1] = trigger_start /\ L[2] = T
      BY <2>2
    <3>5. L[1] = TimeOf(j)' /\ NotBelow(j, L[2])'
      BY <3>2, <3>3, <3>4 DEF TimeOf
    <3> QED BY <1>3, <3>2, <3>5 DEF StartedAt
  <2>3. CASE L = <<T, T>>
    <3>1. \A k \in Read' : m <= k => k = m
      BY <1>3, <1>4
    <3>2. ~(TimeOf(m) < T) /\ L[1] = TimeOf(m)' /\ L[2] = T
      BY <1>3, <2>3 DEF TimeOf
    <3>3. NotBelow(m, L[2])'
      BY <3>1, <3>2 DEF NotBelow, TimeOf
    <3> QED BY <1>3, <3>2, <3>3 DEF StartedAt
  <2> QED BY <1>4, <2>1, <2>2, <2>3
<1>20. OneBeam'
  BY <1>4, <1>5, <1>7, <1>8 DEF OneBeam
<1>21. HoldoffRespected'
  <2> SUFFICES ASSUME NEW s \in Starts' PROVE ~Dead(s)'
    BY DEF HoldoffRespected, Dead, DeadtimeAfter, BeamTimes, Starts, PulseTimes, Found
  <2>1. CASE s \in Starts
    <3>1. s \in Int /\ s <= T /\ ~Dead(s)
      BY <1>3, <1>5, <1>6, <2>1 DEF HoldoffRespected
    <3> QED BY <1>11, <3>1
  <2>2. CASE s = T /\ (opens \/ beam)
    BY <1>3, <1>7, <1>11, <1>12, <2>2
  <2> QED BY <1>4, <2>1, <2>2
<1>22. ASSUME ShortHoldoff, NEW k \in Read', NEW t \in Int, t = TimeOf(k), Val(k)' = "above"
       PROVE  \/ (\E L \in Found' : L[1] <= t /\ t <= L[2]) \/ Dead(t)'
              \/ above_threshold' /\ trigger_start' <= t
  <2>1. CASE k \in Read
    <3>1. (\E L \in Found : L[1] <= t /\ t <= L[2]) \/ Dead(t) \/ (above_threshold /\ trigger_start <= t)
      BY <1>2, <1>4, <1>5, <1>22, <2>1 DEF PulsesFound, InRange
    <3>2. t < T
      BY <1>3, <1>4, <1>22, <2>1, TimesInOrder
    <3>3. ASSUME trigger_start <= t, closes PROVE \E L \in Found' : L[1] <= t /\ t <= L[2]
      <4> DEFINE L == <<trigger_start, T>>
      <4>1. L[1] <= t /\ t <= L[2]
        BY <1>3, <3>2, <3>3
      <4>2. L \in Found'
        BY <1>4, <3>3
      <4> QED BY <4>1, <4>2
    <3>4. ASSUME above_threshold, trigger_start <= t, ~closes PROVE above_threshold' /\ trigger_start' <= t
      BY <1>2, <1>7, <3>4
    <3>5. Found \subseteq Found'
      BY <1>4
    <3> QED BY <1>11, <3>1, <3>3, <3>4, <3>5
  <2>2. CASE k = m
    <3>1. t = T /\ val = "above"
      BY <1>3, <1>4, <1>22, <2>2
    <3>2. CASE above_threshold /\ closes
      <4> DEFINE L == <<trigger_start, T>>
      <4>1. trigger_start < T
        BY <1>1, <3>2 DEF Typed, ScanTyped
      <4>2. L[1] <= t /\ t <= L[2]
        BY <1>3, <3>1, <4>1
      <4>3. L \in Found'
        BY <1>4, <3>2
      <4> QED BY <4>2, <4>3
    <3>3. CASE above_threshold /\ ~closes
      <4>1. trigger_start < T
        BY <1>1, <3>3 DEF Typed, ScanTyped
      <4>2. above_threshold' /\ trigger_start' = trigger_start
        BY <1>2, <1>7, <3>3
      <4> QED BY <1>3, <3>1, <4>1, <4>2
    <3>4. CASE ~above_threshold /\ IsLive
      <4>1. opens
        BY <3>1, <3>4 DEF opens, Opens
      <4>2. above_threshold' /\ trigger_start' = T
        BY <1>2, <4>1
      <4> QED BY <1>3, <3>1, <4>2
    <3>5. CASE ~IsLive
      BY <1>6, <1>11, <1>22, <3>1, <3>5
    <3> QED BY <3>2, <3>3, <3>4, <3>5
  <2> QED BY <1>4, <2>1, <2>2
<1>23. ASSUME ShortHoldoff PROVE PulsesFound'
  <2> SUFFICES ASSUME NEW k \in Read', Val(k)' = "above"
               PROVE  \/ InRange(TimeOf(k))' \/ Dead(TimeOf(k))'
                      \/ above_threshold' /\ trigger_start' <= TimeOf(k)'
    BY <1>2 DEF PulsesFound
  <2>1. PICK t \in Int : t = TimeOf(k) /\ t = TimeOf(k)'
    <3>1. k \in Int
      BY <1>3, <1>4
    <3>2. TimeOf(k) \in Int /\ TimeOf(k)' = TimeOf(k)
      BY <3>1, TimesInOrder DEF TimeOf
    <3> QED BY <3>2
  <2>2. (\E L \in Found' : L[1] <= t /\ t <= L[2]) \/ Dead(t)' \/ (above_threshold' /\ trigger_start' <= t)
    BY <1>22, <1>23, <2>1
  <2>3. (InRange(TimeOf(k))' <=> \E L \in Found' : L[1] <= t /\ t <= L[2]) /\ Dead(TimeOf(k))' = Dead(t)'
    BY <2>1 DEF InRange, Dead
  <2> QED BY <2>1, <2>2, <2>3
<1>24. ASSUME ShortHoldoff PROVE BeamHeldOff'
  <2> SUFFICES ASSUME fConfig.BeamTriggerEnable, BeamTimes' = {}, NEW k \in Read', IsNearBeam(k)
               PROVE  Dead(TimeOf(k))'
    BY <1>2 DEF BeamHeldOff, IsNearBeam, TimeOf
  <2>1. PICK t \in Int : t = TimeOf(k) /\ t = TimeOf(k)'
    <3>1. k \in Int
      BY <1>3, <1>4
    <3>2. TimeOf(k) \in Int /\ TimeOf(k)' = TimeOf(k)
      BY <3>1, TimesInOrder DEF TimeOf
    <3> QED BY <3>2
  <2>2. BeamTimes = {} /\ ~beam
    BY <1>4
  <2>3. Dead(t)
    <3>1. CASE k \in Read
      BY <1>2, <1>5, <1>24, <2>1, <2>2, <3>1 DEF BeamHeldOff
    <3>2. CASE k = m
      <4>1. ~beam_trigger_added
        BY <1>5, <2>2
      <4> QED BY <1>3, <1>6, <1>8, <1>24, <2>1, <2>2, <3>2, <4>1 DEF beam
    <3> QED BY <1>4, <3>1, <3>2
  <2>4. Dead(TimeOf(k))' = Dead(t)'
    BY <2>1 DEF Dead
  <2> QED BY <1>11, <2>3, <2>4
<1> QED BY <1>18, <1>19, <1>20, <1>21, <1>23, <1>24 DEF ScanInv

(* What the scan has found is stored, but for a trigger that is open: it   *)
(* opened at one of the last two samples.                                  *)
LEMMA ScanStored ==
  ASSUME Typed, ScanInv, Store
  PROVE  ScanInv'
<1>1. /\ stage = "find" /\ stage' = "merge" /\ i > EndI /\ fConfig' = fConfig /\ adcs' = adcs
      /\ above_threshold' = FALSE /\ locations' = <<>>
  BY DEF Store
<1>2. /\ fTriggerRangesPerChannel[Channel] = <<>> /\ fTriggerRangesPerChannel'[Channel] = locations
  BY <1>1, StoreTyped, TriggerAssumption DEF Typed, MembersTyped, ScanTyped
<1>3. Found' = Found
  <2>1. ToSet(<<>>) = {}
    BY DEF ToSet
  <2> QED BY <1>1, <1>2, <2>1 DEF Found
<1>4. BeamTimes' = BeamTimes /\ \A s : DeadtimeAfter(s)' = DeadtimeAfter(s)
  <2>1. BeamTimes' = BeamTimes
    BY <1>3 DEF BeamTimes
  <2> QED BY <1>1, <2>1 DEF DeadtimeAfter
<1>5. /\ Starts' \subseteq Starts
      /\ Starts \subseteq Starts' \cup (IF above_threshold THEN {trigger_start} ELSE {})
  <2>1. /\ PulseTimes' \subseteq PulseTimes
        /\ PulseTimes \subseteq PulseTimes' \cup (IF above_threshold THEN {trigger_start} ELSE {})
    BY <1>1, <1>3 DEF PulseTimes
  <2> QED BY <1>4, <2>1 DEF Starts
<1>6. StartI' = StartI /\ EndI' = EndI /\ StartI \in Nat /\ EndI \in Int /\ i \in Int /\ Len(adcs) = i - StartI
  BY <1>1, SameEnds, ScanEnds DEF Typed, ScanTyped, MembersTyped
<1>7. Read' = Read /\ Read = StartI .. i - 1 /\ \A k : Val(k)' = Val(k)
  BY <1>1, <1>6 DEF Read, Val
<1>8. \A t : Dead(t)' => Dead(t)
  BY <1>4, <1>5 DEF Dead
<1>9. ASSUME NEW k \in Read, k < EndI, Dead(TimeOf(k)) PROVE Dead(TimeOf(k))'
  <2>1. PICK s \in Starts : s < TimeOf(k) /\ TimeOf(k) - s <= DeadtimeAfter(s)
    BY <1>9 DEF Dead
  <2>2. s \in Starts'
    <3> SUFFICES ASSUME above_threshold, s = trigger_start PROVE FALSE
      BY <1>5, <2>1
    <3>1. PICK j \in Read : OpenAt(j)
      BY <1>1 DEF ScanInv, Scanning
    <3>2. j \in Int /\ k \in Int /\ trigger_start = TimeOf(j) /\ j >= EndI - 1
      BY <1>1, <1>6, <1>7, <3>1 DEF OpenAt
    <3>3. j < k
      BY <2>1, <3>2, TimesInOrder
    <3> QED BY <1>6, <1>9, <3>2, <3>3
  <2> QED BY <1>4, <2>1, <2>2 DEF Dead, TimeOf
<1>10. Scanning'
  BY <1>1 DEF Scanning
<1>11. FoundOnSamples' /\ OneBeam'
  BY <1>3, <1>4, <1>6, <1>7 DEF ScanInv, FoundOnSamples, OneBeam, StartedAt, NotBelow, TimeOf
<1>12. HoldoffRespected'
  <2> SUFFICES ASSUME NEW s \in Starts' PROVE ~Dead(s)'
    BY DEF HoldoffRespected, Dead, DeadtimeAfter, BeamTimes, Starts, PulseTimes, Found
  <2> QED BY <1>5, <1>8 DEF ScanInv, HoldoffRespected
<1>13. ASSUME ShortHoldoff PROVE PulsesFound'
  <2> SUFFICES ASSUME NEW k \in Read', k < EndI' - 1, Val(k)' = "above"
               PROVE  InRange(TimeOf(k))' \/ Dead(TimeOf(k))'
    BY <1>1 DEF PulsesFound, StoredIfLive
  <2>1. k \in Read /\ k \in Int /\ k < EndI - 1 /\ k < EndI /\ Val(k) = "above"
    BY <1>6, <1>7
  <2>2. InRange(TimeOf(k)) \/ Dead(TimeOf(k)) \/ (above_threshold /\ trigger_start <= TimeOf(k))
    BY <1>1, <1>13, <2>1 DEF ScanInv, PulsesFound
  <2>3. ASSUME above_threshold PROVE ~(trigger_start <= TimeOf(k))
    <3>1. PICK j \in Read : OpenAt(j)
      BY <1>1, <2>3 DEF ScanInv, Scanning
    <3>2. j \in Int /\ trigger_start = TimeOf(j) /\ j >= EndI - 1
      BY <1>1, <1>6, <1>7, <3>1 DEF OpenAt
    <3>3. k < j
      BY <1>6, <2>1, <3>2
    <3> QED BY <2>1, <3>2, <3>3, TimesInOrder
  <2>4. InRange(TimeOf(k)) => InRange(TimeOf(k))'
    BY <1>3 DEF InRange, TimeOf
  <2> QED BY <1>9, <2>1, <2>2, <2>3, <2>4
<1>14. ASSUME ShortHoldoff PROVE BeamHeldOff'
  <2> SUFFICES ASSUME fConfig.BeamTriggerEnable, BeamTimes' = {}, NEW k \in Read', IsNearBeam(k), k < EndI
               PROVE  Dead(TimeOf(k))'
    BY <1>1, <1>6 DEF BeamHeldOff, IsNearBeam, TimeOf
  <2> QED BY <1>1, <1>4, <1>7, <1>9, <1>14 DEF ScanInv, BeamHeldOff
<1> QED BY <1>10, <1>11, <1>12, <1>13, <1>14 DEF ScanInv

(* The scan's invariant holds throughout.                                  *)
LEMMA ScanInvStep == Typed /\ ScanInv /\ [Next]_vars /\ Typed' => ScanInv'
<1> SUFFICES ASSUME Typed, ScanInv, [Next]_vars, Typed' PROVE ScanInv'
  OBVIOUS
<1>1. CASE Find
  BY <1>1, ScanStep, ScanStored DEF Find
<1>2. ASSUME UNCHANGED <<fConfig, fTriggerRangesPerChannel, scanVars, adcs>>,
             stage = "find" <=> stage' = "find"
      PROVE  ScanInv'
  <2>1. /\ Found' = Found /\ BeamTimes' = BeamTimes /\ Starts' = Starts
        /\ Read' = Read /\ StartI' = StartI /\ EndI' = EndI
        /\ \A k : Val(k)' = Val(k)
        /\ \A s : DeadtimeAfter(s)' = DeadtimeAfter(s)
        /\ \A t : Dead(t)' = Dead(t)
    BY <1>2, SameScan
  <2>2. /\ i' = i /\ above_threshold' = above_threshold /\ trigger_start' = trigger_start
        /\ t_since' = t_since /\ t_deadtime' = t_deadtime /\ beam_trigger_added' = beam_trigger_added
        /\ fConfig' = fConfig
    BY <1>2 DEF scanVars
  <2>3. \A j, t : NotBelow(j, t)' = NotBelow(j, t)
    BY <2>1 DEF NotBelow, TimeOf
  <2>4. \A l : Latest(l)' = Latest(l)
    BY <2>1, <2>2 DEF Latest, TimeOf
  <2>5. SinceLatest' = SinceLatest
    BY <2>1, <2>2, <2>4 DEF SinceLatest
  <2>6. \A j : OpenAt(j)' = OpenAt(j)
    BY <2>1, <2>2, <2>3 DEF OpenAt, TimeOf, NotBelow
  <2>7. Scanning'
    BY <1>2, <2>1, <2>2, <2>5, <2>6 DEF ScanInv, Scanning, TimeOf
  <2>8. \A L, j : StartedAt(L, j)' = StartedAt(L, j)
    BY <2>3 DEF StartedAt, TimeOf, NotBelow
  <2>9. FoundOnSamples' /\ OneBeam'
    BY <2>1, <2>8 DEF ScanInv, FoundOnSamples, OneBeam
  <2>10. HoldoffRespected'
    BY <2>1 DEF ScanInv, HoldoffRespected
  <2>11. \A k : Dead(TimeOf(k))' = Dead(TimeOf(k)) /\ InRange(TimeOf(k))' = InRange(TimeOf(k))
    BY <2>1 DEF InRange, TimeOf, Dead
  <2>12. ShortHoldoff => PulsesFound'
    BY <1>2, <2>1, <2>2, <2>11 DEF ScanInv, PulsesFound, StoredIfLive, TimeOf
  <2>13. ShortHoldoff => BeamHeldOff'
    BY <1>2, <2>1, <2>2, <2>11 DEF ScanInv, BeamHeldOff, IsNearBeam, TimeOf
  <2> QED BY <2>7, <2>9, <2>10, <2>12, <2>13 DEF ScanInv
<1>3. CASE Merge \/ Apply
  BY <1>2, <1>3, LaterSteps
<1>4. CASE NextEvent
  <2>1. /\ stage = "applied" /\ stage' = "find" /\ adcs' = <<>> /\ UNCHANGED <<fConfig, scanVars>>
        /\ fTriggerRangesPerChannel'[Channel] = <<>>
    BY <1>4, EventRangesTyped DEF NextEvent, ClearTriggerLocations
  <2>2. FreshScan
    BY <2>1 DEF Typed, ScanTyped
  <2>3. FreshScan'
    BY <2>1, <2>2, SameEnds DEF FreshScan, scanVars
  <2>4. (stage = "find" /\ FreshScan /\ adcs = <<>> /\ fTriggerRangesPerChannel[Channel] = <<>> /\ Typed
          => ScanInv)'
    BY ScanFresh, PTL
  <2> QED BY <2>1, <2>3, <2>4
<1>5. CASE UNCHANGED vars
  BY <1>2, <1>5 DEF vars, memberVars
<1> QED BY <1>1, <1>3, <1>4, <1>5 DEF Next

(* What is said of the scan holds throughout.                              *)
LEMMA AlwaysScan == Spec => []ScanInv
<1>1. Init => ScanInv
  <2> SUFFICES ASSUME Init PROVE ScanInv
    OBVIOUS
  <2>1. /\ stage = "find" /\ FreshScan /\ adcs = <<>>
        /\ fTriggerRangesPerChannel[Channel] = <<>>
    BY EventRangesTyped DEF Init, CleanMembers
  <2> QED BY <2>1, TypedStart, ScanFresh
<1>2. Typed /\ ScanInv /\ [Next]_vars /\ Typed' => ScanInv'
  BY ScanInvStep
<1> QED BY <1>1, <1>2, AlwaysTyped, PTL DEF Spec

-----------------------------------------------------------------------------
(* A primitive that finishes no sooner than it starts keeps every other    *)
(* from being popped, once it is among them.                               *)
LEMMA NonePopped ==
  ASSUME NEW s \in Seq(Primitives), FinishesOf(s), NEW p \in Primitives,
         \E k \in 1 .. Len(s) : s[k] = p, p.start <= p.finish
  PROVE  PopBack(s, p.start) = s
<1> DEFINE l == Len(s)
           A == {k \in DOMAIN s : \E j \in k .. l : s[j].finish >= p.start}
<1>1. l \in Nat /\ DOMAIN s = 1 .. l /\ \A k \in 1 .. l : s[k] \in Primitives
  OBVIOUS
<1>2. PICK m \in 1 .. l : s[m] = p
  OBVIOUS
<1>3. PopBack(s, p.start) = SubSeq(s, 1, Cardinality(A))
  BY DEF PopBack
<1>4. SubSeq(s, 1, l) = s
  BY <1>1
<1> HIDE DEF l
<1>5. s[l].finish >= p.start
  <2>1. \A q \in Primitives : q.start \in Int /\ q.finish \in Int
    BY DEF Primitives
  <2>2. (m = l \/ m < l) /\ l \in 1 .. l
    BY <1>1, <1>2
  <2>3. s[m].finish <= s[l].finish
    BY <1>1, <1>2, <2>1, <2>2 DEF FinishesOf
  <2> QED BY <1>1, <1>2, <2>1, <2>2, <2>3
<1>6. A = 1 .. l
  <2> SUFFICES ASSUME NEW k \in 1 .. l PROVE \E j \in k .. l : s[j].finish >= p.start
    BY <1>1
  <2>1. l \in k .. l
    BY <1>1
  <2> QED BY <1>5, <2>1
<1>7. Cardinality(1 .. l) = l
  BY <1>1, FS_Interval
<1> HIDE DEF A
<1> QED BY <1>3, <1>4, <1>6, <1>7

(* While it is under way, the merge has looked at the first n - 1          *)
(* primitives and still has them all; the one trigger it may have issued   *)
(* is at the start of the first by which enough were counted.              *)
FirstReached ==
  IF fConfig.TriggerChannelCount = 0 THEN 1 ELSE fConfig.TriggerChannelCount
ReachedBy(m) == m > 1 /\ m - 1 >= fConfig.TriggerChannelCount
Merging ==
  /\ ~fConfig.SelfTriggerPerChannel
  /\ StartsOf(all_trigger_locations) /\ ToSet(all_trigger_locations) = AllPrimitives
  /\ n <= Len(all_trigger_locations) + 1
  /\ primitives \in Seq(Primitives) /\ FinishesOf(primitives) /\ Len(primitives) = n - 1
  /\ was_triggering <=> ReachedBy(n)
  /\ fTriggerLocations = IF ReachedBy(n) THEN <<all_trigger_locations[FirstReached].start>> ELSE <<>>

MergeInv ==
  /\ stage = "merge" /\ n > 0 => Merging
  /\ ~(stage = "merge" /\ n > 0) => FreshMerge
  /\ ~AfterMerge /\ n = 0 => fTriggerLocations = <<>>
  /\ AfterMerge =>
       IF fConfig.SelfTriggerPerChannel
       THEN fTriggerLocationsPerChannel[Channel] = OwnStarts(Channel)
       ELSE Len(fTriggerLocations) <= 1 /\ ToSet(fTriggerLocations) \subseteq StartTimes
  /\ FirstCoincidenceCaught

(* One iteration of the merge.                                             *)
LEMMA MergedOne ==
  ASSUME Typed, Merging, n > 0, MergeOne
  PROVE  Merging' /\ n' > 0
<1> DEFINE all == all_trigger_locations
           p == all[n]
           added == AddTriggerPrimitiveFinish(primitives, p)
           kept == PopBack(added, p.start)
           count == fConfig.TriggerChannelCount
<1>1. /\ n \in DOMAIN all /\ n' = n + 1 /\ primitives' = kept
      /\ fTriggerLocations' = IF IsReached(kept) /\ ~was_triggering THEN Append(fTriggerLocations, p.start)
                              ELSE fTriggerLocations
      /\ was_triggering' = IsReached(kept)
      /\ all_trigger_locations' = all /\ fConfig' = fConfig /\ masked' = masked
      /\ fTriggerRangesPerChannel' = fTriggerRangesPerChannel
  BY DEF MergeOne
<1>2. /\ all \in Seq(Primitives) /\ n \in 1 .. Len(all) /\ Len(all) \in Nat /\ p \in Primitives /\ count \in Nat
      /\ fTriggerRangesPerChannel \in [Channels -> Seq(Ranges)]
  <2>1. all \in Seq(Primitives) /\ fConfig \in Configs /\ fTriggerRangesPerChannel \in [Channels -> Seq(Ranges)]
    BY DEF Typed, MembersTyped
  <2>2. n \in 1 .. Len(all) /\ p \in Primitives
    BY <1>1, <2>1
  <2>3. count \in Nat
    BY <2>1, TriggerAssumption DEF ConfigType
  <2> QED BY <2>1, <2>2, <2>3
<1>3. p.start <= p.finish
  <2>1. p \in AllPrimitives
    BY <1>1 DEF Merging, ToSet
  <2>2. PICK c \in Channels : \E L \in ToSet(fTriggerRangesPerChannel[c]) : p = PrimitiveOf(c, L)
    BY <2>1 DEF AllPrimitives
  <2>4. PICK L \in ToSet(fTriggerRangesPerChannel[c]) : p = PrimitiveOf(c, L)
    BY <2>2
  <2>3. L \in Ranges
    <3>1. fTriggerRangesPerChannel[c] \in Seq(Ranges)
      BY <1>2
    <3> HIDE DEF Ranges
    <3> QED BY <3>1 DEF ToSet
  <2> QED BY <2>3, <2>4 DEF PrimitiveOf, Ranges
<1> HIDE DEF p, all
<1>4. /\ added \in Seq(Primitives) /\ FinishesOf(added) /\ Len(added) = Len(primitives) + 1
      /\ \E k \in 1 .. Len(added) : added[k] = p
  BY <1>2, FinishAdded DEF Merging
<1> HIDE DEF added
<1>5. kept = added
  BY <1>2, <1>3, <1>4, NonePopped
<1>6. Len(kept) = n /\ (IsReached(kept) <=> n >= count) /\ n \in Nat /\ n >= 1
  BY <1>2, <1>4, <1>5 DEF Merging, IsReached
<1>7. ReachedBy(n') <=> n >= count
  BY <1>1, <1>2, <1>6 DEF ReachedBy
<1>8. ReachedBy(n)' <=> n >= count
  BY <1>1, <1>7 DEF ReachedBy
<1>9. was_triggering' <=> ReachedBy(n)'
  BY <1>1, <1>6, <1>8
<1>10. fTriggerLocations' = IF ReachedBy(n)' THEN <<all[FirstReached].start>> ELSE <<>>
  <2>1. fTriggerLocations = (IF ReachedBy(n) THEN <<all[FirstReached].start>> ELSE <<>>)
        /\ (was_triggering <=> ReachedBy(n))
    BY DEF Merging, all
  <2>2. CASE n >= count /\ ~ReachedBy(n)
    <3>1. n = FirstReached
      BY <1>2, <1>6, <2>2 DEF ReachedBy, FirstReached
    <3>2. fTriggerLocations' = Append(<<>>, p.start)
      BY <1>1, <1>6, <2>1, <2>2
    <3>3. Append(<<>>, p.start) = <<p.start>>
      OBVIOUS
    <3> QED BY <1>8, <2>2, <3>1, <3>2, <3>3 DEF p
  <2>3. CASE n >= count /\ ReachedBy(n)
    BY <1>1, <1>6, <1>8, <2>1, <2>3
  <2>4. CASE ~(n >= count)
    <3>1. ~ReachedBy(n)
      BY <1>2, <1>6, <2>4 DEF ReachedBy
    <3> QED BY <1>1, <1>6, <1>8, <2>1, <2>4, <3>1
  <2> QED BY <2>2, <2>3, <2>4
<1>11. FirstReached' = FirstReached /\ AllPrimitives' = AllPrimitives
  BY <1>1 DEF FirstReached, AllPrimitives
<1>12. n' <= Len(all) + 1 /\ primitives' \in Seq(Primitives) /\ FinishesOf(primitives') /\ Len(primitives') = n' - 1
  BY <1>1, <1>2, <1>4, <1>5, <1>6
<1>13. ~fConfig'.SelfTriggerPerChannel /\ n' > 0 /\ StartsOf(all) /\ ToSet(all) = AllPrimitives'
  BY <1>1, <1>6, <1>11 DEF Merging, all
<1>14. all_trigger_locations' = all
  BY <1>1 DEF all
<1>15. FinishesOf(primitives)' /\ StartsOf(all_trigger_locations)'
  BY <1>12, <1>13, <1>14 DEF FinishesOf, StartsOf
<1>16. fTriggerLocations' = IF ReachedBy(n)' THEN <<all_trigger_locations[FirstReached].start>>' ELSE <<>>
  BY <1>10, <1>11, <1>14
<1>17. n' <= Len(all_trigger_locations') + 1 /\ ToSet(all_trigger_locations') = AllPrimitives'
  BY <1>12, <1>13, <1>14
<1> QED BY <1>9, <1>12, <1>13, <1>15, <1>16, <1>17 DEF Merging

(* The list is collected.                                                  *)
LEMMA MergeStarted ==
  ASSUME Typed, MergeInv, Collect
  PROVE  Merging' /\ n' > 0
<1>1. /\ stage = "merge" /\ ~fConfig.SelfTriggerPerChannel /\ n = 0 /\ n' = 1
      /\ UNCHANGED <<memberVars, primitives, was_triggering>>
  BY DEF Collect
<1>2. /\ all_trigger_locations' \in Seq(Primitives) /\ StartsOf(all_trigger_locations')
      /\ ToSet(all_trigger_locations') = AllPrimitives
  BY Collected DEF Typed, MembersTyped
<1>3. primitives = <<>> /\ was_triggering = FALSE /\ fTriggerLocations = <<>>
  BY <1>1 DEF MergeInv, FreshMerge, AfterMerge
<1>4. ~ReachedBy(n)'
  BY <1>1 DEF ReachedBy
<1>5. AllPrimitives' = AllPrimitives
  BY <1>1 DEF AllPrimitives, memberVars
<1>6. StartsOf(all_trigger_locations)'
  BY <1>2 DEF StartsOf
<1>7. primitives' \in Seq(Primitives) /\ FinishesOf(primitives)' /\ Len(primitives') = n' - 1
  BY <1>1, <1>3 DEF FinishesOf
<1>8. fTriggerLocations' = <<>> /\ ~was_triggering' /\ ~fConfig'.SelfTriggerPerChannel
  BY <1>1, <1>3 DEF memberVars
<1>9. n' <= Len(all_trigger_locations') + 1
  BY <1>1, <1>2
<1> QED BY <1>1, <1>2, <1>4, <1>5, <1>6, <1>7, <1>8, <1>9 DEF Merging

(* A coincidence has as many primitives that start no later; the trigger   *)
(* was issued by the last of them.                                         *)
LEMMA CoincidenceReached ==
  ASSUME Typed, Merging, n = Len(all_trigger_locations) + 1, NEW t \in Coincidences
  PROVE  \E s \in ToSet(fTriggerLocations) : s <= t
<1> DEFINE all == all_trigger_locations
           l == Len(all)
           f == [k \in 1 .. l |-> all[k].start]
           B == {k \in 1 .. l : f[k] < t + 1}
           d == Cardinality(B)
           count == fConfig.TriggerChannelCount
           Image == {all[k].channel : k \in B}
<1>1. /\ all \in Seq(Primitives) /\ fTriggerRangesPerChannel \in [Channels -> Seq(Ranges)]
      /\ fConfig \in Configs
  BY DEF Typed, MembersTyped
<1>2. l \in Nat /\ DOMAIN all = 1 .. l /\ \A k \in 1 .. l : all[k] \in Primitives
  BY <1>1
<1>3. count \in Nat
  BY <1>1, TriggerAssumption DEF ConfigType
<1>4. StartsOf(all) /\ \A p \in AllPrimitives : \E k \in 1 .. l : all[k] = p
  BY <1>2 DEF Merging, ToSet
<1>5. \A c \in Channels : \A L \in ToSet(fTriggerRangesPerChannel[c]) : L \in Ranges
  <2> SUFFICES ASSUME NEW c \in Channels PROVE \A L \in ToSet(fTriggerRangesPerChannel[c]) : L \in Ranges
    OBVIOUS
  <2>1. fTriggerRangesPerChannel[c] \in Seq(Ranges)
    BY <1>1
  <2> HIDE DEF Ranges
  <2> QED BY <2>1 DEF ToSet
<1>6. ASSUME NEW c \in Channels \ masked, NEW L \in ToSet(fTriggerRangesPerChannel[c])
      PROVE  \E k \in 1 .. l : all[k].start = L[1] /\ all[k].channel = c
  <2>1. PrimitiveOf(c, L) \in AllPrimitives
    BY DEF AllPrimitives
  <2>2. PICK k \in 1 .. l : all[k] = PrimitiveOf(c, L)
    BY <1>4, <2>1
  <2> QED BY <2>2 DEF PrimitiveOf
<1>7. t \in StartTimes /\ Cardinality(ChannelsAt(t)) >= count
  BY DEF Coincidences
<1>8. PICK c \in Channels \ masked : \E L \in ToSet(fTriggerRangesPerChannel[c]) : L[1] = t
  BY <1>7 DEF StartTimes
<1>9. t \in Int
  BY <1>5, <1>8 DEF Ranges
<1>10. \A k \in 1 .. l : f[k] = all[k].start /\ f[k] \in Int
  BY <1>2 DEF Primitives
<1>11. \A j, k \in 1 .. l : j < k => f[j] <= f[k]
  BY <1>2, <1>4, <1>10 DEF StartsOf
<1> HIDE DEF f, l
<1>12. d \in 0 .. l /\ \A k \in 1 .. l : f[k] < t + 1 <=> k <= d
  <2> DEFINE x == t + 1
  <2>1. x \in Int
    BY <1>9
  <2> HIDE DEF x
  <2>2. LET e == Cardinality({k \in 1 .. l : f[k] < x})
        IN  e \in 0 .. l /\ \A k \in 1 .. l : f[k] < x <=> k <= e
    BY <1>2, <1>10, <1>11, <2>1, SortedPrefix
  <2> QED BY <2>2 DEF x
<1>13. d >= 1
  <2>1. PICK k \in 1 .. l : all[k].start = t
    BY <1>6, <1>8
  <2>2. f[k] < t + 1
    BY <1>9, <1>10, <2>1
  <2> HIDE DEF d
  <2> QED BY <1>12, <2>2
<1>14. d >= count
  <2>1. IsFiniteSet(B)
    <3>1. IsFiniteSet(1 .. l) /\ B \subseteq 1 .. l
      BY <1>2, FS_Interval
    <3> HIDE DEF B
    <3> QED BY <3>1, FS_Subset
  <2>2. IsFiniteSet(Image) /\ Cardinality(Image) <= d
    <3> DEFINE g == [k \in B |-> all[k].channel]
    <3> HIDE DEF B
    <3>1. Image = {g[k] : k \in B}
      OBVIOUS
    <3> HIDE DEF g, Image
    <3> QED BY <2>1, <3>1, ImageOf
  <2>3. ChannelsAt(t) \subseteq Image
    <3> SUFFICES ASSUME NEW ch \in ChannelsAt(t) PROVE ch \in Image
      OBVIOUS
    <3>1. ch \in Channels \ masked /\ \E L \in ToSet(fTriggerRangesPerChannel[ch]) : L[1] <= t
      BY DEF ChannelsAt
    <3>2. PICK L \in ToSet(fTriggerRangesPerChannel[ch]) : L[1] <= t
      BY <3>1
    <3>3. PICK k \in 1 .. l : all[k].start = L[1] /\ all[k].channel = ch
      BY <1>6, <3>1
    <3>4. L[1] \in Int
      BY <1>5, <3>1 DEF Ranges
    <3>5. k \in B
      BY <1>9, <1>10, <3>2, <3>3, <3>4
    <3> HIDE DEF B
    <3> QED BY <3>3, <3>5
  <2> HIDE DEF Image, d
  <2>4. Cardinality(ChannelsAt(t)) <= Cardinality(Image) /\ Cardinality(Image) \in Nat
        /\ Cardinality(ChannelsAt(t)) \in Nat
    BY <2>2, <2>3, FS_Subset, FS_CardinalityType
  <2> QED BY <1>3, <1>7, <1>12, <2>2, <2>4
<1> HIDE DEF d, B, Image
<1>15. FirstReached \in 1 .. l /\ FirstReached <= d
  BY <1>2, <1>3, <1>12, <1>13, <1>14 DEF FirstReached
<1>16. f[FirstReached] <= t
  BY <1>9, <1>10, <1>12, <1>15
<1>17. ReachedBy(n)
  BY <1>2, <1>3, <1>12, <1>13, <1>14 DEF ReachedBy, l
<1>18. fTriggerLocations = <<all[FirstReached].start>>
  BY <1>17 DEF Merging
<1>19. all[FirstReached].start \in ToSet(fTriggerLocations)
  BY <1>18 DEF ToSet
<1> QED BY <1>10, <1>15, <1>16, <1>19

(* What the merge leaves.                                                  *)
LEMMA MergeDone ==
  ASSUME Typed, MergeInv, Merged
  PROVE  MergeInv'
<1>1. /\ stage = "merge" /\ n > Len(all_trigger_locations) /\ stage' = "apply"
      /\ UNCHANGED <<fConfig, masked, fTriggerRangesPerChannel,
                     fTriggerLocationsPerChannel, fTriggerLocations>>
      /\ all_trigger_locations' = <<>> /\ n' = 0 /\ primitives' = <<>> /\ was_triggering' = FALSE
  BY DEF Merged
<1>2. /\ all_trigger_locations \in Seq(Primitives) /\ n \in Nat /\ fTriggerLocations \in Seq(Int)
      /\ fConfig \in Configs
  BY DEF Typed, MembersTyped
<1>3. n > 0 /\ Merging
  <2>1. n > 0
    BY <1>1, <1>2
  <2> QED BY <1>1, <2>1 DEF MergeInv
<1>4. n = Len(all_trigger_locations) + 1 /\ ~fConfig.SelfTriggerPerChannel
  BY <1>1, <1>2, <1>3 DEF Merging
<1>5. \A t \in Coincidences : \E s \in ToSet(fTriggerLocations) : s <= t
  BY <1>3, <1>4, CoincidenceReached
<1>6. Len(fTriggerLocations) <= 1 /\ ToSet(fTriggerLocations) \subseteq StartTimes
  <2>1. CASE ~ReachedBy(n)
    BY <1>3, <2>1 DEF Merging, ToSet
  <2>2. CASE ReachedBy(n)
    <3> DEFINE p == all_trigger_locations[FirstReached]
    <3>1. fTriggerLocations = <<p.start>>
      BY <1>3, <2>2 DEF Merging
    <3>2. fConfig.TriggerChannelCount \in Nat
      BY <1>2, TriggerAssumption DEF ConfigType
    <3>3. FirstReached \in 1 .. Len(all_trigger_locations)
      BY <1>2, <1>4, <2>2, <3>2 DEF FirstReached, ReachedBy
    <3>4. p \in AllPrimitives
      <4>1. p \in ToSet(all_trigger_locations)
        BY <1>2, <3>3 DEF ToSet
      <4> QED BY <1>3, <4>1 DEF Merging
    <3> HIDE DEF p
    <3>5. PICK c \in Channels \ masked : \E L \in ToSet(fTriggerRangesPerChannel[c]) : p = PrimitiveOf(c, L)
      BY <3>4 DEF AllPrimitives
    <3>6. PICK L \in ToSet(fTriggerRangesPerChannel[c]) : p = PrimitiveOf(c, L)
      BY <3>5
    <3>7. p.start = L[1]
      BY <3>6 DEF PrimitiveOf
    <3>8. p.start \in StartTimes
      BY <3>7 DEF StartTimes
    <3>9. ToSet(<<p.start>>) = {p.start} /\ Len(<<p.start>>) = 1
      BY DEF ToSet
    <3> QED BY <3>1, <3>8, <3>9
  <2> QED BY <2>1, <2>2
<1>7. Coincidences' = Coincidences /\ StartTimes' = StartTimes
  BY <1>1 DEF Coincidences, StartTimes, ChannelsAt
<1>8. FirstCoincidenceCaught'
  BY <1>1, <1>5, <1>7 DEF FirstCoincidenceCaught
<1>9. FreshMerge' /\ AfterMerge'
  BY <1>1 DEF FreshMerge, AfterMerge
<1> QED BY <1>1, <1>4, <1>6, <1>7, <1>8, <1>9 DEF MergeInv

(* Every step keeps the merge's invariant.                                 *)
LEMMA MergeInvStep == Typed /\ MergeInv /\ [Next]_vars => MergeInv'
<1> SUFFICES ASSUME Typed, MergeInv, [Next]_vars PROVE MergeInv'
  OBVIOUS
<1>1. stage \in {"find", "merge", "apply", "reading", "applied"} /\ n \in Nat
  BY DEF Typed, MembersTyped
<1>2. ASSUME UNCHANGED <<fConfig, masked, fTriggerRangesPerChannel, fTriggerLocationsPerChannel,
                         fTriggerLocations, mergeVars>>,
             stage = "merge" <=> stage' = "merge", AfterMerge' <=> AfterMerge
      PROVE  MergeInv'
  <2>1. /\ Coincidences' = Coincidences /\ StartTimes' = StartTimes /\ AllPrimitives' = AllPrimitives
        /\ FirstReached' = FirstReached /\ ReachedBy(n)' = ReachedBy(n) /\ OwnStarts(Channel)' = OwnStarts(Channel)
    BY <1>2 DEF Coincidences, StartTimes, ChannelsAt, AllPrimitives, FirstReached, ReachedBy, OwnStarts, mergeVars
  <2>2. Merging' = Merging
    BY <1>2, <2>1 DEF Merging, mergeVars, StartsOf, FinishesOf
  <2>3. FreshMerge' = FreshMerge
    BY <1>2 DEF FreshMerge, mergeVars
  <2>4. FirstCoincidenceCaught'
    BY <1>2, <2>1 DEF FirstCoincidenceCaught, MergeInv
  <2> QED BY <1>2, <2>1, <2>2, <2>3, <2>4 DEF MergeInv, mergeVars
<1>3. CASE Find
  <2>1. CASE \E val \in Levels : Sample(val)
    <3>1. UNCHANGED <<memberVars, mergeVars>>
      BY <1>3, <2>1 DEF Find, Sample, Store
    <3> QED BY <1>2, <3>1 DEF memberVars, AfterMerge
  <2>2. CASE Store
    <3>1. /\ stage = "find" /\ stage' = "merge" /\ fTriggerLocations' = fTriggerLocations
          /\ UNCHANGED mergeVars
      BY <1>3, <2>2 DEF Find, Sample, Store
    <3>2. FreshMerge /\ fTriggerLocations = <<>>
      BY <3>1 DEF MergeInv, AfterMerge, FreshMerge
    <3> QED BY <3>1, <3>2 DEF MergeInv, FreshMerge, AfterMerge, FirstCoincidenceCaught, mergeVars
  <2> QED BY <1>3, <2>1, <2>2 DEF Find
<1>4. CASE CopyOwn
  <2>1. /\ stage = "merge" /\ stage' = "apply" /\ fConfig.SelfTriggerPerChannel
        /\ UNCHANGED <<fConfig, fTriggerRangesPerChannel, fTriggerLocations, mergeVars>>
        /\ fTriggerLocationsPerChannel'[Channel] = OwnStarts(Channel)
    BY <1>4, TriggerAssumption DEF CopyOwn
  <2>2. n = 0
    BY <1>1, <2>1 DEF MergeInv, Merging
  <2>3. FreshMerge'
    BY <2>1, <2>2 DEF MergeInv, FreshMerge, mergeVars
  <2>4. OwnStarts(Channel)' = OwnStarts(Channel)
    BY <2>1 DEF OwnStarts
  <2> QED BY <2>1, <2>3, <2>4 DEF MergeInv, AfterMerge, FirstCoincidenceCaught
<1>5. CASE Collect \/ MergeOne
  <2>1. stage = "merge" /\ stage' = "merge"
    BY <1>5 DEF Collect, MergeOne, memberVars
  <2>2. Merging' /\ n' > 0
    <3>1. CASE Collect
      BY <3>1, MergeStarted
    <3>2. CASE MergeOne
      <4>1. n > 0
        <5>1. n \in 1 .. Len(all_trigger_locations)
          BY <3>2 DEF MergeOne, Typed, MembersTyped
        <5> QED BY <5>1
      <4> QED BY <2>1, <3>2, <4>1, MergedOne DEF MergeInv
    <3> QED BY <1>5, <3>1, <3>2
  <2>3. ~AfterMerge' /\ n' # 0
    BY <2>1, <2>2 DEF AfterMerge
  <2> QED BY <2>1, <2>2, <2>3 DEF MergeInv, FirstCoincidenceCaught
<1>6. CASE Merged
  BY <1>6, MergeDone
<1>7. CASE Apply
  <2>1. UNCHANGED <<fConfig, masked, fTriggerRangesPerChannel, fTriggerLocationsPerChannel,
                    fTriggerLocations, mergeVars>>
    BY <1>7 DEF Apply, BeginApply, ReadSample, Return, memberVars
  <2>2. stage # "merge" /\ stage' # "merge" /\ AfterMerge /\ AfterMerge'
    BY <1>7 DEF Apply, BeginApply, ReadSample, Return, memberVars, AfterMerge
  <2> QED BY <1>2, <2>1, <2>2
<1>8. CASE NextEvent
  <2>1. stage = "applied" /\ stage' = "find" /\ fTriggerLocations' = <<>> /\ UNCHANGED mergeVars
    BY <1>8 DEF NextEvent, ClearTriggerLocations
  <2>2. FreshMerge'
    BY <2>1 DEF MergeInv, FreshMerge, mergeVars
  <2> QED BY <2>1, <2>2 DEF MergeInv, AfterMerge, FirstCoincidenceCaught
<1>9. CASE UNCHANGED vars
  BY <1>2, <1>9 DEF vars, memberVars, AfterMerge
<1> QED BY <1>3, <1>4, <1>5, <1>6, <1>7, <1>8, <1>9 DEF Next, Merge

(* What is said of the merge holds throughout.                             *)
LEMMA AlwaysMerge == Spec => []MergeInv
<1>1. Init => MergeInv
  BY DEF Init, CleanMembers, MergeInv, AfterMerge, FirstCoincidenceCaught, FreshMerge
<1> QED BY <1>1, MergeInvStep, AlwaysTyped, PTL DEF Spec

(* What is triggered on after the scan is sound: the triggers found are in *)
(* order, spaced by the holdoffs in force, the beam's sent once or held    *)
(* off, no coincidence comes before the first global trigger, and no       *)
(* trigger is of another event (MergeTriggerLocations).                    *)
THEOREM TriggersAreSound ==
  ASSUME ShortHoldoff
  PROVE  Spec => []TriggersSound
<1>1. Typed /\ ScanInv /\ MergeInv => TriggersSound
  <2> SUFFICES ASSUME Typed, ScanInv, MergeInv PROVE TriggersSound
    OBVIOUS
  <2>1. LocationsSorted
    BY DEF LocationsSorted, Typed, ScanTyped, ByStart
  <2>2. Cardinality(BeamTimes) <= 1
    <3>1. CASE BeamTimes = {}
      BY <3>1, FS_EmptySet
    <3>2. CASE BeamTimes # {}
      <4>1. PICK t : BeamTimes = {t}
        BY <3>2 DEF ScanInv, OneBeam
      <4>2. Cardinality({t}) = 1
        BY FS_Singleton
      <4> QED BY <4>1, <4>2
    <3> QED BY <3>1, <3>2
  <2>3. NoStaleTrigger
    <3> SUFFICES ASSUME AfterMerge
                 PROVE  IF fConfig.SelfTriggerPerChannel
                        THEN ToSet(GetTriggerTimes) = {L[1] : L \in Found}
                        ELSE ToSet(GetTriggerTimes) \subseteq StartTimes
      BY DEF NoStaleTrigger
    <3>1. CASE fConfig.SelfTriggerPerChannel
      <4> DEFINE r == fTriggerRangesPerChannel[Channel]
      <4>1. GetTriggerTimes = [k \in DOMAIN r |-> r[k][1]]
        BY <3>1 DEF GetTriggerTimes, MergeInv, OwnStarts
      <4>2. Found = {r[k] : k \in DOMAIN r}
        <5>1. locations = <<>>
          BY DEF AfterMerge, Typed, ScanTyped, FreshScan
        <5> QED BY <5>1 DEF Found, ToSet
      <4>3. ToSet(GetTriggerTimes) = {r[k][1] : k \in DOMAIN r}
        BY <4>1 DEF ToSet
      <4> HIDE DEF r
      <4>4. {L[1] : L \in Found} = {r[k][1] : k \in DOMAIN r}
        BY <4>2
      <4> QED BY <3>1, <4>3, <4>4
    <3>2. CASE ~fConfig.SelfTriggerPerChannel
      BY <3>2 DEF GetTriggerTimes, MergeInv
    <3> QED BY <3>1, <3>2
  <2> QED BY <2>1, <2>2, <2>3 DEF TriggersSound, ScanInv, MergeInv, BeamSent
<1> QED BY <1>1, AlwaysTyped, AlwaysScan, AlwaysMerge, PTL

(* No pulse of a live channel is missed.                                   *)
THEOREM PulsesAreFound ==
  ASSUME ShortHoldoff
  PROVE  Spec => []PulsesFound
<1>1. ScanInv => PulsesFound
  BY DEF ScanInv
<1> QED BY <1>1, AlwaysScan, PTL

-----------------------------------------------------------------------------
(* ApplyTriggerLocations cuts the channel's waveform into readouts: runs   *)
(* of samples apart from one another (CutTyped), each of the size of a     *)
(* trigger in whose window it begins (CutSized). The trigger that the loop *)
(* tests its sample against is the first whose window is not over          *)
(* (CutCovers): so each sample in a window is saved.  It is returned just  *)
(* if its readout ends before the loop does.                               *)

(* The cut.  A waveform is a run of consecutive samples.                   *)
Samples == 0 .. NSamples - 1
Run(w) == /\ w \in Seq(Samples) /\ w # <<>>
          /\ \A k \in DOMAIN w : w[k] = w[1] + k - 1
LastOf(w) == w[Len(w)]

(* The runs rs come one after the other, and all before sample m.          *)
Apart(rs, m) ==
  /\ rs \in Seq(Seq(Samples))
  /\ \A r \in DOMAIN rs : Run(rs[r]) /\ LastOf(rs[r]) < m
  /\ \A q, r \in DOMAIN rs : q < r => LastOf(rs[q]) < rs[r][1]

(* A run of one sample, and one more sample in a run.                      *)
LEMMA RunStarts ==
  ASSUME NEW m \in Samples
  PROVE  Run(<<m>>) /\ LastOf(<<m>>) = m /\ <<m>>[1] = m /\ Len(<<m>>) = 1
BY DEF Run, LastOf, Samples

(* A run stays one when the sample after its last is added.                *)
LEMMA RunGrows ==
  ASSUME NEW w, Run(w), NEW m \in Samples, LastOf(w) = m - 1
  PROVE  Run(Append(w, m)) /\ LastOf(Append(w, m)) = m /\ Append(w, m)[1] = w[1]
         /\ Len(Append(w, m)) = Len(w) + 1
<1> DEFINE v == Append(w, m)
           l == Len(w)
<1>1. w \in Seq(Samples) /\ w # <<>> /\ \A k \in DOMAIN w : w[k] = w[1] + k - 1
  BY DEF Run
<1>2. l \in Nat /\ l >= 1 /\ DOMAIN w = 1 .. l
  BY <1>1
<1>3. /\ v \in Seq(Samples) /\ Len(v) = l + 1 /\ DOMAIN v = 1 .. l + 1 /\ v # <<>>
      /\ v[l + 1] = m /\ \A k \in 1 .. l : v[k] = w[k]
  BY <1>1, <1>2
<1>4. w[l] = m - 1
  BY DEF LastOf
<1> HIDE DEF v, l
<1>5. m \in Int /\ w[1] \in Int
  <2>1. w[1] \in Samples
    BY <1>1, <1>2
  <2> QED BY <2>1 DEF Samples
<1>6. v[1] = w[1] /\ m = w[1] + l
  <2>1. w[l] = w[1] + l - 1
    BY <1>1, <1>2
  <2> QED BY <1>2, <1>3, <1>4, <1>5, <2>1
<1>7. \A k \in 1 .. l + 1 : v[k] = v[1] + k - 1
  <2> SUFFICES ASSUME NEW k \in 1 .. l + 1 PROVE v[k] = v[1] + k - 1
    OBVIOUS
  <2>1. CASE k \in 1 .. l
    BY <1>1, <1>2, <1>3, <1>6, <2>1
  <2>2. CASE k = l + 1
    BY <1>2, <1>3, <1>5, <1>6, <2>2
  <2> QED BY <1>2, <2>1, <2>2
<1>8. Run(v) /\ LastOf(v) = m
  BY <1>3, <1>7 DEF Run, LastOf
<1> QED BY <1>3, <1>6, <1>8 DEF v, l

(* A run is as long as it reaches.                                         *)
LEMMA RunLength ==
  ASSUME NEW w, Run(w)
  PROVE  /\ Len(w) \in Nat /\ Len(w) >= 1 /\ w[1] \in Samples /\ LastOf(w) = w[1] + Len(w) - 1
         /\ \A k \in w[1] .. LastOf(w) : k \in ToSet(w)
<1>1. w \in Seq(Samples) /\ w # <<>> /\ \A k \in DOMAIN w : w[k] = w[1] + k - 1
  BY DEF Run
<1>2. Len(w) \in Nat /\ Len(w) >= 1 /\ DOMAIN w = 1 .. Len(w) /\ w[1] \in Samples
  BY <1>1
<1>3. LastOf(w) = w[1] + Len(w) - 1
  BY <1>1, <1>2 DEF LastOf
<1>4. ASSUME NEW k \in w[1] .. LastOf(w) PROVE k \in ToSet(w)
  <2>1. w[1] \in Int
    BY <1>2 DEF Samples
  <2>2. k - w[1] + 1 \in 1 .. Len(w) /\ w[1] + (k - w[1] + 1) - 1 = k
    BY <1>2, <1>3, <2>1
  <2>3. w[k - w[1] + 1] = k
    BY <1>1, <1>2, <2>2
  <2> QED BY <1>2, <2>2, <2>3 DEF ToSet
<1> QED BY <1>2, <1>3, <1>4

(* The samples of a run are from its first to its last.                    *)
LEMMA InRun ==
  ASSUME NEW w, Run(w), NEW k \in ToSet(w)
  PROVE  w[1] <= k /\ k <= LastOf(w)
<1>1. PICK j \in DOMAIN w : k = w[j]
  BY DEF ToSet
<1>2. w \in Seq(Samples) /\ k = w[1] + j - 1
  BY <1>1 DEF Run
<1>3. j \in 1 .. Len(w) /\ Len(w) \in Nat
  BY <1>2
<1>4. w[1] \in Int /\ LastOf(w) = w[1] + Len(w) - 1
  BY RunLength DEF Samples
<1> QED BY <1>2, <1>3, <1>4

(* Runs stay apart when one more starts, and when the last one grows.      *)
LEMMA ApartMore ==
  ASSUME NEW rs, NEW m \in Samples, Apart(rs, m)
  PROVE  Apart(rs, m + 1) /\ Apart(Append(rs, <<m>>), m + 1)
<1> DEFINE l == Len(rs)
           us == Append(rs, <<m>>)
<1>1. /\ rs \in Seq(Seq(Samples)) /\ l \in Nat /\ DOMAIN rs = 1 .. l
      /\ \A r \in 1 .. l : Run(rs[r]) /\ LastOf(rs[r]) < m
      /\ \A q, r \in 1 .. l : q < r => LastOf(rs[q]) < rs[r][1]
  BY DEF Apart
<1>2. m \in Int /\ \A r \in 1 .. l : LastOf(rs[r]) \in Int
  BY <1>1, RunLength DEF Samples
<1>3. Apart(rs, m + 1)
  BY <1>1, <1>2 DEF Apart
<1>4. /\ us \in Seq(Seq(Samples)) /\ DOMAIN us = 1 .. l + 1 /\ us[l + 1] = <<m>>
      /\ \A r \in 1 .. l : us[r] = rs[r]
  <2>1. <<m>> \in Seq(Samples)
    OBVIOUS
  <2> HIDE DEF Samples
  <2> QED BY <1>1, <2>1
<1>5. Run(<<m>>) /\ LastOf(<<m>>) = m /\ <<m>>[1] = m
  BY RunStarts
<1> HIDE DEF us, l
<1>6. \A r \in 1 .. l + 1 : Run(us[r]) /\ LastOf(us[r]) < m + 1
  <2> SUFFICES ASSUME NEW r \in 1 .. l + 1 PROVE Run(us[r]) /\ LastOf(us[r]) < m + 1
    OBVIOUS
  <2>1. r \in 1 .. l \/ r = l + 1
    BY <1>1
  <2> QED BY <1>1, <1>2, <1>4, <1>5, <2>1
<1>7. \A q, r \in 1 .. l + 1 : q < r => LastOf(us[q]) < us[r][1]
  <2> SUFFICES ASSUME NEW q \in 1 .. l + 1, NEW r \in 1 .. l + 1, q < r PROVE LastOf(us[q]) < us[r][1]
    OBVIOUS
  <2>1. q \in 1 .. l /\ (r \in 1 .. l \/ r = l + 1)
    BY <1>1
  <2>2. us[r][1] = (IF r = l + 1 THEN m ELSE rs[r][1]) /\ us[q] = rs[q]
    BY <1>1, <1>4, <1>5, <2>1
  <2> QED BY <1>1, <2>1, <2>2
<1>8. Apart(us, m + 1)
  BY <1>4, <1>6, <1>7 DEF Apart
<1> QED BY <1>3, <1>8 DEF us

(* Runs stay apart when the last of them grows by the next sample.         *)
LEMMA ApartLonger ==
  ASSUME NEW rs \in Seq(Seq(Samples)), NEW w \in Seq(Samples), NEW m \in Samples,
         Apart(Append(rs, w), m), LastOf(w) = m - 1
  PROVE  Apart(Append(rs, Append(w, m)), m + 1)
<1> DEFINE l == Len(rs)
           v == Append(w, m)
           us == Append(rs, w)
           vs == Append(rs, v)
<1>1. l \in Nat /\ m \in Int
  BY DEF Samples
<1>2. /\ DOMAIN us = 1 .. l + 1 /\ us[l + 1] = w /\ \A r \in 1 .. l : us[r] = rs[r]
  OBVIOUS
<1>3. /\ \A r \in 1 .. l + 1 : Run(us[r]) /\ LastOf(us[r]) < m
      /\ \A q, r \in 1 .. l + 1 : q < r => LastOf(us[q]) < us[r][1]
  BY <1>2 DEF Apart
<1>4. Run(w)
  BY <1>1, <1>2, <1>3
<1>5. Run(v) /\ LastOf(v) = m /\ v[1] = w[1] /\ v \in Seq(Samples)
  BY <1>4, RunGrows
<1> HIDE DEF v
<1>6. vs \in Seq(Seq(Samples)) /\ DOMAIN vs = 1 .. l + 1 /\ vs[l + 1] = v /\ \A r \in 1 .. l : vs[r] = rs[r]
  BY <1>5
<1> HIDE DEF us, vs, l
<1>7. \A r \in 1 .. l + 1 : vs[r][1] = us[r][1] /\ Run(vs[r]) /\ LastOf(vs[r]) < m + 1
  <2> SUFFICES ASSUME NEW r \in 1 .. l + 1 PROVE vs[r][1] = us[r][1] /\ Run(vs[r]) /\ LastOf(vs[r]) < m + 1
    OBVIOUS
  <2>1. CASE r \in 1 .. l
    <3>1. vs[r] = us[r] /\ Run(us[r]) /\ LastOf(us[r]) < m
      BY <1>1, <1>2, <1>3, <1>6, <2>1
    <3>2. LastOf(us[r]) \in Int
      <4>1. /\ LastOf(us[r]) = us[r][1] + Len(us[r]) - 1
            /\ us[r][1] \in Samples /\ Len(us[r]) \in Nat
        BY <3>1, RunLength
      <4> QED BY <4>1 DEF Samples
    <3> QED BY <1>1, <3>1, <3>2
  <2>2. CASE r = l + 1
    BY <1>1, <1>2, <1>5, <1>6, <2>2
  <2> QED BY <1>1, <2>1, <2>2
<1>8. \A q, r \in 1 .. l + 1 : q < r => LastOf(vs[q]) < vs[r][1]
  <2> SUFFICES ASSUME NEW q \in 1 .. l + 1, NEW r \in 1 .. l + 1, q < r PROVE LastOf(vs[q]) < vs[r][1]
    OBVIOUS
  <2>1. q \in 1 .. l /\ vs[q] = us[q]
    BY <1>1, <1>2, <1>6
  <2> QED BY <1>3, <1>7, <2>1
<1>9. Apart(vs, m + 1)
  BY <1>6, <1>7, <1>8 DEF Apart
<1> QED BY <1>9 DEF vs, v

(* The state of the cut: the readouts are runs, apart from one another,    *)
(* and the one in progress ends at the sample before the one it is at.     *)
CutTyped ==
  /\ ro_i \in 0 .. NSamples /\ isReadingOut \in BOOLEAN
  /\ ret \in Seq(Seq(Samples)) /\ this_waveform \in Seq(Samples)
  /\ Apart(Readouts, ro_i)
  /\ isReadingOut => LastOf(this_waveform) = ro_i - 1
  /\ isReadingOut \/ stage = "reading" => min_ro_samples \in {RoSamples(TRUE), RoSamples(FALSE)}
  /\ stage = "reading" => trigger_i \in DOMAIN GetTriggerTimes /\ next_trig = GetTriggerTimes[trigger_i]
  /\ ~Reading => FreshApply

(* The triggers applied are in order.                                      *)
LEMMA TriggersInOrder ==
  ASSUME Typed, MergeInv, AfterMerge
  PROVE  /\ GetTriggerTimes \in Seq(Int)
         /\ \A j, k \in DOMAIN GetTriggerTimes : j < k => GetTriggerTimes[j] <= GetTriggerTimes[k]
<1> DEFINE g == GetTriggerTimes
<1>1. g \in Seq(Int)
  BY TriggerAssumption DEF GetTriggerTimes, Typed, MembersTyped
<1>2. CASE fConfig.SelfTriggerPerChannel
  <2>1. g = OwnStarts(Channel)
    BY <1>2 DEF GetTriggerTimes, MergeInv
  <2>2. ByStart(fTriggerRangesPerChannel[Channel])
    BY DEF Typed, ScanTyped
  <2> QED BY <1>1, <2>1, <2>2 DEF OwnStarts, ByStart
<1>3. CASE ~fConfig.SelfTriggerPerChannel
  <2>1. Len(g) <= 1
    BY <1>3 DEF GetTriggerTimes, MergeInv
  <2> HIDE DEF g
  <2>2. \A j, k \in DOMAIN g : ~(j < k)
    BY <1>1, <2>1
  <2> QED BY <1>1, <2>2 DEF g
<1> QED BY <1>2, <1>3

(* The configured windows are of natural sizes, and a readout has samples. *)
LEMMA WindowSizes ==
  ASSUME fConfig \in Configs
  PROVE  /\ \A b : PreOf(b) \in Nat /\ PostOf(b) \in Nat
         /\ \A b : RoSamples(b) = (PreOf(b) + PostOf(b)) \div Period
         /\ \A b : RoSamples(b) \in Nat /\ RoSamples(b) >= 1
         /\ \A b : RoSamples(b) \in {RoSamples(TRUE), RoSamples(FALSE)}
<1>1. /\ fConfig.Pre \in Nat /\ fConfig.Post \in Nat /\ fConfig.PreBeam \in Nat /\ fConfig.PostBeam \in Nat
      /\ Period \in Nat /\ Period > 0
      /\ fConfig.Pre + fConfig.Post >= Period /\ fConfig.PreBeam + fConfig.PostBeam >= Period
  BY TriggerAssumption DEF ConfigType
<1>2. ASSUME NEW a \in Nat, a >= Period PROVE a \div Period \in Nat /\ a \div Period >= 1
  BY <1>1, <1>2
<1>3. \A b : PreOf(b) \in Nat /\ PostOf(b) \in Nat
  BY <1>1 DEF PreOf, PostOf
<1>4. \A b : RoSamples(b) = (PreOf(b) + PostOf(b)) \div Period
  BY DEF RoSamples, PreOf, PostOf
<1>5. \A b : PreOf(b) + PostOf(b) >= Period
  BY <1>1 DEF PreOf, PostOf
<1>6. \A b : RoSamples(b) \in Nat /\ RoSamples(b) >= 1
  <2> SUFFICES ASSUME NEW b PROVE RoSamples(b) \in Nat /\ RoSamples(b) >= 1
    OBVIOUS
  <2>1. PICK a \in Nat : a = PreOf(b) + PostOf(b) /\ a >= Period
    BY <1>3, <1>5
  <2> QED BY <1>2, <1>4, <2>1
<1>7. \A b : RoSamples(b) \in {RoSamples(TRUE), RoSamples(FALSE)}
  BY DEF RoSamples
<1> QED BY <1>3, <1>4, <1>6, <1>7

(* The trigger the loop tests next is one of the list, not an earlier one. *)
LEMMA NextOne ==
  ASSUME Typed, MergeInv, stage = "reading", CutTyped
  PROVE  /\ NextTrigger \in trigger_i .. Len(GetTriggerTimes)
         /\ IsOver /\ Following # {} =>
              NextTrigger \in Following /\ \A j \in Following : NextTrigger <= j
<1> DEFINE g == GetTriggerTimes
<1>1. g \in Seq(Int) /\ trigger_i \in 1 .. Len(g) /\ Len(g) \in Nat
  BY TriggersInOrder DEF AfterMerge, CutTyped
<1>2. CASE IsOver /\ Following # {}
  <2>1. Following \subseteq trigger_i + 1 .. Len(g)
    BY DEF Following
  <2>2. IsFiniteSet(trigger_i + 1 .. Len(g))
    BY <1>1, FS_Interval
  <2>3. IsFiniteSet(Following) /\ \A j \in Following : j \in Int
    <3>1. IsFiniteSet(Following)
      BY <2>1, <2>2, FS_Subset
    <3> QED BY <2>1, <3>1
  <2>4. Min(Following) \in Following /\ \A j \in Following : Min(Following) <= j
    BY <1>2, <2>3, Extremes
  <2>5. NextTrigger = Min(Following)
    BY <1>2 DEF NextTrigger
  <2> HIDE DEF g
  <2>6. NextTrigger \in trigger_i .. Len(g)
    <3>1. NextTrigger \in trigger_i + 1 .. Len(g)
      BY <2>1, <2>4, <2>5
    <3> HIDE DEF g
    <3> QED BY <1>1, <3>1
  <2> QED BY <2>4, <2>5, <2>6 DEF g
<1>3. CASE ~(IsOver /\ Following # {})
  BY <1>1, <1>3 DEF NextTrigger
<1> QED BY <1>2, <1>3

(* A readout begins inside the window of a trigger, and gets the size of   *)
(* that trigger's readouts, even when the scan ahead found no trigger and  *)
(* goes by whether the last one is the beam's.                             *)
LEMMA OfTrigger ==
  ASSUME Typed, MergeInv, CutTyped, stage = "reading", ro_i < NSamples,
         IsTriggering(GetTriggerTimes[NextTrigger], BeamFlag)
  PROVE  \E t \in Windows(ro_i) : RoSamples(BeamFlag) = RoSamples(IsBeam(t))
<1> DEFINE g == GetTriggerTimes
           last == Len(g)
<1>1. g \in Seq(Int) /\ \A j, k \in DOMAIN g : j < k => g[j] <= g[k]
  BY TriggersInOrder DEF AfterMerge
<1>2. NextTrigger \in DOMAIN g /\ trigger_i \in DOMAIN g /\ next_trig = g[trigger_i]
  <2>1. NextTrigger \in trigger_i .. Len(g) /\ trigger_i \in 1 .. Len(g) /\ next_trig = g[trigger_i]
    <3>1. trigger_i \in DOMAIN g /\ next_trig = g[trigger_i]
      BY DEF CutTyped
    <3>2. NextTrigger \in trigger_i .. Len(g)
      BY NextOne
    <3> QED BY <1>1, <3>1, <3>2
  <2> QED BY <1>1, <2>1
<1>3. ro_i \in Int /\ TimeOf(ro_i) \in Int
  BY TimesInOrder DEF CutTyped
<1>4. \A b : PreOf(b) \in Nat /\ PostOf(b) \in Nat
  BY WindowSizes DEF Typed, MembersTyped
<1>5. CASE ~(IsOver /\ Following = {})
  <2> DEFINE t == g[NextTrigger]
  <2>1. BeamFlag = IsBeam(t)
    BY <1>5 DEF BeamFlag
  <2>2. IsTriggering(t, IsBeam(t))
    BY <2>1
  <2>3. t \in Windows(ro_i)
    BY <1>2, <2>2 DEF IsTriggering, Windows, Triggers, ToSet
  <2> QED BY <2>1, <2>3
<1>6. CASE IsOver /\ Following = {}
  <2> DEFINE t == g[last]
  <2>1. BeamFlag = IsBeam(t) /\ NextTrigger = trigger_i
    BY <1>6 DEF BeamFlag, NextTrigger
  <2>2. PICK b : b = IsBeam(t)
    OBVIOUS
  <2>3. TimeOf(ro_i) < next_trig + PostOf(b)
    BY <1>2, <2>1, <2>2 DEF IsTriggering
  <2>4. trigger_i < last /\ last \in DOMAIN g /\ trigger_i \in DOMAIN g /\ last \in (trigger_i + 1) .. Len(g)
    BY <1>1, <1>2, <1>6 DEF IsOver
  <2>5. g[trigger_i] <= t /\ t \in Int /\ g[trigger_i] \in Int
    BY <1>1, <2>4
  <2>6. IF fConfig.AllowTriggerOverlap THEN ~(t + PostOf(b) >= TimeOf(ro_i))
        ELSE ~(t - PreOf(b) >= TimeOf(ro_i))
    BY <1>6, <2>2, <2>4 DEF Following
  <2> HIDE DEF t, g, last
  <2>7. PostOf(b) \in Nat /\ PreOf(b) \in Nat
    BY <1>4
  <2>8. TimeOf(ro_i) >= t - PreOf(b) /\ TimeOf(ro_i) < t + PostOf(b)
    BY <1>2, <1>3, <2>3, <2>5, <2>6, <2>7
  <2>9. t \in Windows(ro_i)
    BY <1>1, <2>2, <2>4, <2>8 DEF Windows, Triggers, ToSet, t, g
  <2> QED BY <2>1, <2>9
<1> QED BY <1>5, <1>6

(* A sample is added to the readout in progress, begins a readout, or is   *)
(* read out by none; the one in progress is packaged when it has its size. *)
IsTriggered == IsTriggering(GetTriggerTimes[NextTrigger], BeamFlag)
Grows ==
  /\ isReadingOut /\ isReadingOut' /\ KeepsReading(IsTriggered)
  /\ ret' = ret /\ this_waveform' = Append(this_waveform, ro_i)
  /\ min_ro_samples' = min_ro_samples
Begins ==
  /\ isReadingOut' /\ IsTriggered /\ (isReadingOut => ~KeepsReading(IsTriggered))
  /\ ret' = Readouts /\ this_waveform' = <<ro_i>> /\ min_ro_samples' = RoSamples(BeamFlag)
Rests ==
  /\ ~isReadingOut' /\ ~IsTriggered /\ (isReadingOut => ~KeepsReading(IsTriggered))
  /\ ret' = Readouts /\ this_waveform' = <<>> /\ min_ro_samples' = min_ro_samples

(* An iteration of the loop is one of the three.                           *)
LEMMA SampleCases ==
  ASSUME CutTyped, ReadSample
  PROVE  /\ stage = "reading" /\ ro_i \in Samples /\ ro_i' = ro_i + 1 /\ UNCHANGED memberVars
         /\ trigger_i' = NextTrigger /\ next_trig' = GetTriggerTimes[NextTrigger]
         /\ isReadingOut' \in BOOLEAN
         /\ Grows \/ Begins \/ Rests
<1> DEFINE reading == isReadingOut /\ KeepsReading(IsTriggered)
           starts == IsTriggered /\ ~reading
<1>1. /\ stage = "reading" /\ ro_i < NSamples /\ ro_i' = ro_i + 1 /\ UNCHANGED memberVars
      /\ trigger_i' = NextTrigger /\ next_trig' = GetTriggerTimes[NextTrigger]
      /\ ret' = IF isReadingOut /\ ~reading THEN Packaged ELSE ret
      /\ this_waveform' = IF starts THEN <<ro_i>>
                          ELSE IF reading THEN Append(this_waveform, ro_i) ELSE <<>>
      /\ isReadingOut' = (reading \/ starts)
      /\ min_ro_samples' = IF starts THEN RoSamples(BeamFlag) ELSE min_ro_samples
  BY DEF ReadSample, IsTriggered
<1>2. ro_i \in Samples
  <2>1. ro_i \in 0 .. NSamples /\ NSamples \in Nat
    BY TriggerAssumption DEF CutTyped
  <2> QED BY <1>1, <2>1 DEF Samples
<1>3. isReadingOut' \in BOOLEAN
  BY <1>1
<1>4. ASSUME reading PROVE Grows
  <2>1. ~starts /\ isReadingOut'
    BY <1>1, <1>4
  <2> QED BY <1>1, <1>4, <2>1 DEF Grows
<1>5. ASSUME ~reading PROVE Begins \/ Rests
  <2>1. ret' = Readouts
    BY <1>1, <1>5 DEF Packaged, Readouts
  <2>2. ASSUME IsTriggered PROVE Begins
    <3>1. starts /\ isReadingOut'
      BY <1>1, <1>5, <2>2
    <3> QED BY <1>1, <1>5, <2>1, <2>2, <3>1 DEF Begins
  <2>3. ASSUME ~IsTriggered PROVE Rests
    <3>1. ~starts /\ ~isReadingOut'
      BY <1>1, <1>5, <2>3
    <3> QED BY <1>1, <1>5, <2>1, <2>3, <3>1 DEF Rests
  <2> QED BY <2>2, <2>3
<1>6. Grows \/ Begins \/ Rests
  BY <1>4, <1>5
<1> QED BY <1>1, <1>2, <1>3, <1>6

(* What it makes of the readouts.                                          *)
LEMMA ReadoutsAfter ==
  ASSUME CutTyped, ro_i \in Samples, isReadingOut' \in BOOLEAN
  PROVE  /\ Readouts \in Seq(Seq(Samples))
         /\ Grows => Readouts = Append(ret, this_waveform) /\ Readouts' = Append(ret, Append(this_waveform, ro_i))
         /\ Begins => Readouts' = Append(Readouts, <<ro_i>>)
         /\ Rests => Readouts' = Readouts
<1>1. ret \in Seq(Seq(Samples)) /\ this_waveform \in Seq(Samples) /\ isReadingOut \in BOOLEAN
  BY DEF CutTyped
<1>2. Append(ret, this_waveform) \in Seq(Seq(Samples))
  <2> HIDE DEF Samples
  <2> QED BY <1>1
<1>3. Readouts \in Seq(Seq(Samples))
  BY <1>1, <1>2 DEF Readouts
<1>4. Grows => Readouts = Append(ret, this_waveform) /\ Readouts' = Append(ret, Append(this_waveform, ro_i))
  BY DEF Grows, Readouts
<1>5. Begins => Readouts' = Append(Readouts, <<ro_i>>)
  <2>1. Begins => Readouts' = Append(ret', this_waveform')
    BY DEF Begins, Readouts
  <2> QED BY <2>1 DEF Begins
<1>6. Rests => Readouts' = Readouts
  <2>1. Rests => Readouts' = ret'
    BY DEF Rests, Readouts
  <2> QED BY <2>1 DEF Rests
<1> QED BY <1>3, <1>4, <1>5, <1>6

(* The loop keeps the state of the cut.                                    *)
LEMMA CutTypedSample ==
  ASSUME Typed, MergeInv, CutTyped, ReadSample
  PROVE  CutTyped'
<1>1. PICK m : m = ro_i
  OBVIOUS
<1>2. /\ stage = "reading" /\ m \in Samples /\ ro_i' = m + 1 /\ UNCHANGED memberVars
      /\ trigger_i' = NextTrigger /\ next_trig' = GetTriggerTimes[NextTrigger]
      /\ isReadingOut' \in BOOLEAN
      /\ Grows \/ Begins \/ Rests
  BY <1>1, SampleCases
<1>3. /\ Readouts \in Seq(Seq(Samples))
      /\ Grows => Readouts = Append(ret, this_waveform) /\ Readouts' = Append(ret, Append(this_waveform, m))
      /\ Begins => Readouts' = Append(Readouts, <<m>>)
      /\ Rests => Readouts' = Readouts
  BY <1>1, <1>2, ReadoutsAfter
<1>4. /\ ret \in Seq(Seq(Samples)) /\ this_waveform \in Seq(Samples) /\ Apart(Readouts, m)
      /\ isReadingOut => LastOf(this_waveform) = m - 1
      /\ min_ro_samples \in {RoSamples(TRUE), RoSamples(FALSE)}
  BY <1>1, <1>2 DEF CutTyped
<1>5. GetTriggerTimes' = GetTriggerTimes /\ RoSamples(TRUE)' = RoSamples(TRUE) /\ RoSamples(FALSE)' = RoSamples(FALSE)
  BY <1>2 DEF GetTriggerTimes, RoSamples, memberVars
<1>6. ro_i' \in 0 .. NSamples
  BY <1>2, TriggerAssumption DEF Samples
<1>7. <<m>> \in Seq(Samples) /\ Append(this_waveform, m) \in Seq(Samples) /\ <<>> \in Seq(Samples)
  <2> HIDE DEF Samples
  <2> QED BY <1>2, <1>4
<1>8. ret' \in Seq(Seq(Samples)) /\ this_waveform' \in Seq(Samples)
  BY <1>1, <1>2, <1>3, <1>4, <1>7 DEF Grows, Begins, Rests
<1>9. Apart(Readouts, ro_i)'
  <2>1. Apart(Readouts', m + 1)
    <3>1. CASE Grows
      <4>1. isReadingOut /\ Readouts = Append(ret, this_waveform)
        BY <1>3, <3>1 DEF Grows
      <4>2. Apart(Append(ret, this_waveform), m) /\ LastOf(this_waveform) = m - 1
        BY <1>4, <4>1
      <4> QED BY <1>2, <1>3, <1>4, <3>1, <4>2, ApartLonger
    <3>2. CASE Begins
      BY <1>2, <1>3, <1>4, <3>2, ApartMore
    <3>3. CASE Rests
      BY <1>2, <1>3, <1>4, <3>3, ApartMore
    <3> QED BY <1>2, <3>1, <3>2, <3>3
  <2> QED BY <1>2, <2>1 DEF Apart, Run, LastOf
<1>10. isReadingOut' => LastOf(this_waveform') = m /\ m = ro_i' - 1
  <2>1. m \in Int
    BY <1>2 DEF Samples
  <2>2. CASE Grows
    <3>1. Append(this_waveform, m)[Len(this_waveform) + 1] = m /\ Len(Append(this_waveform, m)) = Len(this_waveform) + 1
      BY <1>4
    <3>2. this_waveform' = Append(this_waveform, m)
      BY <1>1, <2>2 DEF Grows
    <3> QED BY <1>2, <2>1, <3>1, <3>2 DEF LastOf
  <2>3. CASE Begins
    <3>1. this_waveform' = <<m>> /\ LastOf(<<m>>) = m
      BY <1>1, <1>2, <2>3, RunStarts DEF Begins
    <3> QED BY <1>2, <2>1, <3>1
  <2>4. CASE Rests
    BY <2>4 DEF Rests
  <2> QED BY <1>2, <2>2, <2>3, <2>4
<1>11. min_ro_samples' \in {RoSamples(TRUE), RoSamples(FALSE)}'
  <2>1. RoSamples(BeamFlag) \in {RoSamples(TRUE), RoSamples(FALSE)}
    BY WindowSizes DEF Typed, MembersTyped
  <2> QED BY <1>2, <1>4, <1>5, <2>1 DEF Grows, Begins, Rests
<1>12. trigger_i' \in DOMAIN GetTriggerTimes' /\ next_trig' = GetTriggerTimes'[trigger_i']
  <2>1. GetTriggerTimes \in Seq(Int) /\ trigger_i \in DOMAIN GetTriggerTimes
        /\ NextTrigger \in trigger_i .. Len(GetTriggerTimes)
    BY <1>2, TriggersInOrder, NextOne DEF CutTyped, AfterMerge
  <2>2. NextTrigger \in DOMAIN GetTriggerTimes
    BY <2>1
  <2> QED BY <1>2, <1>5, <2>2
<1>13. stage' = "reading" /\ Reading'
  BY <1>2 DEF memberVars, Reading
<1>14. isReadingOut' => LastOf(this_waveform)' = ro_i' - 1
  BY <1>10 DEF LastOf
<1> QED BY <1>2, <1>6, <1>8, <1>9, <1>11, <1>12, <1>13, <1>14 DEF CutTyped

(* The state of the cut between two loops, and at the beginning of one.    *)
LEMMA CutTypedFresh == Typed /\ FreshApply /\ stage # "reading" => CutTyped
<1> SUFFICES ASSUME Typed, FreshApply, stage # "reading" PROVE CutTyped
  OBVIOUS
<1>1. ro_i = 0 /\ isReadingOut = FALSE /\ this_waveform = <<>> /\ ret = <<>>
  BY DEF FreshApply
<1>2. Readouts = <<>>
  BY <1>1 DEF Readouts
<1>3. Apart(<<>>, 0)
  BY DEF Apart
<1>4. 0 \in 0 .. NSamples /\ <<>> \in Seq(Seq(Samples)) /\ <<>> \in Seq(Samples)
  BY TriggerAssumption
<1> QED BY <1>1, <1>2, <1>3, <1>4 DEF CutTyped

(* The readouts, and among them those that are packaged.                   *)
LEMMA ReadoutList ==
  ASSUME CutTyped
  PROVE  /\ Len(ret) \in Nat /\ Len(Readouts) \in Nat
         /\ DOMAIN ret = 1 .. Len(ret) /\ DOMAIN Readouts = 1 .. Len(Readouts)
         /\ Len(Readouts) = IF isReadingOut THEN Len(ret) + 1 ELSE Len(ret)
         /\ \A r \in DOMAIN ret : Readouts[r] = ret[r]
         /\ isReadingOut => Readouts[Len(ret) + 1] = this_waveform
         /\ \A r \in DOMAIN ret : r \in Int /\ r \in DOMAIN Readouts
         /\ \A r \in DOMAIN Readouts : r \in Int /\ (r \in DOMAIN ret \/ (isReadingOut /\ r = Len(ret) + 1))
         /\ \A q, r \in DOMAIN Readouts : q < r => q \in DOMAIN ret
<1>1. ret \in Seq(Seq(Samples)) /\ this_waveform \in Seq(Samples) /\ isReadingOut \in BOOLEAN
  BY DEF CutTyped
<1>2. /\ Len(ret) \in Nat /\ DOMAIN ret = 1 .. Len(ret)
      /\ \A r \in DOMAIN ret : Readouts[r] = ret[r]
      /\ isReadingOut => Readouts[Len(ret) + 1] = this_waveform
  BY <1>1 DEF Readouts
<1>3. /\ Len(Readouts) = IF isReadingOut THEN Len(ret) + 1 ELSE Len(ret)
      /\ DOMAIN Readouts = 1 .. Len(Readouts)
  <2>1. CASE isReadingOut
    BY <1>1, <2>1 DEF Readouts
  <2>2. CASE ~isReadingOut
    BY <1>1, <2>2 DEF Readouts
  <2> QED BY <2>1, <2>2
<1>4. PICK l \in Nat : l = Len(ret)
  BY <1>2
<1>5. PICK m \in Nat : m = Len(Readouts) /\ m = IF isReadingOut THEN l + 1 ELSE l
  BY <1>3, <1>4
<1>6. \A r \in 1 .. m : r \in Int /\ (r \in 1 .. l \/ (isReadingOut /\ r = l + 1))
  BY <1>5
<1>7. \A q, r \in 1 .. m : q < r => q \in 1 .. l
  BY <1>5
<1>8. \A r \in 1 .. l : r \in Int /\ r \in 1 .. m
  BY <1>5
<1> QED BY <1>2, <1>3, <1>4, <1>5, <1>6, <1>7, <1>8

(* Nothing of it depends on the other members' steps.                      *)
LEMMA CutTypedKept ==
  ASSUME CutTyped, UNCHANGED <<fConfig, fTriggerLocationsPerChannel, fTriggerLocations, applyVars>>,
         Reading, Reading', stage' = "reading" => stage = "reading"
  PROVE  CutTyped'
<1>1. UNCHANGED <<ro_i, trigger_i, next_trig, isReadingOut, this_waveform, min_ro_samples, ret>>
  BY DEF applyVars
<1>2. GetTriggerTimes' = GetTriggerTimes /\ \A b : RoSamples(b)' = RoSamples(b)
  BY DEF GetTriggerTimes, RoSamples
<1>3. Readouts' = Readouts
  BY <1>1 DEF Readouts
<1>4. Apart(Readouts, ro_i)'
  BY <1>1, <1>3 DEF CutTyped, Apart, Run, LastOf
<1>5. LastOf(this_waveform)' = LastOf(this_waveform)
  BY <1>1 DEF LastOf
<1> QED BY <1>1, <1>2, <1>4, <1>5 DEF CutTyped

(* Every step keeps the state of the cut.                                  *)
LEMMA CutTypedStep == Typed /\ Typed' /\ MergeInv /\ CutTyped /\ [Next]_vars => CutTyped'
<1> SUFFICES ASSUME Typed, Typed', MergeInv, CutTyped, [Next]_vars PROVE CutTyped'
  OBVIOUS
<1>1. ASSUME FreshApply', stage' # "reading" PROVE CutTyped'
  <2>1. (Typed /\ FreshApply /\ stage # "reading" => CutTyped)'
    BY CutTypedFresh, PTL
  <2> QED BY <1>1, <2>1
<1>2. CASE Find \/ Merge \/ (stage \in {"find", "merge", "apply"} /\ UNCHANGED vars)
  <2>1. ~Reading /\ stage' # "reading" /\ UNCHANGED applyVars
    BY <1>2 DEF Find, Sample, Store, Merge, CopyOwn, Collect, MergeOne, Merged, vars, memberVars, Reading
  <2>2. FreshApply'
    BY <2>1 DEF CutTyped, FreshApply, applyVars
  <2> QED BY <1>1, <2>1, <2>2
<1>3. CASE BeginApply
  <2>1. /\ stage = "apply" /\ UNCHANGED <<fConfig, fTriggerLocationsPerChannel, fTriggerLocations,
                                          ro_i, trigger_i, isReadingOut, this_waveform, ret>>
    BY <1>3 DEF BeginApply
  <2>2. FreshApply
    BY <2>1 DEF CutTyped, Reading
  <2>3. CASE GetTriggerTimes = <<>>
    <3>1. stage' = "applied" /\ UNCHANGED <<next_trig, min_ro_samples>>
      BY <1>3, <2>3 DEF BeginApply
    <3>2. FreshApply'
      BY <2>1, <2>2, <3>1 DEF FreshApply
    <3> QED BY <1>1, <3>1, <3>2
  <2>4. CASE GetTriggerTimes # <<>>
    <3>1. /\ stage' = "reading" /\ next_trig' = GetTriggerTimes[1] /\ min_ro_samples' = RoSamples(FALSE)
      BY <1>3, <2>4 DEF BeginApply
    <3>2. GetTriggerTimes' = GetTriggerTimes /\ RoSamples(FALSE)' = RoSamples(FALSE)
      BY <2>1 DEF GetTriggerTimes, RoSamples
    <3>3. 1 \in DOMAIN GetTriggerTimes
      <4>1. GetTriggerTimes \in Seq(Int)
        BY <2>1, TriggersInOrder DEF AfterMerge
      <4> QED BY <2>4, <4>1
    <3>4. trigger_i' = 1 /\ ro_i' = 0 /\ isReadingOut' = FALSE /\ this_waveform' = <<>> /\ ret' = <<>>
      BY <2>1, <2>2 DEF FreshApply
    <3>5. Readouts' = <<>>
      BY <3>4 DEF Readouts
    <3>6. Apart(<<>>, 0)
      BY DEF Apart
    <3>7. 0 \in 0 .. NSamples /\ <<>> \in Seq(Seq(Samples)) /\ <<>> \in Seq(Samples)
      BY TriggerAssumption
    <3>8. Apart(Readouts, ro_i)'
      BY <3>4, <3>5, <3>6 DEF Apart
    <3> QED BY <3>1, <3>2, <3>3, <3>4, <3>7, <3>8 DEF CutTyped, Reading
  <2> QED BY <2>3, <2>4
<1>4. CASE ReadSample
  BY <1>4, CutTypedSample
<1>5. CASE Return
  <2>1. /\ stage' = "applied" /\ isReadingOut' = FALSE /\ this_waveform' = <<>>
        /\ UNCHANGED <<ro_i, ret>>
    BY <1>5 DEF Return
  <2>2. Readouts' = ret
    BY <2>1 DEF Readouts
  <2>3. Apart(ret, ro_i)
    BY ReadoutList DEF CutTyped, Apart
  <2>4. Apart(Readouts, ro_i)'
    BY <2>1, <2>2, <2>3 DEF Apart, Run, LastOf
  <2>5. <<>> \in Seq(Samples)
    OBVIOUS
  <2> QED BY <2>1, <2>4, <2>5 DEF CutTyped, Reading
<1>6. CASE NextEvent
  <2>1. FreshApply' /\ stage' # "reading"
    BY <1>6 DEF NextEvent, FreshApply
  <2> QED BY <1>1, <2>1
<1>7. CASE stage \in {"reading", "applied"} /\ UNCHANGED vars
  <2>1. /\ Reading /\ Reading' /\ stage' = stage
        /\ UNCHANGED <<fConfig, fTriggerLocationsPerChannel, fTriggerLocations, applyVars>>
    BY <1>7 DEF vars, memberVars, Reading
  <2> QED BY <2>1, CutTypedKept
<1>8. stage \in {"find", "merge", "apply", "reading", "applied"}
  BY DEF Typed, MembersTyped
<1> QED BY <1>2, <1>3, <1>4, <1>5, <1>6, <1>7, <1>8 DEF Next, Apply

(* The state of the cut is as described throughout.                        *)
LEMMA AlwaysCut == Spec => []CutTyped
<1>1. Init /\ Typed => CutTyped
  BY CutTypedFresh DEF Init
<1> QED BY <1>1, CutTypedStep, AlwaysTyped, AlwaysMerge, PTL DEF Spec

-----------------------------------------------------------------------------
(* A step reads a sample, returns the readouts, begins with none, or       *)
(* leaves the cut alone.                                                   *)
NoReadouts == ret = <<>> /\ isReadingOut = FALSE /\ ro_i = 0 /\ trigger_i = 1
CutKept ==
  Reading /\ UNCHANGED <<stage, fConfig, fTriggerLocationsPerChannel, fTriggerLocations, applyVars>>

(* Every step is one of the four.                                          *)
LEMMA CutSteps ==
  ASSUME Typed, CutTyped, [Next]_vars
  PROVE  ReadSample \/ Return \/ NoReadouts' \/ CutKept
<1>1. stage \in {"find", "merge", "apply", "reading", "applied"}
  BY DEF Typed, MembersTyped
<1>2. ~Reading => NoReadouts
  BY DEF CutTyped, FreshApply, NoReadouts
<1>3. CASE Find \/ Merge \/ BeginApply \/ (stage \in {"find", "merge", "apply"} /\ UNCHANGED vars)
  <2>1. ~Reading /\ UNCHANGED <<ret, isReadingOut, ro_i, trigger_i>>
    BY <1>3 DEF Find, Sample, Store, Merge, CopyOwn, Collect, MergeOne, Merged, BeginApply, vars, memberVars,
                applyVars, Reading
  <2> QED BY <1>2, <2>1 DEF NoReadouts
<1>4. CASE NextEvent
  BY <1>4 DEF NextEvent, NoReadouts
<1>5. CASE stage \in {"reading", "applied"} /\ UNCHANGED vars
  BY <1>5 DEF vars, memberVars, Reading, CutKept
<1> QED BY <1>1, <1>3, <1>4, <1>5 DEF Next, Apply

(* What the cut depends on, besides its own variables, it leaves alone.    *)
LEMMA SameWindows ==
  ASSUME UNCHANGED <<fConfig, fTriggerLocationsPerChannel, fTriggerLocations>>
  PROVE  /\ GetTriggerTimes' = GetTriggerTimes /\ Triggers' = Triggers
         /\ \A k : Windows(k)' = Windows(k)
         /\ \A t : IsBeam(t)' = IsBeam(t)
         /\ \A b : RoSamples(b)' = RoSamples(b) /\ PreOf(b)' = PreOf(b) /\ PostOf(b)' = PostOf(b)
         /\ EqualWindows' = EqualWindows /\ ScanEnd' = ScanEnd
         /\ IsInjective(GetTriggerTimes)' = IsInjective(GetTriggerTimes)
<1>1. GetTriggerTimes' = GetTriggerTimes /\ Triggers' = Triggers
  BY DEF GetTriggerTimes, Triggers
<1>2. \A b : RoSamples(b)' = RoSamples(b) /\ PreOf(b)' = PreOf(b) /\ PostOf(b)' = PostOf(b)
  BY DEF RoSamples, PreOf, PostOf
<1>3. \A t : IsBeam(t)' = IsBeam(t)
  BY DEF IsBeam
<1>4. \A k : Windows(k)' = Windows(k)
  BY <1>1 DEF Windows, PreOf, PostOf, IsBeam, TimeOf
<1>5. EqualWindows' = EqualWindows /\ ScanEnd' = ScanEnd
  BY <1>2 DEF EqualWindows, ScanEnd
<1>6. IsInjective(GetTriggerTimes)' = IsInjective(GetTriggerTimes)
  BY <1>1 DEF IsInjective
<1> QED BY <1>1, <1>2, <1>3, <1>4, <1>5, <1>6

(* A readout begins in the window of a trigger and is of that one's size:  *)
(* when it is packaged, and as far as it has grown.                        *)
SizedFor(w, t) ==
  IF fConfig.AllowTriggerOverlap THEN Len(w) >= RoSamples(IsBeam(t))
                                 ELSE Len(w) = RoSamples(IsBeam(t))
IsWhole(w) == \E t \in Windows(w[1]) : SizedFor(w, t)
IsPart(w, size) ==
  \E t \in Windows(w[1]) : /\ size = RoSamples(IsBeam(t))
                           /\ fConfig.AllowTriggerOverlap \/ Len(w) <= size
CutSized ==
  /\ \A w \in ToSet(ret) : IsWhole(w)
  /\ isReadingOut => \A w \in {this_waveform}, s \in {min_ro_samples} : IsPart(w, s)

(* Appending adds one element.                                             *)
LEMMA LastAdded ==
  ASSUME NEW S, NEW s \in Seq(S), NEW x \in S
  PROVE  ToSet(Append(s, x)) = ToSet(s) \cup {x}
<1>1. /\ DOMAIN Append(s, x) = 1 .. Len(s) + 1 /\ DOMAIN s = 1 .. Len(s) /\ Len(s) \in Nat
      /\ Append(s, x)[Len(s) + 1] = x /\ \A k \in 1 .. Len(s) : Append(s, x)[k] = s[k]
  OBVIOUS
<1> DEFINE u == Append(s, x)
<1> HIDE DEF u
<1>2. {u[k] : k \in 1 .. Len(s) + 1} = {u[k] : k \in 1 .. Len(s)} \cup {u[Len(s) + 1]}
  BY <1>1
<1> QED BY <1>1, <1>2 DEF ToSet, u

(* An iteration of the loop keeps the sizes of the readouts.               *)
LEMMA CutSizedSample ==
  ASSUME Typed, MergeInv, CutTyped, CutSized, ReadSample
  PROVE  CutSized'
<1>1. /\ stage = "reading" /\ ro_i \in Samples /\ ro_i < NSamples /\ UNCHANGED memberVars
      /\ isReadingOut' \in BOOLEAN
      /\ Grows \/ Begins \/ Rests
  BY SampleCases, TriggerAssumption DEF Samples
<1>2. UNCHANGED <<fConfig, fTriggerLocationsPerChannel, fTriggerLocations>>
  BY <1>1 DEF memberVars
<1>3. \A w : IsWhole(w)' <=> IsWhole(w)
  BY <1>2, SameWindows DEF IsWhole, SizedFor
<1>4. \A w, s : IsPart(w, s)' <=> IsPart(w, s)
  BY <1>2, SameWindows DEF IsPart
<1>5. ASSUME isReadingOut, ~KeepsReading(IsTriggered) PROVE IsWhole(this_waveform)
  <2>1. PICK t \in Windows(this_waveform[1]) :
          /\ min_ro_samples = RoSamples(IsBeam(t))
          /\ fConfig.AllowTriggerOverlap \/ Len(this_waveform) <= min_ro_samples
    BY <1>5 DEF CutSized, IsPart
  <2>2. ~(Len(this_waveform) < min_ro_samples)
    BY <1>5 DEF KeepsReading
  <2>3. Len(this_waveform) \in Nat /\ RoSamples(IsBeam(t)) \in Nat
    BY WindowSizes DEF Typed, MembersTyped, CutTyped
  <2>4. SizedFor(this_waveform, t)
    BY <2>1, <2>2, <2>3 DEF SizedFor
  <2> QED BY <2>4 DEF IsWhole
<1>6. \A w \in ToSet(ret') : IsWhole(w)
  <2>1. ret \in Seq(Seq(Samples)) /\ this_waveform \in Seq(Samples)
    BY DEF CutTyped
  <2>2. ToSet(Append(ret, this_waveform)) = ToSet(ret) \cup {this_waveform}
    <3> HIDE DEF Samples
    <3> QED BY <2>1, LastAdded
  <2>3. CASE Grows
    BY <2>3 DEF Grows, CutSized
  <2>4. CASE ret' = Readouts /\ (isReadingOut => ~KeepsReading(IsTriggered))
    BY <1>5, <2>2, <2>4 DEF Readouts, CutSized
  <2> QED BY <1>1, <2>3, <2>4 DEF Begins, Rests
<1>7. isReadingOut' => IsPart(this_waveform', min_ro_samples')
  <2>1. CASE Grows
    <3>1. PICK t \in Windows(this_waveform[1]) :
            /\ min_ro_samples = RoSamples(IsBeam(t))
            /\ fConfig.AllowTriggerOverlap \/ Len(this_waveform) <= min_ro_samples
      BY <2>1 DEF CutSized, IsPart, Grows
    <3>2. Run(this_waveform) /\ LastOf(this_waveform) = ro_i - 1
      <4>1. isReadingOut /\ Readouts = Append(ret, this_waveform)
        BY <2>1 DEF Grows, Readouts
      <4>2. ret \in Seq(Seq(Samples)) /\ this_waveform \in Seq(Samples)
        BY DEF CutTyped
      <4>3. Len(ret) + 1 \in DOMAIN Readouts /\ Readouts[Len(ret) + 1] = this_waveform
        BY <4>1, <4>2
      <4> QED BY <4>1, <4>3 DEF CutTyped, Apart
    <3>3. Append(this_waveform, ro_i)[1] = this_waveform[1]
          /\ Len(Append(this_waveform, ro_i)) = Len(this_waveform) + 1
      BY <1>1, <3>2, RunGrows
    <3>4. Len(this_waveform) \in Nat /\ RoSamples(IsBeam(t)) \in Nat
      BY WindowSizes DEF Typed, MembersTyped, CutTyped
    <3>5. fConfig.AllowTriggerOverlap \/ Len(this_waveform) + 1 <= min_ro_samples
      BY <2>1, <3>1, <3>4 DEF Grows, KeepsReading
    <3> QED BY <2>1, <3>1, <3>3, <3>5 DEF Grows, IsPart
  <2>2. CASE Begins
    <3>1. PICK t \in Windows(ro_i) : RoSamples(BeamFlag) = RoSamples(IsBeam(t))
      BY <1>1, <2>2, OfTrigger DEF Begins, IsTriggered
    <3>2. RoSamples(BeamFlag) \in Nat /\ RoSamples(BeamFlag) >= 1
      BY WindowSizes DEF Typed, MembersTyped
    <3>3. <<ro_i>>[1] = ro_i /\ Len(<<ro_i>>) = 1
      OBVIOUS
    <3> QED BY <2>2, <3>1, <3>2, <3>3 DEF Begins, IsPart
  <2>3. CASE Rests
    BY <2>3 DEF Rests
  <2> QED BY <1>1, <2>1, <2>2, <2>3
<1>8. \A w \in ToSet(ret)' : IsWhole(w)'
  BY <1>3, <1>6 DEF ToSet
<1>9. \A w, s : isReadingOut' /\ w = this_waveform' /\ s = min_ro_samples' => IsPart(w, s)'
  BY <1>4, <1>7
<1> QED BY <1>8, <1>9 DEF CutSized

(* So does every step.                                                     *)
LEMMA CutSizedStep == Typed /\ MergeInv /\ CutTyped /\ CutSized /\ [Next]_vars => CutSized'
<1> SUFFICES ASSUME Typed, MergeInv, CutTyped, CutSized, [Next]_vars PROVE CutSized'
  OBVIOUS
<1>1. CASE ReadSample
  BY <1>1, CutSizedSample
<1>2. CASE NoReadouts'
  BY <1>2 DEF NoReadouts, CutSized, ToSet
<1>3. CASE CutKept
  <2>1. /\ UNCHANGED <<fConfig, fTriggerLocationsPerChannel, fTriggerLocations>>
        /\ UNCHANGED <<isReadingOut, this_waveform, min_ro_samples, ret>>
    BY <1>3 DEF CutKept, applyVars
  <2>2. \A w : IsWhole(w)' <=> IsWhole(w)
    BY <2>1, SameWindows DEF IsWhole, SizedFor
  <2>3. \A w, s : IsPart(w, s)' <=> IsPart(w, s)
    BY <2>1, SameWindows DEF IsPart
  <2>4. ToSet(ret)' = ToSet(ret)
    BY <2>1 DEF ToSet
  <2> QED BY <2>1, <2>2, <2>3, <2>4 DEF CutSized
<1>4. CASE Return
  <2>1. UNCHANGED <<fConfig, fTriggerLocationsPerChannel, fTriggerLocations, ret>> /\ isReadingOut' = FALSE
    BY <1>4 DEF Return
  <2>2. \A w : IsWhole(w)' <=> IsWhole(w)
    BY <2>1, SameWindows DEF IsWhole, SizedFor
  <2>3. ToSet(ret)' = ToSet(ret)
    BY <2>1 DEF ToSet
  <2> QED BY <2>1, <2>2, <2>3 DEF CutSized
<1> QED BY <1>1, <1>2, <1>3, <1>4, CutSteps

(* The readouts have the sizes of their triggers throughout.               *)
LEMMA AlwaysSized == Spec => []CutSized
<1>1. Init => CutSized
  BY DEF Init, FreshApply, CutSized, ToSet
<1> QED BY <1>1, CutSizedStep, AlwaysTyped, AlwaysMerge, AlwaysCut, PTL DEF Spec

(* The variables of the scan and of the cut keep their types, the loops    *)
(* stay inside the waveform, and the cut tests a trigger of its list.      *)
THEOREM TypesAreKept == Spec => []TypeOK
<1>1. Typed => ScanTypeOK
  <2> SUFFICES ASSUME Typed PROVE ScanTypeOK
    OBVIOUS
  <2>1. StartI \in Nat /\ EndI \in Int /\ EndI < NSamples /\ NSamples \in Nat
    BY ScanEnds, TriggerAssumption DEF Typed, MembersTyped
  <2>2. i \in Int /\ StartI <= i /\ (stage = "find" /\ adcs # <<>> => i <= EndI + 1)
    BY DEF Typed, ScanTyped
  <2>3. i \in Nat /\ (stage = "find" /\ adcs # <<>> => i <= NSamples)
    BY <2>1, <2>2
  <2> QED BY <2>1, <2>2, <2>3 DEF ScanTypeOK, Typed, ScanTyped
<1>2. CutTyped => ApplyTypeOK
  <2> SUFFICES ASSUME CutTyped PROVE ApplyTypeOK
    OBVIOUS
  <2>1. \A r \in DOMAIN Readouts : Readouts[r] \in Seq(Samples) \ {<<>>}
    BY DEF CutTyped, Apart, Run
  <2> QED BY <2>1 DEF CutTyped, ApplyTypeOK, Samples
<1> QED BY <1>1, <1>2, AlwaysTyped, AlwaysCut, PTL DEF TypeOK

(* Every readout is a run of consecutive samples, they follow one another  *)
(* without sharing a sample, and those packaged have the size of a window. *)
THEOREM ReadoutsAreApart == Spec => [](ReadoutsDisjoint /\ UniformSize)
<1>1. CutTyped => ReadoutsDisjoint
  <2> SUFFICES ASSUME CutTyped PROVE ReadoutsDisjoint
    OBVIOUS
  <2>1. Apart(Readouts, ro_i)
    BY DEF CutTyped
  <2>2. ASSUME NEW r \in DOMAIN ret, r + 1 \in DOMAIN Readouts PROVE Last(ret[r]) < Readouts[r + 1][1]
    <3>1. r \in DOMAIN Readouts /\ r \in Int /\ Readouts[r] = ret[r]
      BY <2>2, ReadoutList
    <3>2. LastOf(Readouts[r]) < Readouts[r + 1][1]
      <4>1. r < r + 1
        BY <3>1
      <4> QED BY <2>1, <2>2, <3>1, <4>1 DEF Apart
    <3> QED BY <3>1, <3>2 DEF Last, LastOf
  <2> QED BY <2>1, <2>2 DEF ReadoutsDisjoint, Apart, Run
<1>2. CutSized => UniformSize
  <2> SUFFICES ASSUME CutSized, NEW r \in DOMAIN ret
               PROVE  IF fConfig.AllowTriggerOverlap
                      THEN Len(ret[r]) >= RoSamples(TRUE) \/ Len(ret[r]) >= RoSamples(FALSE)
                      ELSE Len(ret[r]) \in {RoSamples(TRUE), RoSamples(FALSE)}
    BY DEF UniformSize
  <2>1. PICK t : SizedFor(ret[r], t)
    BY DEF CutSized, IsWhole, ToSet
  <2>2. RoSamples(IsBeam(t)) \in {RoSamples(TRUE), RoSamples(FALSE)}
    BY DEF RoSamples
  <2> QED BY <2>1, <2>2 DEF SizedFor
<1> QED BY <1>1, <1>2, AlwaysCut, AlwaysSized, PTL

-----------------------------------------------------------------------------
(* The windows are of whole samples where readouts may not grow: otherwise *)
(* a readout would end before its window, and the same trigger begin two.  *)
WholeWindows ==
  \A c \in Configs : c.AllowTriggerOverlap \/ /\ (c.Pre + c.Post) % Period = 0
                                              /\ (c.PreBeam + c.PostBeam) % Period = 0

(* Samples that far apart are as far apart in time.                        *)
LEMMA TimesApart ==
  ASSUME NEW j \in Int, NEW k \in Int, NEW m \in Nat, j + m <= k
  PROVE  TimeOf(j) + m * Period <= TimeOf(k)
<1>1. WfmStart \in Int /\ Period \in Nat
  BY TriggerAssumption
<1>2. (j + m) * Period <= k * Period
  BY <1>1
<1>3. (j + m) * Period = j * Period + m * Period
  BY <1>1
<1> QED BY <1>1, <1>2, <1>3 DEF TimeOf

(* Every readout begins in the window of a trigger.                        *)
LEMMA BeginsInWindow ==
  ASSUME CutTyped, CutSized, NEW r \in DOMAIN Readouts
  PROVE  \E t \in Windows(Readouts[r][1]) : r \in DOMAIN ret => SizedFor(Readouts[r], t)
<1>1. CASE r \in DOMAIN ret
  <2>1. ret[r] = Readouts[r] /\ ret[r] \in ToSet(ret)
    BY <1>1, ReadoutList DEF ToSet
  <2> QED BY <2>1 DEF CutSized, IsWhole
<1>2. CASE r \notin DOMAIN ret
  <2>1. isReadingOut /\ r = Len(ret) + 1 /\ Readouts[r] = this_waveform
    BY <1>2, ReadoutList
  <2> QED BY <1>2, <2>1 DEF CutSized, IsPart
<1> QED BY <1>1, <1>2

(* No two readouts begin in the window of the same trigger.                *)
LEMMA OneEach ==
  ASSUME WholeWindows, Typed, MergeInv, AfterMerge, CutTyped, ~fConfig.AllowTriggerOverlap,
         NEW q \in DOMAIN Readouts, NEW r \in DOMAIN Readouts, q < r,
         NEW t \in Windows(Readouts[q][1]), SizedFor(Readouts[q], t)
  PROVE  t \notin Windows(Readouts[r][1])
<1>1. PICK b : b = IsBeam(t)
  OBVIOUS
<1>2. PICK u : u = Readouts[q]
  OBVIOUS
<1>3. PICK v : v = Readouts[r]
  OBVIOUS
<1>4. PICK l : l = Len(u)
  OBVIOUS
<1>5. Run(u) /\ Run(v) /\ LastOf(u) < v[1]
  BY <1>2, <1>3 DEF CutTyped, Apart
<1>6. u[1] \in Int /\ v[1] \in Int /\ l \in Nat /\ u[1] + l <= v[1]
  <2>1. u[1] \in Samples /\ v[1] \in Samples /\ l \in Nat /\ LastOf(u) = u[1] + l - 1
    BY <1>4, <1>5, RunLength
  <2>2. u[1] \in Int /\ v[1] \in Int
    BY <2>1 DEF Samples
  <2> QED BY <1>5, <2>1, <2>2
<1>7. fConfig \in Configs /\ Period \in Nat /\ Period > 0 /\ PreOf(b) \in Nat /\ PostOf(b) \in Nat
  BY WindowSizes, TriggerAssumption DEF Typed, MembersTyped
<1>8. (PreOf(b) + PostOf(b)) % Period = 0
  BY <1>7 DEF WholeWindows, PreOf, PostOf
<1>9. l = (PreOf(b) + PostOf(b)) \div Period
  <2>1. l = RoSamples(b)
    BY <1>1, <1>2, <1>4 DEF SizedFor
  <2> QED BY <1>7, <2>1, WindowSizes
<1>10. l * Period = PreOf(b) + PostOf(b)
  <2>1. ASSUME NEW a \in Nat, a % Period = 0 PROVE (a \div Period) * Period = a
    BY <1>7, <2>1
  <2>2. PreOf(b) + PostOf(b) \in Nat
    BY <1>7
  <2> QED BY <1>8, <1>9, <2>1, <2>2
<1>11. TimeOf(u[1]) + l * Period <= TimeOf(v[1]) /\ TimeOf(u[1]) \in Int /\ TimeOf(v[1]) \in Int
  BY <1>6, TimesApart, TimesInOrder
<1>12. t \in Int
  <2>1. GetTriggerTimes \in Seq(Int)
    BY TriggersInOrder
  <2> QED BY <2>1 DEF Windows, Triggers, ToSet
<1>13. TimeOf(u[1]) >= t - PreOf(b)
  BY <1>1, <1>2 DEF Windows
<1>14. ~(TimeOf(v[1]) < t + PostOf(b))
  BY <1>7, <1>10, <1>11, <1>12, <1>13
<1> QED BY <1>1, <1>3, <1>14 DEF Windows

(* So there are no more readouts than triggers.                            *)
LEMMA EachTriggered ==
  ASSUME WholeWindows, Typed, MergeInv, CutTyped, CutSized
  PROVE  ReadoutsTriggered
<1> SUFFICES ASSUME Reading
             PROVE  /\ \A r \in DOMAIN Readouts : Windows(Readouts[r][1]) # {}
                    /\ fConfig.AllowTriggerOverlap \/ Len(Readouts) <= Cardinality(Triggers)
  BY DEF ReadoutsTriggered
<1>1. \A r \in DOMAIN Readouts : Windows(Readouts[r][1]) # {}
  BY BeginsInWindow
<1>2. ASSUME ~fConfig.AllowTriggerOverlap PROVE Len(Readouts) <= Cardinality(Triggers)
  <2>1. AfterMerge
    BY DEF Reading, AfterMerge
  <2> DEFINE Is(r, t) == t \in Windows(Readouts[r][1]) /\ (r \in DOMAIN ret => SizedFor(Readouts[r], t))
             f == [r \in DOMAIN Readouts |-> CHOOSE t : Is(r, t)]
  <2>2. \A r \in DOMAIN Readouts : Is(r, f[r])
    <3> SUFFICES ASSUME NEW r \in DOMAIN Readouts PROVE Is(r, f[r])
      OBVIOUS
    <3>1. \E t : Is(r, t)
      BY BeginsInWindow
    <3> HIDE DEF Is
    <3> QED BY <3>1
  <2>3. \A r \in DOMAIN Readouts : f[r] \in Triggers
    BY <2>2 DEF Windows
  <2>4. ASSUME NEW q \in DOMAIN Readouts, NEW r \in DOMAIN Readouts, q < r PROVE f[q] # f[r]
    <3>1. q \in DOMAIN ret
      BY <2>4, ReadoutList
    <3>2. f[q] \in Windows(Readouts[q][1]) /\ SizedFor(Readouts[q], f[q]) /\ f[r] \in Windows(Readouts[r][1])
      BY <2>2, <3>1
    <3> HIDE DEF f
    <3>3. f[q] \notin Windows(Readouts[r][1])
      BY <1>2, <2>1, <2>4, <3>2, OneEach
    <3> QED BY <3>2, <3>3
  <2>5. DOMAIN f = DOMAIN Readouts
    OBVIOUS
  <2>6. f \in [DOMAIN Readouts -> Triggers]
    BY <2>3
  <2> HIDE DEF f
  <2>7. f \in Injection(1 .. Len(Readouts), Triggers)
    <3>1. DOMAIN Readouts = 1 .. Len(Readouts) /\ Len(Readouts) \in Nat
      BY ReadoutList
    <3>2. ASSUME NEW q \in DOMAIN Readouts, NEW r \in DOMAIN Readouts, f[q] = f[r] PROVE q = r
      <4>1. ~(q < r) /\ ~(r < q)
        BY <2>4, <3>2
      <4> QED BY <3>1, <4>1
    <3>3. IsInjective(f)
      BY <2>5, <3>2 DEF IsInjective
    <3> QED BY <2>6, <3>1, <3>3 DEF Injection
  <2>8. IsFiniteSet(Triggers)
    <3>1. GetTriggerTimes \in Seq(Int)
      BY <2>1, TriggersInOrder
    <3>2. IsFiniteSet(DOMAIN GetTriggerTimes)
      BY <3>1, FS_Interval
    <3> QED BY <3>2, ImageOf DEF Triggers, ToSet
  <2>9. Cardinality(1 .. Len(Readouts)) <= Cardinality(Triggers)
    BY <2>7, <2>8, FS_Injection
  <2>10. Cardinality(1 .. Len(Readouts)) = Len(Readouts)
    <3>1. Len(Readouts) \in Nat
      BY ReadoutList
    <3> QED BY SMTT(30), <3>1, FS_Interval
  <2> QED BY <2>9, <2>10
<1> QED BY <1>1, <1>2

-----------------------------------------------------------------------------
(* The windows are covered where that of the beam's trigger is that of the *)
(* others (EqualWindows): a longer one could begin before the window of an *)
(* earlier trigger, which is the one the loop tests its samples against.   *)
LEMMA OneWindow ==
  ASSUME EqualWindows
  PROVE  /\ \A b : PreOf(b) = fConfig.Pre /\ PostOf(b) = fConfig.Post
         /\ \A b : RoSamples(b) = RoSamples(FALSE)
BY DEF EqualWindows, PreOf, PostOf, RoSamples

(* Triggers at different times are a sample apart or more, and two of them *)
(* are not before the waveform.                                            *)
LEMMA TriggersSpaced ==
  ASSUME Typed, ScanInv, MergeInv, AfterMerge, IsInjective(GetTriggerTimes)
  PROVE  /\ \A j, k \in DOMAIN GetTriggerTimes : j < k => GetTriggerTimes[j] + Period <= GetTriggerTimes[k]
         /\ Len(GetTriggerTimes) > 1 => \A j \in DOMAIN GetTriggerTimes : TimeOf(0) <= GetTriggerTimes[j]
<1> DEFINE g == GetTriggerTimes
           r == fTriggerRangesPerChannel[Channel]
<1>1. /\ g \in Seq(Int) /\ DOMAIN g = 1 .. Len(g) /\ Len(g) \in Nat
      /\ \A j, k \in DOMAIN g : j < k => g[j] <= g[k]
  BY TriggersInOrder
<1>2. CASE fConfig.SelfTriggerPerChannel
  <2>1. g = [k \in DOMAIN r |-> r[k][1]]
    BY <1>2 DEF GetTriggerTimes, MergeInv, OwnStarts
  <2>2. \A k \in DOMAIN g : r[k] \in Found /\ g[k] = r[k][1]
    BY <2>1 DEF Found, ToSet
  <2> HIDE DEF g, r
  <2>3. \A k \in DOMAIN g : \E s \in Nat : g[k] = TimeOf(s)
    <3> SUFFICES ASSUME NEW k \in DOMAIN g PROVE \E s \in Nat : g[k] = TimeOf(s)
      OBVIOUS
    <3>1. PICK s \in Nat : StartedAt(r[k], s)
      BY <2>2 DEF ScanInv, FoundOnSamples
    <3> QED BY <2>2, <3>1 DEF StartedAt
  <2>4. ASSUME NEW j \in DOMAIN g, NEW k \in DOMAIN g, j < k PROVE g[j] + Period <= g[k]
    <3>1. PICK s \in Nat : g[j] = TimeOf(s)
      BY <2>3
    <3>2. PICK u \in Nat : g[k] = TimeOf(u)
      BY <2>3
    <3>3. g[j] <= g[k]
      BY <1>1, <2>4
    <3>4. g[j] # g[k]
      <4>1. j # k
        BY <1>1, <2>4
      <4> QED BY <4>1 DEF IsInjective, g
    <3>5. g[j] \in Int /\ g[k] \in Int
      BY <1>1
    <3>6. g[j] < g[k]
      BY <3>3, <3>4, <3>5
    <3> QED BY <3>1, <3>2, <3>6, TimesInOrder
  <2>5. ASSUME NEW j \in DOMAIN g PROVE TimeOf(0) <= g[j]
    <3>1. PICK s \in Nat : g[j] = TimeOf(s)
      BY <2>3
    <3>2. 0 = s \/ 0 < s
      OBVIOUS
    <3>3. TimeOf(0) \in Int /\ TimeOf(s) \in Int /\ (0 < s => TimeOf(0) < TimeOf(s))
      BY TimesInOrder
    <3> QED BY <3>1, <3>2, <3>3
  <2> QED BY <2>4, <2>5 DEF g
<1>3. CASE ~fConfig.SelfTriggerPerChannel
  <2>1. Len(g) <= 1
    BY <1>3 DEF GetTriggerTimes, MergeInv
  <2> HIDE DEF g
  <2>2. ~(Len(g) > 1) /\ \A j, k \in DOMAIN g : ~(j < k)
    BY <1>1, <2>1
  <2> QED BY <2>2 DEF g
<1> QED BY <1>2, <1>3

(* The loop has not passed over a trigger whose window is not over, nor    *)
(* stayed with one for more than a sample after it was.                    *)
UpToDate(k) ==
  /\ \A j \in 1 .. (k - 1) : GetTriggerTimes[j] + fConfig.Post <= TimeOf(ro_i)
  /\ k = Len(GetTriggerTimes) \/ TimeOf(ro_i) - Period < GetTriggerTimes[k] + fConfig.Post

(* Whether a sample is in a readout.                                       *)
IsReadOut(k) == \E w \in ToSet(Readouts) : k \in ToSet(w)

(* A readout packaged is followed by a sample in no window, which the loop *)
(* read.                                                                   *)
IsEnded(w) == LastOf(w) + 1 < ro_i /\ Windows(LastOf(w) + 1) = {}

(* A readout in progress goes on after its full size as long as its        *)
(* samples are in windows.                                                 *)
GoesOn(w) == \A q \in (w[1] + RoSamples(FALSE)) .. (ro_i - 1) : Windows(q) # {}

(* So far every sample in a window is in a readout, in one of those        *)
(* packaged or in the one in progress.                                     *)
Growing == /\ stage = "reading" /\ fConfig.AllowTriggerOverlap /\ EqualWindows
           /\ IsInjective(GetTriggerTimes)
CutCovers ==
  Growing => /\ \A k \in 0 .. (ro_i - 1) : Windows(k) # {} => IsReadOut(k)
             /\ \A k \in {trigger_i} : UpToDate(k)
             /\ \A w \in ToSet(ret) : IsEnded(w)
             /\ isReadingOut => \A w \in {this_waveform} : GoesOn(w)
             /\ ro_i <= ScanEnd

(* The trigger the sample is tested against is the first whose window is   *)
(* not over, or the last.                                                  *)
LEMMA NextUpToDate ==
  ASSUME Typed, ScanInv, MergeInv, CutTyped, CutCovers, Growing
  PROVE  /\ \A j \in 1 .. (NextTrigger - 1) : GetTriggerTimes[j] + fConfig.Post <= TimeOf(ro_i)
         /\ \/ NextTrigger = Len(GetTriggerTimes)
            \/ TimeOf(ro_i) < GetTriggerTimes[NextTrigger] + fConfig.Post
<1> DEFINE g == GetTriggerTimes
           Q == fConfig.Post
           l == Len(g)
<1>1. PICK m : m = trigger_i
  OBVIOUS
<1>2. PICK T : T = TimeOf(ro_i)
  OBVIOUS
<1>3. PICK o : o = NextTrigger
  OBVIOUS
<1>4. /\ g \in Seq(Int) /\ DOMAIN g = 1 .. l /\ l \in Nat
      /\ \A j, k \in DOMAIN g : j < k => g[j] + Period <= g[k]
  BY TriggersInOrder, TriggersSpaced DEF AfterMerge, Growing
<1>5. m \in 1 .. l /\ next_trig = g[m] /\ T \in Int
  <2>1. ro_i \in Int /\ trigger_i \in DOMAIN g /\ next_trig = g[trigger_i]
    BY TriggerAssumption DEF CutTyped, Growing
  <2> QED BY <1>1, <1>2, <1>4, <2>1, TimesInOrder
<1>6. \A b : PostOf(b) = Q
  BY OneWindow DEF Typed, MembersTyped, Growing
<1>7. Q \in Nat /\ Period \in Nat /\ Period > 0
  BY TriggerAssumption DEF Typed, MembersTyped, ConfigType
<1>8. /\ \A j \in 1 .. (m - 1) : g[j] + Q <= T
      /\ m = l \/ T - Period < g[m] + Q
  BY <1>1, <1>2 DEF CutCovers, UpToDate
<1>9. IsOver <=> m < l /\ T - g[m] >= Q
  BY <1>1, <1>2, <1>5, <1>6 DEF IsOver
<1>10. Following = {j \in (m + 1) .. l : g[j] + Q >= T}
  BY <1>1, <1>2, <1>6 DEF Following, Growing
<1>11. o \in m .. l /\ (IsOver /\ Following # {} => o \in Following /\ \A j \in Following : o <= j)
  BY <1>1, <1>3, NextOne DEF Growing
<1>12. ~(IsOver /\ Following # {}) => o = m
  BY <1>1, <1>3 DEF NextTrigger
<1> HIDE DEF g, l, Q
<1>13. CASE ~IsOver
  <2>1. o = m
    BY <1>12, <1>13
  <2>2. g[m] \in Int
    BY <1>4, <1>5
  <2>3. m = l \/ T < g[m] + Q
    BY <1>4, <1>5, <1>7, <1>9, <1>13, <2>2
  <2> QED BY <1>2, <1>3, <1>8, <2>1, <2>3 DEF g, l, Q
<1>14. CASE IsOver
  <2>1. m < l /\ T - g[m] >= Q /\ m + 1 \in 1 .. l /\ g[m] \in Int /\ g[m + 1] \in Int /\ m < m + 1
    BY <1>4, <1>5, <1>9, <1>14
  <2>2. g[m] + Period <= g[m + 1] /\ T - Period < g[m] + Q
    BY <1>4, <1>5, <1>8, <2>1
  <2>3. T < g[m + 1] + Q
    BY <1>5, <1>7, <2>1, <2>2
  <2>4. m + 1 \in Following
    BY <1>5, <1>7, <1>10, <2>1, <2>3
  <2>5. o = m + 1
    <3>1. o <= m + 1 /\ o \in (m + 1) .. l
      BY <1>10, <1>11, <1>14, <2>4
    <3> QED BY <1>4, <1>5, <3>1
  <2>6. \A j \in 1 .. m : g[j] + Q <= T
    <3> SUFFICES ASSUME NEW j \in 1 .. m PROVE g[j] + Q <= T
      OBVIOUS
    <3>1. j = m \/ j \in 1 .. (m - 1)
      BY <1>5
    <3> QED BY <1>5, <1>7, <1>8, <2>1, <3>1
  <2>7. 1 .. (o - 1) = 1 .. m
    BY <1>5, <2>5
  <2> QED BY <1>2, <1>3, <2>3, <2>5, <2>6, <2>7 DEF g, l, Q
<1> QED BY <1>13, <1>14

(* So a sample in the window of any trigger is in that of the one tested.  *)
LEMMA InAnyWindow ==
  ASSUME Typed, ScanInv, MergeInv, CutTyped, CutCovers, Growing,
         Windows(ro_i) # {}
  PROVE  IsTriggered
<1> DEFINE g == GetTriggerTimes
           P == fConfig.Pre
           Q == fConfig.Post
           l == Len(g)
<1>1. PICK T : T = TimeOf(ro_i)
  OBVIOUS
<1>2. PICK o : o = NextTrigger
  OBVIOUS
<1>3. /\ g \in Seq(Int) /\ DOMAIN g = 1 .. l /\ l \in Nat
      /\ \A j, k \in DOMAIN g : j < k => g[j] <= g[k]
  BY TriggersInOrder DEF AfterMerge, Growing
<1>4. \A b : PreOf(b) = P /\ PostOf(b) = Q
  BY OneWindow DEF Typed, MembersTyped, Growing
<1>5. P \in Nat /\ Q \in Nat
  BY TriggerAssumption DEF Typed, MembersTyped, ConfigType
<1>6. T \in Int /\ o \in 1 .. l
  <2>1. ro_i \in Int /\ trigger_i \in DOMAIN g
    BY TriggerAssumption DEF CutTyped, Growing
  <2>2. NextTrigger \in trigger_i .. Len(g)
    BY NextOne DEF Growing
  <2> QED BY <1>1, <1>2, <1>3, <2>1, <2>2, TimesInOrder
<1>7. /\ \A j \in 1 .. (o - 1) : g[j] + Q <= T
      /\ o = l \/ T < g[o] + Q
  BY <1>1, <1>2, NextUpToDate
<1>8. PICK j \in 1 .. l : T >= g[j] - P /\ T < g[j] + Q
  <2>1. PICK t \in Windows(ro_i) : TRUE
    OBVIOUS
  <2>2. T >= t - P /\ T < t + Q /\ t \in ToSet(g)
    BY <1>1, <1>4 DEF Windows, Triggers
  <2> QED BY <1>3, <2>2 DEF ToSet
<1> HIDE DEF g, P, Q, l
<1>9. g[j] \in Int /\ g[o] \in Int
  BY <1>3, <1>6
<1>10. j = o \/ o < j
  <2>1. j \notin 1 .. (o - 1)
    BY <1>5, <1>6, <1>7, <1>8, <1>9
  <2> QED BY <1>3, <1>6, <2>1
<1>11. T >= g[o] - P
  <2>1. g[o] <= g[j]
    BY <1>3, <1>6, <1>9, <1>10
  <2> QED BY <1>5, <1>6, <1>8, <1>9, <2>1
<1>12. T < g[o] + Q
  BY <1>3, <1>6, <1>7, <1>8, <1>10
<1> QED BY <1>1, <1>2, <1>4, <1>11, <1>12 DEF IsTriggered, IsTriggering, g, P, Q

(* The readout in progress is a run that ends before the loop's sample and  *)
(* after those packaged.                                                   *)
LEMMA InProgress ==
  ASSUME CutTyped, isReadingOut
  PROVE  /\ Run(this_waveform) /\ LastOf(this_waveform) = ro_i - 1
         /\ \A w \in ToSet(ret) : LastOf(w) < this_waveform[1]
<1>1. /\ Readouts[Len(ret) + 1] = this_waveform /\ Len(ret) + 1 \in DOMAIN Readouts
      /\ \A r \in DOMAIN ret : Readouts[r] = ret[r] /\ r \in DOMAIN Readouts /\ r < Len(ret) + 1
  <2>1. /\ Len(ret) \in Nat /\ DOMAIN ret = 1 .. Len(ret) /\ DOMAIN Readouts = 1 .. Len(ret) + 1
        /\ Readouts[Len(ret) + 1] = this_waveform /\ \A r \in DOMAIN ret : Readouts[r] = ret[r]
    BY ReadoutList
  <2> QED BY <2>1
<1> QED BY <1>1 DEF CutTyped, Apart, ToSet

(* Those packaged are runs.                                                *)
LEMMA EndsAre ==
  ASSUME CutTyped, NEW w \in ToSet(ret)
  PROVE  Run(w) /\ LastOf(w) \in Int
<1>1. Run(w)
  BY ReadoutList DEF CutTyped, Apart, ToSet
<1> QED BY <1>1, RunLength DEF Samples

(* A sample of a readout stays in one, and what is read is in one.         *)
LEMMA StaysReadOut ==
  ASSUME CutTyped, ReadSample
  PROVE  /\ \A k : IsReadOut(k) => IsReadOut(k)'
         /\ Grows \/ Begins => \A k : k = ro_i => IsReadOut(k)'
<1>1. PICK m : m = ro_i
  OBVIOUS
<1>2. m \in Samples /\ (Grows \/ Begins \/ Rests) /\ isReadingOut' \in BOOLEAN
  BY <1>1, SampleCases
<1>3. /\ Readouts \in Seq(Seq(Samples))
      /\ Grows => Readouts = Append(ret, this_waveform) /\ Readouts' = Append(ret, Append(this_waveform, m))
      /\ Begins => Readouts' = Append(Readouts, <<m>>)
      /\ Rests => Readouts' = Readouts
  BY <1>1, <1>2, ReadoutsAfter
<1>4. ret \in Seq(Seq(Samples)) /\ this_waveform \in Seq(Samples)
  BY DEF CutTyped
<1>5. <<m>> \in Seq(Samples) /\ Append(this_waveform, m) \in Seq(Samples) /\ ToSet(<<m>>) = {m}
      /\ ToSet(Append(this_waveform, m)) = ToSet(this_waveform) \cup {m}
  <2> HIDE DEF Samples
  <2>1. <<m>> \in Seq(Samples) /\ Append(this_waveform, m) \in Seq(Samples)
    BY <1>2, <1>4
  <2>2. ToSet(<<m>>) = {m}
    BY DEF ToSet
  <2>3. ToSet(Append(this_waveform, m)) = ToSet(this_waveform) \cup {m}
    BY <1>2, <1>4, LastAdded
  <2> QED BY <2>1, <2>2, <2>3
<1>10. \A s \in Seq(Seq(Samples)), x \in Seq(Samples) : ToSet(Append(s, x)) = ToSet(s) \cup {x}
  BY LastAdded
<1>6. \A k : IsReadOut(k)' <=> \E w \in ToSet(Readouts') : k \in ToSet(w)
  BY DEF IsReadOut, ToSet
<1>7. CASE Grows
  <2>1. ToSet(Readouts) = ToSet(ret) \cup {this_waveform}
    <3>1. ToSet(Append(ret, this_waveform)) = ToSet(ret) \cup {this_waveform}
      BY <1>4, LastAdded
    <3> QED BY <1>3, <1>7, <3>1
  <2>2. ToSet(Readouts') = ToSet(ret) \cup {Append(this_waveform, m)}
    <3>1. ToSet(Append(ret, Append(this_waveform, m))) = ToSet(ret) \cup {Append(this_waveform, m)}
      <4> DEFINE x == Append(this_waveform, m)
      <4>1. x \in Seq(Samples)
        BY <1>5
      <4> HIDE DEF x
      <4>2. ToSet(Append(ret, x)) = ToSet(ret) \cup {x}
        BY <1>10, <1>4, <4>1
      <4> QED BY <4>2 DEF x
    <3> QED BY <1>3, <1>7, <3>1
  <2>3. \A k : IsReadOut(k) => IsReadOut(k)'
    BY <1>5, <1>6, <2>1, <2>2 DEF IsReadOut
  <2>4. IsReadOut(m)'
    BY <1>5, <1>6, <2>2
  <2> QED BY <1>1, <2>3, <2>4
<1>8. CASE Begins
  <2>1. ToSet(Readouts') = ToSet(Readouts) \cup {<<m>>}
    <3>1. ToSet(Append(Readouts, <<m>>)) = ToSet(Readouts) \cup {<<m>>}
      <4> DEFINE x == <<m>>
      <4>1. x \in Seq(Samples)
        BY <1>5
      <4> HIDE DEF x
      <4>2. ToSet(Append(Readouts, x)) = ToSet(Readouts) \cup {x}
        BY <1>10, <1>3, <4>1
      <4> QED BY <4>2 DEF x
    <3> QED BY <1>3, <1>8, <3>1
  <2>2. \A k : IsReadOut(k) => IsReadOut(k)'
    BY <1>6, <2>1 DEF IsReadOut
  <2>3. IsReadOut(m)'
    BY <1>5, <1>6, <2>1
  <2> QED BY <1>1, <2>2, <2>3
<1>9. CASE Rests
  <2>1. \A k : IsReadOut(k) => IsReadOut(k)'
    BY <1>3, <1>6, <1>9 DEF IsReadOut
  <2>2. ~(Grows \/ Begins)
    BY <1>9 DEF Grows, Begins, Rests
  <2> QED BY <2>1, <2>2
<1> QED BY <1>2, <1>7, <1>8, <1>9

(* An iteration of the loop reads its sample out if it is in a window, and *)
(* keeps the trigger under test up to date.  It packages a readout only at *)
(* a sample in no window.                                                  *)
LEMMA CutCoversSample ==
  ASSUME Typed, ScanInv, MergeInv, CutTyped, CutCovers, ReadSample
  PROVE  CutCovers'
<1>1. PICK m : m = ro_i
  OBVIOUS
<1>2. /\ stage = "reading" /\ m \in Samples /\ ro_i' = m + 1 /\ UNCHANGED memberVars
      /\ trigger_i' = NextTrigger /\ (Grows \/ Begins \/ Rests)
      /\ isReadingOut \in BOOLEAN /\ isReadingOut' \in BOOLEAN
  BY <1>1, SampleCases DEF CutTyped
<1>3. m \in Int /\ m >= 0
  BY <1>2 DEF Samples
<1>4. UNCHANGED <<stage, fConfig, fTriggerLocationsPerChannel, fTriggerLocations>>
  BY <1>2 DEF memberVars
<1>5. /\ GetTriggerTimes' = GetTriggerTimes /\ \A k : Windows(k)' = Windows(k)
      /\ ScanEnd' = ScanEnd /\ RoSamples(FALSE)' = RoSamples(FALSE)
  BY <1>4, SameWindows
<1>6. Growing' = Growing
  BY <1>4, SameWindows DEF Growing
<1> SUFFICES ASSUME Growing
             PROVE  /\ \A k \in 0 .. m : Windows(k) # {} => IsReadOut(k)'
                    /\ \A k : k = trigger_i' => UpToDate(k)'
                    /\ \A w \in ToSet(ret') : IsEnded(w)'
                    /\ isReadingOut' => \A w : w = this_waveform' => GoesOn(w)'
                    /\ m + 1 <= ScanEnd
  <2>1. ToSet(ret)' = ToSet(ret')
    BY DEF ToSet
  <2>2. ro_i' - 1 = m
    BY <1>2, <1>3
  <2> QED BY <1>2, <1>5, <1>6, <2>1, <2>2 DEF CutCovers
<1>7. ASSUME NEW k \in 0 .. m, Windows(k) # {} PROVE IsReadOut(k)'
  <2>1. CASE k = m
    <3>1. IsTriggered
      BY <1>1, <1>7, <2>1, InAnyWindow
    <3>2. Grows \/ Begins
      BY <1>2, <3>1 DEF Rests
    <3> QED BY <1>1, <2>1, <3>2, StaysReadOut
  <2>2. CASE k # m
    <3>1. k \in 0 .. (m - 1)
      BY <1>3, <2>2
    <3>2. IsReadOut(k)
      BY <1>1, <1>7, <3>1 DEF CutCovers
    <3> QED BY <3>2, StaysReadOut
  <2> QED BY <2>1, <2>2
<1>8. ASSUME NEW k, k = trigger_i' PROVE UpToDate(k)'
  <2>1. k = NextTrigger
    BY <1>2, <1>8
  <2>2. PICK T : T = TimeOf(ro_i)
    OBVIOUS
  <2>3. /\ \A j \in 1 .. (k - 1) : GetTriggerTimes[j] + fConfig.Post <= T
        /\ k = Len(GetTriggerTimes) \/ T < GetTriggerTimes[k] + fConfig.Post
    BY <1>2, <2>1, <2>2, NextUpToDate
  <2>4. TimeOf(ro_i)' = T + Period /\ T \in Int /\ Period \in Nat
    BY <1>1, <1>2, <1>3, <2>2, TimesInOrder, TriggerAssumption DEF TimeOf
  <2>5. /\ GetTriggerTimes \in Seq(Int) /\ fConfig.Post \in Nat
        /\ k \in 1 .. Len(GetTriggerTimes)
    <3>1. GetTriggerTimes \in Seq(Int) /\ trigger_i \in DOMAIN GetTriggerTimes
          /\ NextTrigger \in trigger_i .. Len(GetTriggerTimes)
      BY <1>2, TriggersInOrder, NextOne DEF CutTyped, AfterMerge
    <3>2. fConfig.Post \in Nat
      BY TriggerAssumption DEF Typed, MembersTyped, ConfigType
    <3> QED BY <2>1, <3>1, <3>2
  <2>6. \A j \in 1 .. (k - 1) : GetTriggerTimes[j] + fConfig.Post <= T + Period
    <3> SUFFICES ASSUME NEW j \in 1 .. (k - 1) PROVE GetTriggerTimes[j] + fConfig.Post <= T + Period
      OBVIOUS
    <3>1. j \in 1 .. Len(GetTriggerTimes)
      BY <2>5
    <3>2. GetTriggerTimes[j] \in Int
      BY <2>5, <3>1
    <3> QED BY <2>3, <2>4, <2>5, <3>2
  <2>7. k = Len(GetTriggerTimes) \/ (T + Period) - Period < GetTriggerTimes[k] + fConfig.Post
    BY <2>3, <2>4
  <2> QED BY <1>4, <1>5, <2>4, <2>6, <2>7 DEF UpToDate
<1>9. \A w : IsEnded(w)' <=> LastOf(w) + 1 < m + 1 /\ Windows(LastOf(w) + 1) = {}
  BY <1>2, <1>5 DEF IsEnded, LastOf
<1>10. \A w \in ToSet(ret') : IsEnded(w)'
  <2>1. \A w \in ToSet(ret) : IsEnded(w)'
    <3> SUFFICES ASSUME NEW w \in ToSet(ret) PROVE IsEnded(w)'
      OBVIOUS
    <3>1. LastOf(w) + 1 < m /\ Windows(LastOf(w) + 1) = {}
      BY <1>1 DEF CutCovers, IsEnded
    <3>2. LastOf(w) \in Int
      BY EndsAre
    <3> QED BY <1>3, <1>9, <3>1, <3>2
  <2>2. CASE ret' = ret
    BY <2>1, <2>2
  <2>3. CASE Begins
    <3>1. ~isReadingOut
      BY <2>3 DEF Begins, KeepsReading, Growing
    <3> QED BY <2>2, <2>3, <3>1 DEF Begins, Readouts
  <2>4. CASE Rests /\ isReadingOut
    <3>1. Windows(m) = {}
      BY <1>1, <2>4, InAnyWindow DEF Rests
    <3>2. LastOf(this_waveform) = m - 1
      BY <1>1, <2>4 DEF CutTyped
    <3>3. PICK u : u = this_waveform
      OBVIOUS
    <3>4. IsEnded(u)'
      <4>1. (m - 1) + 1 = m /\ m < m + 1
        BY <1>3
      <4> QED BY <1>9, <3>1, <3>2, <3>3, <4>1
    <3>5. ret' = Append(ret, u)
      BY <2>4, <3>3 DEF Rests, Readouts
    <3>6. ToSet(Append(ret, u)) = ToSet(ret) \cup {u}
      <4>1. ret \in Seq(Seq(Samples)) /\ u \in Seq(Samples)
        BY <3>3 DEF CutTyped
      <4> HIDE DEF Samples
      <4> QED BY <4>1, LastAdded
    <3> QED BY <2>1, <3>4, <3>5, <3>6
  <2>5. CASE Rests /\ ~isReadingOut
    BY <2>2, <2>5 DEF Rests, Readouts
  <2> QED BY <1>2, <2>2, <2>3, <2>4, <2>5 DEF Grows
<1>11. PICK d : d = RoSamples(FALSE)
  OBVIOUS
<1>12. d \in Nat /\ d >= 1 /\ min_ro_samples = d
  BY <1>2, <1>11, OneWindow, WindowSizes DEF Typed, MembersTyped, CutTyped, Growing
<1>13. ASSUME isReadingOut', NEW w, w = this_waveform' PROVE GoesOn(w)'
  <2> SUFFICES ASSUME NEW q \in (w[1] + d) .. m PROVE Windows(q) # {}
    <3>1. ro_i' - 1 = m
      BY <1>2, <1>3
    <3> QED BY <1>5, <1>11, <3>1 DEF GoesOn
  <2>1. CASE Grows
    <3>1. isReadingOut /\ w = Append(this_waveform, m)
      BY <1>1, <1>13, <2>1 DEF Grows
    <3>2. Run(this_waveform) /\ LastOf(this_waveform) = m - 1
      BY <1>1, <3>1, InProgress
    <3>3. w[1] = this_waveform[1]
      BY <1>2, <3>1, <3>2, RunGrows
    <3>4. PICK s \in Int, l \in Nat : s = this_waveform[1] /\ l = Len(this_waveform) /\ m - 1 = s + l - 1
      BY <3>2, RunLength DEF Samples
    <3>5. CASE q \in (s + d) .. (m - 1)
      BY <1>1, <1>11, <3>1, <3>4, <3>5 DEF CutCovers, GoesOn
    <3>6. CASE q = m
      <4>1. ~(l < d)
        BY <1>3, <1>12, <3>3, <3>4, <3>6
      <4>2. IsTriggered
        BY <1>12, <2>1, <3>4, <4>1 DEF Grows, KeepsReading
      <4>3. ro_i < NSamples
        BY <1>1, <1>2, TriggerAssumption DEF Samples
      <4> QED BY <1>1, <1>2, <3>6, <4>2, <4>3, OfTrigger DEF IsTriggered
    <3> QED BY <1>3, <1>12, <3>3, <3>4, <3>5, <3>6
  <2>2. CASE Begins
    <3>1. w[1] = m
      BY <1>1, <1>13, <2>2 DEF Begins
    <3>2. ~(q \in (m + d) .. m)
      BY <1>3, <1>12
    <3> QED BY <3>1, <3>2
  <2>3. CASE Rests
    BY <1>13, <2>3 DEF Rests
  <2> QED BY <1>2, <2>1, <2>2, <2>3
<1>14. m + 1 <= ScanEnd
  <2>1. m < NSamples /\ ~(NSamples - 1 - d >= 0 /\ m >= NSamples - 1 - d)
    BY <1>1, <1>12 DEF ReadSample, NearEnd
  <2>2. NSamples \in Nat
    BY TriggerAssumption
  <2>3. ScanEnd = IF d < NSamples THEN NSamples - 1 - d ELSE NSamples
    BY <1>11 DEF ScanEnd
  <2>4. CASE d < NSamples
    BY <1>3, <1>12, <2>1, <2>2, <2>3, <2>4
  <2>5. CASE ~(d < NSamples)
    BY <1>3, <1>12, <2>1, <2>2, <2>3, <2>5
  <2> QED BY <2>4, <2>5
<1> QED BY <1>7, <1>8, <1>10, <1>13, <1>14

(* The cut begins with its first trigger up to date: one of several is not *)
(* before the waveform.                                                    *)
LEMMA CutCoversFresh == Typed /\ ScanInv /\ MergeInv /\ CutTyped /\ NoReadouts => CutCovers
<1> SUFFICES ASSUME Typed, ScanInv, MergeInv, CutTyped, NoReadouts PROVE CutCovers
  OBVIOUS
<1> SUFFICES ASSUME Growing PROVE UpToDate(1)
  <2>1. ro_i = 0 /\ trigger_i = 1 /\ isReadingOut = FALSE /\ ToSet(ret) = {}
    BY DEF NoReadouts, ToSet
  <2>2. 0 .. (ro_i - 1) = {}
    BY <2>1
  <2>3. 0 <= ScanEnd
    <3>1. PICK d \in Nat : d = RoSamples(FALSE)
      BY WindowSizes DEF Typed, MembersTyped
    <3>2. NSamples \in Nat
      BY TriggerAssumption
    <3>3. ScanEnd = IF d < NSamples THEN NSamples - 1 - d ELSE NSamples
      BY <3>1 DEF ScanEnd
    <3>4. CASE d < NSamples
      BY <3>2, <3>3, <3>4
    <3>5. CASE ~(d < NSamples)
      BY <3>2, <3>3, <3>5
    <3> QED BY <3>4, <3>5
  <2> QED BY <2>1, <2>2, <2>3 DEF CutCovers
<1> DEFINE g == GetTriggerTimes
<1>1. ro_i = 0 /\ 1 \in DOMAIN g /\ g \in Seq(Int) /\ AfterMerge
  BY TriggersInOrder DEF NoReadouts, CutTyped, AfterMerge, Growing
<1>2. Len(g) > 1 => TimeOf(0) <= g[1]
  BY <1>1, TriggersSpaced DEF Growing
<1>3. Period \in Nat /\ Period > 0 /\ fConfig.Post \in Nat
  BY TriggerAssumption DEF Typed, MembersTyped, ConfigType
<1>4. Len(g) = 1 \/ Len(g) > 1
  <2> HIDE DEF g
  <2>1. DOMAIN g = 1 .. Len(g) /\ Len(g) \in Nat
    BY <1>1
  <2> QED BY <1>1, <2>1
<1> HIDE DEF g
<1>5. TimeOf(0) \in Int /\ g[1] \in Int
  BY <1>1, TimesInOrder
<1>6. 1 = Len(g) \/ TimeOf(0) - Period < g[1] + fConfig.Post
  BY <1>2, <1>3, <1>4, <1>5
<1>7. 1 .. (1 - 1) = {}
  OBVIOUS
<1> QED BY <1>1, <1>6, <1>7 DEF UpToDate, g

(* Every step keeps the windows covered.                                   *)
LEMMA CutCoversStep ==
  Typed /\ ScanInv /\ MergeInv /\ CutTyped /\ CutCovers /\ [Next]_vars
  /\ Typed' /\ ScanInv' /\ MergeInv' /\ CutTyped' => CutCovers'
<1> SUFFICES ASSUME Typed, ScanInv, MergeInv, CutTyped, CutCovers, [Next]_vars,
                    Typed', ScanInv', MergeInv', CutTyped'
             PROVE  CutCovers'
  OBVIOUS
<1>1. CASE ReadSample
  BY <1>1, CutCoversSample
<1>2. CASE CutKept
  <2>1. /\ UNCHANGED <<stage, fConfig, fTriggerLocationsPerChannel, fTriggerLocations>>
        /\ UNCHANGED <<ro_i, trigger_i, isReadingOut, this_waveform, ret>>
    BY <1>2 DEF CutKept, applyVars
  <2>2. /\ GetTriggerTimes' = GetTriggerTimes /\ \A k : Windows(k)' = Windows(k)
        /\ ScanEnd' = ScanEnd /\ RoSamples(FALSE)' = RoSamples(FALSE)
    BY <2>1, SameWindows
  <2>3. Growing' = Growing
    BY <2>1, SameWindows DEF Growing
  <2>4. \A k : IsReadOut(k)' <=> IsReadOut(k)
    BY <2>1 DEF IsReadOut, Readouts, ToSet
  <2>5. \A k : UpToDate(k)' <=> UpToDate(k)
    BY <2>1, <2>2 DEF UpToDate, TimeOf
  <2>6. \A w : (IsEnded(w)' <=> IsEnded(w)) /\ (GoesOn(w)' <=> GoesOn(w))
    BY <2>1, <2>2 DEF IsEnded, GoesOn, LastOf
  <2>7. ToSet(ret)' = ToSet(ret)
    BY <2>1 DEF ToSet
  <2> QED BY <2>1, <2>2, <2>3, <2>4, <2>5, <2>6, <2>7 DEF CutCovers
<1>3. CASE NoReadouts'
  <2>1. (Typed /\ ScanInv /\ MergeInv /\ CutTyped /\ NoReadouts => CutCovers)'
    BY CutCoversFresh, PTL
  <2> QED BY <1>3, <2>1
<1>4. CASE Return
  <2>1. ~Growing'
    BY <1>4 DEF Return, Growing
  <2> QED BY <2>1 DEF CutCovers
<1> QED BY <1>1, <1>2, <1>3, <1>4, CutSteps

(* The windows read so far are covered throughout.                         *)
LEMMA AlwaysCovers == Spec => []CutCovers
<1>1. Init => CutCovers
  BY DEF Init, CutCovers, Growing
<1> QED BY <1>1, CutCoversStep, AlwaysTyped, AlwaysScan, AlwaysMerge, AlwaysCut, PTL DEF Spec

(* A readout in progress begins with the waveform or after a sample in no  *)
(* window, since the one before it ended there: its first trigger's window *)
(* is filled by its full size.                                             *)
LEMMA FillsWindow ==
  ASSUME Typed, CutTyped, CutSized, CutCovers, Growing, isReadingOut,
         NEW q \in (this_waveform[1] + 1) .. (ro_i - 1), q >= RoSamples(FALSE)
  PROVE  Windows(q) # {}
<1> DEFINE P == fConfig.Pre
           Q == fConfig.Post
           w == this_waveform
<1>1. PICK d : d = RoSamples(FALSE)
  OBVIOUS
<1>2. /\ \A b : PreOf(b) = P /\ PostOf(b) = Q
      /\ d \in Nat /\ d = (P + Q) \div Period
      /\ P \in Nat /\ Q \in Nat /\ Period \in Nat /\ Period > 0
  <2>1. \A b : PreOf(b) = P /\ PostOf(b) = Q
    BY OneWindow DEF Growing
  <2>2. /\ \A b : PreOf(b) \in Nat /\ PostOf(b) \in Nat
        /\ \A b : RoSamples(b) = (PreOf(b) + PostOf(b)) \div Period /\ RoSamples(b) \in Nat
    BY WindowSizes DEF Typed, MembersTyped
  <2>3. Period \in Nat /\ Period > 0
    BY TriggerAssumption
  <2> HIDE DEF P, Q
  <2> QED BY <1>1, <2>1, <2>2, <2>3
<1>3. Run(w) /\ LastOf(w) = ro_i - 1 /\ \A v \in ToSet(ret) : LastOf(v) < w[1]
  BY InProgress
<1>4. PICK s \in Samples : s = w[1]
  BY <1>3, RunLength
<1>5. s \in Int /\ s >= 0 /\ ro_i \in Int /\ q \in Int /\ s < q /\ q < ro_i /\ q >= d
  <2>1. ro_i \in Int /\ s \in Int /\ s >= 0
    BY <1>4, TriggerAssumption DEF CutTyped, Samples
  <2>2. q \in (s + 1) .. (ro_i - 1) /\ q >= d
    BY <1>1, <1>4
  <2> HIDE DEF w
  <2> QED BY <2>1, <2>2
<1>6. PICK t \in Windows(s) : TRUE
  BY <1>4 DEF CutSized, IsPart
<1>7. t \in Int /\ t \in Triggers /\ TimeOf(s) >= t - P /\ TimeOf(s) < t + Q
  <2>1. /\ t \in Triggers /\ TimeOf(s) >= t - PreOf(IsBeam(t)) /\ TimeOf(s) < t + PostOf(IsBeam(t))
    BY <1>6 DEF Windows
  <2>2. GetTriggerTimes \in Seq(Int)
    BY TriggerAssumption DEF GetTriggerTimes, Typed, MembersTyped
  <2>3. t \in Int
    BY <2>1, <2>2 DEF Triggers, ToSet
  <2> QED BY <1>2, <2>1, <2>3
<1> HIDE DEF P, Q
<1>8. CASE q >= s + d
  <2>1. GoesOn(this_waveform)
    BY DEF CutCovers
  <2>2. \A p \in (s + d) .. (ro_i - 1) : Windows(p) # {}
    BY <1>1, <1>4, <2>1 DEF GoesOn
  <2>3. q \in (s + d) .. (ro_i - 1)
    BY <1>2, <1>5, <1>8
  <2> QED BY <2>2, <2>3
<1>9. CASE q < s + d
  <2>1. s - 1 \in 0 .. (ro_i - 1)
    BY <1>2, <1>5, <1>9
  <2>2. Windows(s - 1) = {}
    <3> SUFFICES ASSUME Windows(s - 1) # {} PROVE FALSE
      OBVIOUS
    <3>1. PICK v \in ToSet(Readouts) : s - 1 \in ToSet(v)
      BY <2>1 DEF CutCovers, IsReadOut
    <3>2. ToSet(Readouts) = ToSet(ret) \cup {w}
      <4>1. ret \in Seq(Seq(Samples)) /\ w \in Seq(Samples)
        BY DEF CutTyped, w
      <4>2. Readouts = Append(ret, w)
        BY DEF Readouts, w
      <4> HIDE DEF Samples, w
      <4> QED BY <4>1, <4>2, LastAdded
    <3>3. CASE v = w
      <4>1. s <= s - 1
        BY <1>3, <1>4, <3>1, <3>3, InRun
      <4> QED BY <1>5, <4>1
    <3>4. CASE v \in ToSet(ret)
      <4>1. Run(v) /\ LastOf(v) \in Int
        BY <3>4, EndsAre
      <4>2. s - 1 <= LastOf(v) /\ LastOf(v) < s
        BY <1>3, <1>4, <3>1, <3>4, <4>1, InRun
      <4>3. LastOf(v) + 1 = s
        BY <1>5, <4>1, <4>2
      <4>4. Windows(s) = {}
        BY <3>4, <4>3 DEF CutCovers, IsEnded
      <4> QED BY <1>6, <4>4
    <3> QED BY <3>1, <3>2, <3>3, <3>4
  <2>3. /\ TimeOf(s - 1) \in Int /\ TimeOf(s) \in Int /\ TimeOf(q) \in Int
        /\ TimeOf(s - 1) < TimeOf(s) /\ TimeOf(s) < TimeOf(q)
    <3>1. s - 1 \in Int /\ s - 1 < s
      BY <1>5
    <3> QED BY <1>5, <3>1, TimesInOrder
  <2>4. TimeOf(s - 1) < t - P
    <3>1. ~(TimeOf(s - 1) >= t - P /\ TimeOf(s - 1) < t + Q)
      BY <1>2, <1>7, <2>2 DEF Windows
    <3> QED BY <1>2, <1>7, <2>3, <3>1
  <2>5. TimeOf(q) <= TimeOf(s - 1) + d * Period
    <3>1. PICK c \in Int : c = s - 1
      BY <1>5
    <3>2. (c + d) * Period = c * Period + d * Period
      <4>1. c \in Int /\ d \in Int /\ Period \in Int
        BY <1>2, <3>1
      <4> HIDE DEF w
      <4> QED BY <4>1
    <3>3. TimeOf(c + d) = TimeOf(c) + d * Period
      BY <1>2, <3>1, <3>2, TriggerAssumption DEF TimeOf
    <3>4. c + d \in Int /\ q <= c + d
      BY <1>2, <1>5, <1>9, <3>1
    <3>5. q = c + d \/ TimeOf(q) < TimeOf(c + d)
      <4>1. q = c + d \/ q < c + d
        BY <1>5, <3>4
      <4> QED BY <1>5, <3>4, <4>1, TimesInOrder
    <3>6. TimeOf(c + d) \in Int
      BY <3>4, TimesInOrder
    <3> QED BY <2>3, <3>1, <3>3, <3>5, <3>6
  <2>6. d * Period <= P + Q /\ d * Period \in Int
    <3>1. ASSUME NEW a \in Nat PROVE (a \div Period) * Period <= a
      BY <1>2
    <3>2. P + Q \in Nat
      BY <1>2
    <3> QED BY <1>2, <3>1, <3>2
  <2>7. TimeOf(q) >= t - P /\ TimeOf(q) < t + Q
    BY <1>2, <1>7, <2>3, <2>4, <2>5, <2>6
  <2> QED BY <1>2, <1>7, <2>7 DEF Windows
<1>10. q >= s + d \/ q < s + d
  BY <1>2, <1>5
<1> QED BY <1>8, <1>9, <1>10

(* When the loop ends, a sample in a window is in a readout packaged just  *)
(* if the loop has read one after it that ends its readout.                *)
LEMMA ReadToTheEnd ==
  ASSUME Typed, CutTyped, CutSized, CutCovers, Growing, ro_i >= NSamples \/ NearEnd,
         NEW k \in 0 .. (NSamples - 1), Windows(k) # {}
  PROVE  Returned(k) <=> EndsInTime(k)
<1>1. PICK d : d = RoSamples(FALSE)
  OBVIOUS
<1>2. d \in Nat /\ d >= 1 /\ min_ro_samples = d /\ \A b : RoSamples(b) = d
  BY <1>1, OneWindow, WindowSizes DEF Typed, MembersTyped, CutTyped, Growing
<1>3. NSamples \in Nat /\ ro_i \in Int /\ ro_i <= NSamples /\ ro_i = ScanEnd
  <2>1. NSamples \in Nat /\ ro_i \in Int /\ ro_i <= NSamples /\ ro_i <= ScanEnd
    BY TriggerAssumption DEF CutTyped, CutCovers
  <2>2. ro_i >= NSamples \/ (NSamples - 1 - d >= 0 /\ ro_i >= NSamples - 1 - d)
    BY <1>2 DEF NearEnd
  <2>3. ScanEnd = IF d < NSamples THEN NSamples - 1 - d ELSE NSamples
    BY <1>1 DEF ScanEnd
  <2>4. CASE d < NSamples
    BY <1>2, <2>1, <2>2, <2>3, <2>4
  <2>5. CASE ~(d < NSamples)
    BY <1>2, <2>1, <2>2, <2>3, <2>5
  <2> QED BY <2>4, <2>5
<1>4. EndsInTime(k) <=> \E q \in (k + 1) .. (ro_i - 1) : q >= d /\ Windows(q) = {}
  BY <1>1, <1>3 DEF EndsInTime
<1>5. Returned(k) <=> \E w \in ToSet(ret) : k \in ToSet(w)
  BY DEF Returned, ToSet
<1>6. ASSUME NEW w \in ToSet(ret), k \in ToSet(w)
      PROVE  \E q \in (k + 1) .. (ro_i - 1) : q >= d /\ Windows(q) = {}
  <2>1. Run(w) /\ LastOf(w) \in Int
    BY EndsAre
  <2>2. LastOf(w) + 1 < ro_i /\ Windows(LastOf(w) + 1) = {}
    BY DEF CutCovers, IsEnded
  <2>3. PICK t \in Windows(w[1]) : SizedFor(w, t)
    BY DEF CutSized, IsWhole
  <2>4. Len(w) >= d
    BY <1>2, <2>3 DEF SizedFor, Growing
  <2>5. k <= LastOf(w)
    BY <1>6, <2>1, InRun
  <2>6. Len(w) \in Nat /\ w[1] \in Samples /\ LastOf(w) = w[1] + Len(w) - 1
    BY <2>1, RunLength
  <2>7. LastOf(w) + 1 >= d
    BY <1>2, <2>4, <2>6 DEF Samples
  <2>8. LastOf(w) + 1 \in (k + 1) .. (ro_i - 1)
    BY <1>3, <2>1, <2>2, <2>5
  <2> QED BY <2>2, <2>7, <2>8
<1>7. ASSUME NEW q \in (k + 1) .. (ro_i - 1), q >= d, Windows(q) = {}
      PROVE  \E w \in ToSet(ret) : k \in ToSet(w)
  <2>1. k \in 0 .. (ro_i - 1)
    BY <1>3
  <2>2. PICK w \in ToSet(Readouts) : k \in ToSet(w)
    BY <2>1 DEF CutCovers, IsReadOut
  <2>3. CASE w \in ToSet(ret)
    BY <2>2, <2>3
  <2>4. CASE w \notin ToSet(ret)
    <3>1. isReadingOut /\ w = this_waveform
      <4>1. PICK r \in DOMAIN Readouts : w = Readouts[r]
        BY DEF ToSet
      <4>2. r \notin DOMAIN ret
        BY <2>4, <4>1, ReadoutList DEF ToSet
      <4> QED BY <4>1, <4>2, ReadoutList
    <3>2. Run(w)
      BY <3>1, InProgress
    <3>3. w[1] <= k /\ w[1] \in Int
      BY <2>2, <3>2, InRun, RunLength DEF Samples
    <3>4. q \in (this_waveform[1] + 1) .. (ro_i - 1)
      BY <1>3, <3>1, <3>3
    <3>5. Windows(q) # {}
      BY <1>1, <1>7, <3>1, <3>4, FillsWindow
    <3> QED BY <1>7, <3>5
  <2> QED BY <2>3, <2>4
<1> QED BY <1>4, <1>5, <1>6, <1>7

(* What is said of the readouts returned does not depend on other steps.   *)
LEMMA SameReturned ==
  ASSUME UNCHANGED <<fConfig, fTriggerLocationsPerChannel, fTriggerLocations, ret>>
  PROVE  \A k : /\ Returned(k)' <=> Returned(k)
                /\ EndsInTime(k)' <=> EndsInTime(k)
                /\ Windows(k)' = Windows(k)
<1>1. /\ \A k : Windows(k)' = Windows(k)
      /\ ScanEnd' = ScanEnd /\ RoSamples(FALSE)' = RoSamples(FALSE)
  BY SameWindows
<1>2. \A k : Returned(k)' <=> Returned(k)
  BY DEF Returned, ToSet
<1>3. \A k : EndsInTime(k)' <=> EndsInTime(k)
  BY <1>1 DEF EndsInTime
<1> QED BY <1>1, <1>2, <1>3

(* A step ends the loop, ends the cut with no trigger to apply, leaves it  *)
(* ended or is no end of it.                                               *)
LEMMA CoveredStep ==
  Typed /\ CutTyped /\ CutSized /\ CutCovers /\ WindowsCovered /\ [Next]_vars => WindowsCovered'
<1> SUFFICES ASSUME Typed, CutTyped, CutSized, CutCovers, WindowsCovered, [Next]_vars
             PROVE  WindowsCovered'
  OBVIOUS
<1>1. CASE stage' # "applied"
  BY <1>1 DEF WindowsCovered
<1>2. CASE Return
  <2>1. /\ stage = "reading" /\ (ro_i >= NSamples \/ NearEnd)
        /\ UNCHANGED <<fConfig, fTriggerLocationsPerChannel, fTriggerLocations, ret>>
    BY <1>2 DEF Return
  <2>2. EqualWindows' = EqualWindows /\ IsInjective(GetTriggerTimes)' = IsInjective(GetTriggerTimes)
    BY <2>1, SameWindows
  <2> SUFFICES ASSUME Growing, NEW k \in 0 .. (NSamples - 1), Windows(k)' # {}
               PROVE  Returned(k)' <=> EndsInTime(k)'
    BY <2>1, <2>2 DEF WindowsCovered, Growing
  <2>3. Windows(k) # {}
    BY <2>1, SameReturned
  <2>4. Returned(k) <=> EndsInTime(k)
    BY <2>1, <2>3, ReadToTheEnd
  <2> QED BY <2>1, <2>4, SameReturned
<1>3. CASE BeginApply /\ stage' = "applied"
  <2>1. GetTriggerTimes = <<>> /\ UNCHANGED <<fConfig, fTriggerLocationsPerChannel, fTriggerLocations, ret>>
    BY <1>3 DEF BeginApply
  <2>2. \A k : Windows(k) = {}
    BY <2>1 DEF Windows, Triggers, ToSet
  <2>3. \A k : Windows(k)' = {}
    BY <2>1, <2>2, SameReturned
  <2> QED BY <2>3 DEF WindowsCovered
<1>4. CASE UNCHANGED vars
  <2>1. UNCHANGED <<stage, fConfig, fTriggerLocationsPerChannel, fTriggerLocations, ret>>
    BY <1>4 DEF vars, memberVars, applyVars
  <2>2. EqualWindows' = EqualWindows /\ IsInjective(GetTriggerTimes)' = IsInjective(GetTriggerTimes)
    BY <2>1, SameWindows
  <2> QED BY <2>1, <2>2, SameReturned DEF WindowsCovered
<1>5. ASSUME Find \/ Merge \/ ReadSample \/ NextEvent PROVE stage' # "applied"
  BY <1>5 DEF Find, Sample, Store, Merge, CopyOwn, Collect, MergeOne, Merged, ReadSample, NextEvent, memberVars
<1> QED BY <1>1, <1>2, <1>3, <1>4, <1>5 DEF Next, Apply

(* The windows whose readouts end in time, and only they, are returned.    *)
LEMMA AlwaysReturned == Spec => []WindowsCovered
<1>1. Init => WindowsCovered
  BY DEF Init, WindowsCovered
<1> QED BY <1>1, CoveredStep, AlwaysTyped, AlwaysCut, AlwaysSized, AlwaysCovers, PTL DEF Spec

(* The readouts cut are sound: apart, of the sizes configured, each begun  *)
(* in the window of a trigger, no more of them than triggers when they may *)
(* not grow, and, when they may and the beam's window is the others', with *)
(* just the windows returned whose readout ends before the loop does.      *)
THEOREM ReadoutsAreSound ==
  ASSUME WholeWindows
  PROVE  Spec => []ReadoutsSound
<1>1. Typed /\ MergeInv /\ CutTyped /\ CutSized => ReadoutsTriggered
  BY EachTriggered
<1> QED BY <1>1, ReadoutsAreApart, AlwaysTyped, AlwaysMerge, AlwaysCut, AlwaysSized, AlwaysReturned, PTL
        DEF ReadoutsSound

-----------------------------------------------------------------------------
(* Some of the readout comes after its trigger.                            *)
ReadsAfter == \A c \in Configs : c.Post > 0

(* The pulse that begins at a sample is a range found, from that time on.  *)
LEMMA BeginsRange ==
  ASSUME Typed, ScanInv, NEW k \in Read, InRange(TimeOf(k)), k = StartI \/ Val(k - 1) = "below"
  PROVE  TimeOf(k) \in {L[1] : L \in Found}
<1>1. PICK L \in Found : L[1] <= TimeOf(k) /\ TimeOf(k) <= L[2]
  BY DEF InRange
<1>2. PICK j \in Nat : j >= StartI /\ L[1] = TimeOf(j) /\ NotBelow(j, L[2])
  BY <1>1 DEF ScanInv, FoundOnSamples, StartedAt
<1>3. StartI \in Nat /\ Len(adcs) \in Nat /\ k \in Int /\ k >= StartI
  <2>1. StartI \in Nat /\ Len(adcs) \in Nat
    BY ScanEnds DEF Typed, MembersTyped, ScanTyped
  <2> QED BY <2>1 DEF Read
<1>4. ~(k < j)
  <2>1. TimeOf(k) \in Int /\ TimeOf(j) \in Int /\ (k < j => TimeOf(k) < TimeOf(j))
    BY <1>2, <1>3, TimesInOrder
  <2> QED BY <1>1, <1>2, <2>1
<1>5. CASE j = k
  BY <1>1, <1>2, <1>5
<1>6. CASE j < k
  <2>1. k # StartI
    BY <1>2, <1>3, <1>6
  <2>2. Val(k - 1) = "below" /\ k - 1 \in Read /\ j <= k - 1
    BY <1>2, <1>3, <1>6, <2>1 DEF Read
  <2>3. TimeOf(k - 1) < TimeOf(k) /\ TimeOf(k - 1) \in Int /\ TimeOf(k) \in Int
    <3>1. k - 1 \in Int /\ k - 1 < k
      BY <1>3
    <3> QED BY <1>3, <3>1, TimesInOrder
  <2>4. L[2] \in Int
    <3>1. /\ fTriggerRangesPerChannel[Channel] \in Seq(Ranges) /\ locations \in Seq(Ranges)
      BY TriggerAssumption DEF Typed, MembersTyped, ScanTyped
    <3>2. L \in Ranges
      BY <3>1 DEF Found, ToSet
    <3> QED BY <3>2 DEF Ranges
  <2>5. TimeOf(k - 1) < L[2]
    BY <1>1, <2>3, <2>4
  <2> QED BY <1>2, <2>2, <2>5 DEF NotBelow
<1> QED BY <1>2, <1>3, <1>4, <1>5, <1>6

(* From the pulse to its readout: where each channel triggers itself, a    *)
(* pulse that begins while the channel is live, before the last two        *)
(* samples of the scan, has its first sample in a readout returned just if *)
(* the windows about it end before the cut does.                           *)
THEOREM PulsesAreReadOut ==
  ASSUME ShortHoldoff, ReadsAfter
  PROVE  Spec => []PulsesReadOut
<1>1. Typed /\ ScanInv /\ WindowsCovered /\ TriggersSound => PulsesReadOut
  <2> SUFFICES ASSUME Typed, ScanInv, WindowsCovered, NoStaleTrigger,
                      stage = "applied", fConfig.SelfTriggerPerChannel,
                      fConfig.AllowTriggerOverlap, EqualWindows, IsInjective(GetTriggerTimes),
                      NEW k \in Read,
                      k < EndI - 1, Val(k) = "above", ~Dead(TimeOf(k)),
                      k = StartI \/ Val(k - 1) = "below"
               PROVE  Returned(k) <=> EndsInTime(k)
    BY DEF PulsesReadOut, TriggersSound
  <2>1. InRange(TimeOf(k))
    BY DEF ScanInv, PulsesFound, StoredIfLive
  <2>2. TimeOf(k) \in Triggers
    <3>1. TimeOf(k) \in {L[1] : L \in Found}
      BY <2>1, BeginsRange
    <3> QED BY <3>1 DEF NoStaleTrigger, AfterMerge, Triggers
  <2>3. k \in 0 .. (NSamples - 1)
    <3>1. /\ StartI \in Nat /\ Len(adcs) \in Nat /\ EndI \in Int
          /\ EndI < NSamples /\ NSamples \in Nat
      BY ScanEnds, TriggerAssumption DEF Typed, MembersTyped, ScanTyped
    <3> QED BY <3>1 DEF Read
  <2>4. TimeOf(k) \in Windows(k)
    <3>1. PICK t : t = TimeOf(k)
      OBVIOUS
    <3>2. PICK b : b = IsBeam(t)
      OBVIOUS
    <3>3. PreOf(b) = fConfig.Pre /\ PostOf(b) = fConfig.Post /\ fConfig.Pre \in Nat
          /\ fConfig.Post \in Nat /\ fConfig.Post > 0
      BY OneWindow, TriggerAssumption DEF Typed, MembersTyped, ConfigType, ReadsAfter
    <3>4. t \in Int
      BY <2>3, <3>1, TimesInOrder
    <3>5. t >= t - PreOf(b) /\ t < t + PostOf(b)
      BY <3>3, <3>4
    <3> QED BY <2>2, <3>1, <3>2, <3>5 DEF Windows
  <2> QED BY <2>3, <2>4 DEF WindowsCovered
<1> QED BY <1>1, TriggersAreSound, AlwaysTyped, AlwaysScan, AlwaysReturned, PTL
=============================================================================
