------------------------------ MODULE PMTProof ------------------------------
(***************************************************************************)
(* What the monitor pulse, the slices and the PMT decoder keep, for        *)
(* waveforms, triggers and seconds of any length and any number of boards: *)
(* a pulse counts pairs, slices lie around the rises, waveforms are of one *)
(* trigger and have its time, and a flash is the light of one trigger.     *)
(*                                                                         *)
(* DecodeInv says that the boards' lists are the fragments that were put,  *)
(* in order, and that waveforms are made of consecutive ones.  Fragments   *)
(* that the tags join are less than a window apart and triggers lie        *)
(* further apart, so that what is joined is of one trigger, across the end *)
(* of a second as well (ExtensionFollows).  LayoutInv says where, with     *)
(* nothing lost, each waveform lies in the vectors, and FlashInv that the  *)
(* flashes' pulses are those of the waveforms found by stepping.           *)
(***************************************************************************)
EXTENDS PMTChain, FoldLemmas

(* The response of a waveform, up to sample m, and where the search goes   *)
(* on.                                                                     *)
Response(w, m, on, next) ==
  /\ on \subseteq 1 .. Len(w) - 1 /\ next \in Int
  /\ \A i \in on : \E k \in 2 .. i : i - k < MonSamples /\ Crossed(w, k)
  /\ \A i \in 2 .. Len(w) - 1 : i <= m /\ Crossed(w, i) => i \in on \/ i - 1 \in on
  /\ \A i \in 2 .. Len(w) - 1 : m < i /\ i < next => i - 1 \in on

NextResponse(w, acc, i) ==
  IF i >= acc.next /\ Crossed(w, i)
  THEN [on |-> acc.on \cup i .. EndIndex(i, w) - 1, next |-> After(i, w)] ELSE acc

(* One sample more.                                                        *)
LEMMA ResponseGrows ==
  ASSUME NEW w, Len(w) \in Nat, NEW m \in Nat, m >= 1, m + 1 <= Len(w),
         NEW acc, Response(w, m, acc.on, acc.next)
  PROVE  LET new == NextResponse(w, acc, m + 1)
         IN Response(w, m + 1, new.on, new.next)
<1> DEFINE i == m + 1
           e == EndIndex(i, w)
<1>1. MonSamples \in Nat /\ MonSamples > 0
  BY MonPulseAssumption
<1>2. e \in Int /\ e <= Len(w) /\ e <= i + MonSamples /\ (i < Len(w) => i < e)
  BY <1>1 DEF EndIndex
<1>3. CASE i >= acc.next /\ Crossed(w, i)
  <2> DEFINE on == acc.on \cup i .. e - 1
  <2>1. NextResponse(w, acc, i) = [on |-> on, next |-> e + 1]
    BY <1>3 DEF NextResponse, After
  <2>2. on \subseteq 1 .. Len(w) - 1
    BY <1>2 DEF Response
  <2>3. \A j \in on : \E k \in 2 .. j : j - k < MonSamples /\ Crossed(w, k)
    <3> SUFFICES ASSUME NEW j \in i .. e - 1 PROVE \E k \in 2 .. j : j - k < MonSamples /\ Crossed(w, k)
      BY DEF Response
    <3>1. i \in 2 .. j /\ j - i < MonSamples
      BY <1>1, <1>2
    <3> QED BY <1>3, <3>1
  <2>4. \A j \in 2 .. Len(w) - 1 : j <= i /\ Crossed(w, j) => j \in on \/ j - 1 \in on
    <3> SUFFICES ASSUME NEW j \in 2 .. Len(w) - 1, j <= i, Crossed(w, j) PROVE j \in on \/ j - 1 \in on
      OBVIOUS
    <3>1. CASE j = i
      BY <1>2, <3>1
    <3>2. CASE j <= m
      BY <3>2 DEF Response
    <3> QED BY <3>1, <3>2
  <2>5. \A j \in 2 .. Len(w) - 1 : i < j /\ j < e + 1 => j - 1 \in on
    BY <1>2
  <2> HIDE DEF on, e, i
  <2>6. Response(w, i, on, e + 1)
    BY <1>2, <2>2, <2>3, <2>4, <2>5 DEF Response
  <2> QED BY <2>1, <2>6 DEF i
<1>4. CASE ~(i >= acc.next /\ Crossed(w, i))
  <2>1. NextResponse(w, acc, i) = acc
    BY <1>4 DEF NextResponse
  <2>2. Response(w, i, acc.on, acc.next)
    BY <1>4 DEF Response
  <2> QED BY <2>1, <2>2
<1> QED BY <1>3, <1>4

(* ConstructBinaryResponse: a true sample follows within MonSamples of a   *)
(* crossing, and a crossing is true, or the sample before it is.           *)
LEMMA BinaryResponse ==
  ASSUME NEW w, Len(w) \in Nat
  PROVE  \E next : Response(w, Len(w), ConstructBinaryResponse(w), next)
<1> DEFINE seq == [i \in 1 .. Len(w) - 1 |-> i + 1]
           n == IF Len(w) = 0 THEN 0 ELSE Len(w) - 1
           V == [on : SUBSET Int, next : Int]
           base == [on |-> {}, next |-> 2]
           step == [iv \in (1 .. n) \X V |-> NextResponse(w, iv[2], iv[1] + 1)]
           Iterates(g) == g = [s \in SUBSET (1 .. Len(w) - 1) |->
                                 IF s = {} THEN base ELSE NextResponse(w, g[s \ {Max(s)}], seq[Max(s)])]
           g == CHOOSE g : Iterates(g)
<1>1. n \in Nat /\ 1 .. Len(w) - 1 = 1 .. n /\ DOMAIN seq = 1 .. n /\ MonSamples \in Nat
  BY MonPulseAssumption
<1>2. step \in [(1 .. n) \X V -> V]
  <2> SUFFICES ASSUME NEW i \in 1 .. n, NEW v \in V PROVE NextResponse(w, v, i + 1) \in V
    OBVIOUS
  <2>1. EndIndex(i + 1, w) \in Int
    BY <1>1 DEF EndIndex
  <2>2. v.on \cup i + 1 .. EndIndex(i + 1, w) - 1 \subseteq Int
    BY <1>1, <2>1
  <2>3. CASE i + 1 >= v.next /\ Crossed(w, i + 1)
    BY <2>1, <2>2, <2>3 DEF NextResponse, After
  <2>4. CASE ~(i + 1 >= v.next /\ Crossed(w, i + 1))
    BY <2>4 DEF NextResponse
  <2> QED BY <2>3, <2>4
<1>3. base \in V
  OBVIOUS
<1> HIDE DEF V
<1>4. PICK h \in [SUBSET (1 .. n) -> V] : TakesLast(h, n, base, step)
  <2> HIDE DEF step, base, n
  <2> QED BY <1>1, <1>2, <1>3, IterationExists
<1>5. Iterates(h)
  <2>1. ASSUME NEW s \in SUBSET (1 .. n), s # {}
        PROVE  step[<<Max(s), h[s \ {Max(s)}]>>] = NextResponse(w, h[s \ {Max(s)}], seq[Max(s)])
    <3>1. Max(s) \in 1 .. n
      BY <1>1, <2>1, GreatestIndex
    <3>2. h[s \ {Max(s)}] \in V
      BY <1>4
    <3>3. seq[Max(s)] = Max(s) + 1
      BY <1>1, <3>1
    <3> QED BY <3>1, <3>2, <3>3
  <2>2. h = [s \in SUBSET (1 .. n) |-> IF s = {} THEN base ELSE step[<<Max(s), h[s \ {Max(s)}]>>]]
    BY <1>4 DEF TakesLast
  <2> HIDE DEF step
  <2> QED BY <1>1, <2>1, <2>2
<1>6. Iterates(g)
  <2> HIDE DEF Iterates
  <2> QED BY <1>5
<1>7. ConstructBinaryResponse(w) = g[1 .. n].on
  <2>1. ConstructBinaryResponse(w) = g[DOMAIN seq].on
    BY <1>1 DEF ConstructBinaryResponse, FoldLeft, MapThenFoldSet, NextResponse
  <2> QED BY <1>1, <2>1
<1> HIDE DEF g
<1> DEFINE Good(m) == Response(w, m + 1, g[1 .. m].on, g[1 .. m].next)
           T == {m \in 0 .. n : ~Good(m)}
<1>8. T = {}
  <2> SUFFICES ASSUME T # {} PROVE FALSE
    OBVIOUS
  <2>1. PICK m \in T : \A k \in 0 .. n : k < m => k \notin T
    <3>1. T \subseteq 0 .. n
      OBVIOUS
    <3> HIDE DEF T, n
    <3> QED BY <1>1, <3>1, LeastOf
  <2>2. m # 0
    <3>1. 1 .. 0 = {} /\ {} \in SUBSET (1 .. Len(w) - 1)
      OBVIOUS
    <3>2. g[{}] = base
      BY <1>6, <3>1
    <3>3. Response(w, 0 + 1, base.on, base.next)
      BY <1>1 DEF Response
    <3>4. Good(0)
      BY <3>1, <3>2, <3>3
    <3> QED BY <3>4
  <2>3. Good(m - 1) /\ m \in 1 .. n
    BY <2>1, <2>2
  <2>4. g[1 .. m] = NextResponse(w, g[1 .. m - 1], m + 1)
    <3>1. 1 .. m \in SUBSET (1 .. n) /\ 1 .. m # {} /\ Max(1 .. m) = m /\ (1 .. m) \ {m} = 1 .. m - 1
      BY <1>1, <2>3, GreatestIndex
    <3>2. seq[m] = m + 1
      BY <1>1, <2>3
    <3> QED BY <1>1, <1>6, <3>1, <3>2
  <2>5. m \in Nat /\ m >= 1 /\ m + 1 <= Len(w) /\ (m - 1) + 1 = m
    BY <1>1, <2>3
  <2>6. Response(w, m + 1, NextResponse(w, g[1 .. m - 1], m + 1).on, NextResponse(w, g[1 .. m - 1], m + 1).next)
    <3> DEFINE acc == g[1 .. m - 1]
    <3>1. Response(w, m, acc.on, acc.next)
      BY <2>3, <2>5
    <3> HIDE DEF acc
    <3>2. Response(w, m + 1, NextResponse(w, acc, m + 1).on, NextResponse(w, acc, m + 1).next)
      BY <2>5, <3>1, ResponseGrows
    <3> QED BY <3>2 DEF acc
  <2>7. Good(m)
    BY <2>4, <2>6
  <2> QED BY <2>7
<1>9. Good(n)
  BY <1>1, <1>8
<1>10. Response(w, Len(w), g[1 .. n].on, g[1 .. n].next)
  BY <1>1, <1>9 DEF Response
<1> QED BY <1>7, <1>10

-----------------------------------------------------------------------------
(* The sum of the responses of groups of waveforms that all have the size  *)
(* of the pulse.                                                           *)
PulseOf(groups, W, size) ==
  [i \in 1 .. size |->
     Cardinality({g \in groups : \E x \in g : i \in ConstructBinaryResponse(W[x])})]
Counted(pulse, groups, W) == CountsPairs(pulse, groups, LAMBDA x : W[x])

(* The summed responses of groups of waveforms of one size count the       *)
(* groups.                                                                 *)
LEMMA GroupsAreCounted ==
  ASSUME NEW groups, IsFiniteSet(groups), NEW W, NEW size \in Nat,
         \A g \in groups : \A x \in g : Len(W[x]) = size
  PROVE  Counted(PulseOf(groups, W, size), groups, W)
<1> DEFINE pulse == PulseOf(groups, W, size)
           On(i) == {g \in groups : \E x \in g : i \in ConstructBinaryResponse(W[x])}
           CrossedAt(g, i) == \E x \in g : Crossed(W[x], i)
           Recent(i) == {g \in groups : \E k \in 2 .. i : i - k < MonSamples /\ CrossedAt(g, k)}
           Now(i) == {g \in groups : CrossedAt(g, i)}
<1>1. Len(pulse) = size /\ \A i \in 1 .. size : pulse[i] = Cardinality(On(i))
  BY DEF PulseOf
<1> HIDE DEF pulse
<1>2. ASSUME NEW i \in 1 .. size
      PROVE  /\ IsFiniteSet(On(i)) /\ IsFiniteSet(Recent(i)) /\ IsFiniteSet(Now(i))
             /\ Cardinality(On(i)) \in Nat /\ Cardinality(Now(i)) \in Nat
  <2>1. On(i) \subseteq groups /\ Recent(i) \subseteq groups /\ Now(i) \subseteq groups
    OBVIOUS
  <2> HIDE DEF On, Recent, Now
  <2> QED BY <2>1, FS_Subset, FS_CardinalityType
<1>3. ASSUME NEW i \in 2 .. size - 1
      PROVE  On(i) \subseteq Recent(i) /\ Now(i) \subseteq On(i) \cup On(i - 1)
  <2>1. ASSUME NEW g \in groups, NEW x \in g
        PROVE  \E next : Response(W[x], size, ConstructBinaryResponse(W[x]), next)
    BY <2>1, BinaryResponse
  <2>2. ASSUME NEW g \in On(i) PROVE g \in Recent(i)
    <3>1. PICK x \in g : i \in ConstructBinaryResponse(W[x])
      OBVIOUS
    <3>2. \E k \in 2 .. i : i - k < MonSamples /\ Crossed(W[x], k)
      BY <2>1, <3>1 DEF Response
    <3> QED BY <3>1, <3>2
  <2>3. ASSUME NEW g \in Now(i) PROVE g \in On(i) \cup On(i - 1)
    <3>1. PICK x \in g : Crossed(W[x], i)
      OBVIOUS
    <3>2. Len(W[x]) = size
      OBVIOUS
    <3>3. i \in ConstructBinaryResponse(W[x]) \/ i - 1 \in ConstructBinaryResponse(W[x])
      <4>1. PICK next : Response(W[x], size, ConstructBinaryResponse(W[x]), next)
        BY <2>1
      <4>2. i \in 2 .. Len(W[x]) - 1 /\ i <= size
        BY <3>2
      <4> QED BY <3>1, <4>1, <4>2 DEF Response
    <3> QED BY <3>1, <3>3
  <2> QED BY <2>2, <2>3
<1>4. ASSUME NEW i \in 2 .. size - 1
      PROVE  /\ pulse[i] <= Cardinality(Recent(i))
             /\ Cardinality(Now(i)) <= pulse[i] + pulse[i - 1]
  <2>1. i \in 1 .. size /\ i - 1 \in 1 .. size
    OBVIOUS
  <2> HIDE DEF On, Recent, Now
  <2>2. Cardinality(On(i)) <= Cardinality(Recent(i))
    BY <1>2, <1>3, <2>1, FS_Subset
  <2>3. /\ IsFiniteSet(On(i) \cup On(i - 1)) /\ IsFiniteSet(On(i) \cap On(i - 1))
        /\ Cardinality(On(i) \cap On(i - 1)) \in Nat
        /\ Cardinality(On(i) \cup On(i - 1))
             = Cardinality(On(i)) + Cardinality(On(i - 1)) - Cardinality(On(i) \cap On(i - 1))
    <3>1. IsFiniteSet(On(i)) /\ IsFiniteSet(On(i - 1))
      BY <1>2, <2>1
    <3> QED BY <3>1, FS_Union, FS_Intersection, FS_CardinalityType
  <2>4. Cardinality(Now(i)) <= Cardinality(On(i) \cup On(i - 1))
    BY <1>3, <2>3, FS_Subset
  <2>5. /\ Cardinality(On(i)) \in Nat /\ Cardinality(On(i - 1)) \in Nat
        /\ Cardinality(Now(i)) \in Nat /\ Cardinality(On(i) \cup On(i - 1)) \in Nat
    BY <1>2, <2>1, <2>3, FS_CardinalityType
  <2> QED BY <1>1, <2>1, <2>2, <2>3, <2>4, <2>5
<1>5. Counted(pulse, groups, W)
  BY <1>1, <1>4 DEF CountsPairs, Counted
<1> QED BY <1>5 DEF pulse

(* The pairs of the simulation are finitely many.                          *)
LEMMA GroupsAreFinite ==
  ASSUME NEW wfms
  PROVE  IsFiniteSet(CompleteGroups(wfms))
         /\ \A g \in CompleteGroups(wfms) : g \subseteq ToSet(PMT_Channels) /\ \A ch \in g : wfms[ch] # <<>>
<1> DEFINE C == ToSet(PMT_Channels)
<1>1. IsFiniteSet(C)
  <2>0. PMT_Channels \in Seq(Nat)
    BY MonPulseAssumption
  <2>1. PMT_Channels \in Seq(Nat) /\ C = {PMT_Channels[i] : i \in 1 .. Len(PMT_Channels)}
    BY <2>0 DEF ToSet
  <2>2. IsFiniteSet(1 .. Len(PMT_Channels))
    BY <2>1, FS_Interval
  <2> HIDE DEF C
  <2> QED BY <2>1, <2>2, ImageOf
<1>2. CompleteGroups(wfms) \subseteq SUBSET C /\ \A g \in CompleteGroups(wfms) : \A ch \in g : wfms[ch] # <<>>
  <2> DEFINE lone == {{ch} : ch \in Unpaired}
  <2>1. (\A p \in Pairs : p \subseteq C) /\ Unpaired \subseteq C
    <3>1. (UNION Pairs) \cup Unpaired \subseteq C
      BY MonPulseAssumption
    <3> HIDE DEF C
    <3> QED BY <3>1
  <2> HIDE DEF C
  <2>2. ASSUME NEW g \in Pairs \cup lone PROVE g \subseteq C
    <3>1. CASE g \in Pairs
      BY <2>1, <3>1
    <3>2. CASE g \in lone
      BY <2>1, <3>2
    <3> QED BY <2>2, <3>1, <3>2
  <2>3. CompleteGroups(wfms) = {g \in Pairs \cup lone : \A ch \in g : wfms[ch] # <<>>}
    BY DEF CompleteGroups
  <2> HIDE DEF lone
  <2> QED BY <2>2, <2>3
<1> HIDE DEF C
<1>3. IsFiniteSet(SUBSET C)
  BY <1>1, FS_SUBSET
<1> QED BY <1>2, <1>3, FS_Subset DEF C

(* The pulse of the simulation, whatever lies beyond the waveforms.        *)
LEMMA SimPulseCounts ==
  ASSUME NEW wfms \in Simulated, wfms[PMT_Channels[1]] # <<>>, NEW beyond \in BOOLEAN
  PROVE  Counted(SimMonPulse(wfms, beyond), CompleteGroups(wfms), wfms)
<1> DEFINE groups == CompleteGroups(wfms)
           size == Len(wfms[PMT_Channels[1]])
           On(x) == ConstructBinaryResponse(wfms[x]) \cup (IF beyond THEN Len(wfms[x]) + 1 .. size ELSE {})
           response == [g \in groups |-> UNION {On(x) : x \in g}]
<1> DEFINE n == size
<1>3. PMT_Channels[1] \in ToSet(PMT_Channels)
  <2>1. PMT_Channels \in Seq(Nat) /\ PMT_Channels # <<>>
    BY MonPulseAssumption
  <2>2. 1 \in DOMAIN PMT_Channels
    BY <2>1
  <2> QED BY <2>2 DEF ToSet
<1>1. \A ch \in ToSet(PMT_Channels) : wfms[ch] \in Seq({-1, 0, 1})
  BY SimulatedAssumption
<1>2. \A ch \in ToSet(PMT_Channels) : wfms[ch] # <<>> => Len(wfms[ch]) = n
  BY <1>3, SimulatedAssumption
<1>4. size = n /\ size \in Nat /\ \A g \in groups : \A x \in g : Len(wfms[x]) = n
  BY <1>1, <1>2, <1>3, GroupsAreFinite
<1>5. \A g \in groups : \A x \in g : On(x) = ConstructBinaryResponse(wfms[x])
  BY <1>4
<1>6. SimMonPulse(wfms, beyond) = [i \in 1 .. size |-> Cardinality({g \in groups : i \in response[g]})]
  BY DEF SimMonPulse, SumOfGroups
<1>7. ASSUME NEW i \in 1 .. size
      PROVE  {g \in groups : i \in response[g]}
               = {g \in groups : \E x \in g : i \in ConstructBinaryResponse(wfms[x])}
  <2> HIDE DEF groups, On
  <2>1. \A g \in groups : i \in response[g] <=> \E x \in g : i \in On(x)
    OBVIOUS
  <2> HIDE DEF response
  <2> QED BY <1>5, <2>1
<1> HIDE DEF response, size, groups
<1>8. SimMonPulse(wfms, beyond) = PulseOf(groups, wfms, n)
  BY <1>4, <1>6, <1>7 DEF PulseOf
<1>9. IsFiniteSet(groups) /\ n \in Nat /\ \A g \in groups : \A x \in g : Len(wfms[x]) = n
  BY <1>4, GroupsAreFinite DEF groups
<1>10. Counted(PulseOf(groups, wfms, n), groups, wfms)
  BY <1>9, GroupsAreCounted
<1> QED BY <1>8, <1>10 DEF groups

-----------------------------------------------------------------------------
(* The intervals of the first m of the crossing points s, of a pulse that  *)
(* is longer than a slice.  Until a crossing is near the end, the last     *)
(* interval ends last, and none begins later than the last crossing asks.  *)
Interval == Int \X Int
Separate(a, b) == a[2] <= b[1] \/ (a[1] = 0 /\ b[1] = 0)
CoversFrom(ivs, c, size) ==
  \A i \in (c - ticksBeforeCross .. c + ticksAfterCross - 1) \cap 0 .. size - 2 :
    \E k \in DOMAIN ivs : ivs[k][1] <= i /\ i < ivs[k][2]
Apart(ivs, atEnd, size) ==
  \A j, k \in DOMAIN ivs : j < k => Separate(ivs[j], ivs[k]) \/ (atEnd /\ ivs[k][2] = size - 1)
EndsLast(ivs, c) ==
  /\ ivs # <<>> /\ ivs[Len(ivs)][2] = c + ticksAfterCross
  /\ \A k \in DOMAIN ivs : /\ ivs[k][2] <= c + ticksAfterCross
                           /\ ivs[k][1] = 0 \/ ivs[k][1] + ticksBeforeCross <= c
Intervals(ivs, s, m, size) ==
  /\ ivs \in Seq(Interval) /\ (m = 0 => ivs = <<>>)
  /\ \A k \in DOMAIN ivs : 0 <= ivs[k][1] /\ ivs[k][2] <= size
  /\ \A j \in 1 .. m : CoversFrom(ivs, s[j], size)
  /\ Apart(ivs, m # 0 /\ NearEnd(s[m], size), size)
  /\ m # 0 /\ ~NearEnd(s[m], size) => EndsLast(ivs, s[m])

AddedInterval(ivs, c, size) ==
  CASE NearEnd(c, size) -> Append(ivs, <<c - ticksBeforeCross, size - 1>>)
    [] ~NearEnd(c, size) /\ NearBeginning(c) -> Append(ivs, <<0, c + ticksAfterCross>>)
    [] OTHER -> IF Touches(c, ivs) THEN Extended(ivs, c)
                ELSE Append(ivs, <<c - ticksBeforeCross, c + ticksAfterCross>>)

(* The interval of a crossing is new, or the last one is extended.         *)
LEMMA IntervalIsAdded ==
  ASSUME NEW ivs \in Seq(Interval), NEW c \in Int, NEW size \in Int
  PROVE  \/ /\ NearEnd(c, size)
            /\ AddedInterval(ivs, c, size) = Append(ivs, <<c - ticksBeforeCross, size - 1>>)
         \/ /\ ~NearEnd(c, size) /\ NearBeginning(c)
            /\ AddedInterval(ivs, c, size) = Append(ivs, <<0, c + ticksAfterCross>>)
         \/ /\ ~NearEnd(c, size) /\ ~NearBeginning(c)
            /\ ivs = <<>> \/ c - ticksBeforeCross >= ivs[Len(ivs)][2]
            /\ AddedInterval(ivs, c, size) = Append(ivs, <<c - ticksBeforeCross, c + ticksAfterCross>>)
         \/ /\ ~NearEnd(c, size) /\ ~NearBeginning(c)
            /\ ivs # <<>> /\ c - ticksBeforeCross < ivs[Len(ivs)][2]
            /\ LET new == AddedInterval(ivs, c, size)
               IN /\ new \in Seq(Interval) /\ Len(new) = Len(ivs)
                  /\ \A k \in 1 .. Len(ivs) - 1 : new[k] = ivs[k]
                  /\ new[Len(ivs)] = <<ivs[Len(ivs)][1], c + ticksAfterCross>>
<1>0. ticksBeforeCross \in Nat /\ ticksAfterCross \in Nat
  BY MonPulseAssumption
<1>1. CASE NearEnd(c, size)
  BY <1>1 DEF AddedInterval
<1>2. CASE ~NearEnd(c, size) /\ NearBeginning(c)
  BY <1>2 DEF AddedInterval
<1>3. CASE ~NearEnd(c, size) /\ ~NearBeginning(c) /\ ~Touches(c, ivs)
  <2>1. AddedInterval(ivs, c, size) = Append(ivs, <<c - ticksBeforeCross, c + ticksAfterCross>>)
    BY <1>3 DEF AddedInterval
  <2>2. ivs = <<>> \/ c - ticksBeforeCross >= ivs[Len(ivs)][2]
    <3> SUFFICES ASSUME ivs # <<>> PROVE c - ticksBeforeCross >= ivs[Len(ivs)][2]
      OBVIOUS
    <3>1. ivs[Len(ivs)] \in Interval
      OBVIOUS
    <3>2. ivs[Len(ivs)][2] \in Int
      BY <3>1 DEF Interval
    <3> QED BY <1>0, <1>3, <3>2 DEF Touches, Last
  <2> QED BY <1>3, <2>1, <2>2
<1>4. CASE ~NearEnd(c, size) /\ ~NearBeginning(c) /\ Touches(c, ivs)
  <2>1. AddedInterval(ivs, c, size) = Append(Front(ivs), <<ivs[Len(ivs)][1], c + ticksAfterCross>>)
    BY <1>4 DEF AddedInterval, Extended, Last
  <2>2. ivs # <<>> /\ c - ticksBeforeCross < ivs[Len(ivs)][2]
    BY <1>4 DEF Touches, Last
  <2>3. ivs[Len(ivs)] \in Interval
    BY <2>2
  <2>4. Front(ivs) \in Seq(Interval) /\ Len(Front(ivs)) = Len(ivs) - 1
        /\ \A k \in 1 .. Len(ivs) - 1 : Front(ivs)[k] = ivs[k]
    <3>1. Len(ivs) \in Nat /\ Len(ivs) - 1 \in Nat /\ Len(ivs) - 1 <= Len(ivs) /\ 1 \in Int
      BY <2>2
    <3>2. Front(ivs) = [i \in 1 .. Len(ivs) - 1 |-> ivs[i]]
      BY <3>1 DEF Front
    <3>3. \A i \in 1 .. Len(ivs) - 1 : ivs[i] \in Interval
      BY <3>1
    <3> HIDE DEF Interval
    <3> QED BY <3>1, <3>2, <3>3
  <2>5. <<ivs[Len(ivs)][1], c + ticksAfterCross>> \in Interval
    BY <1>0, <2>3 DEF Interval
  <2> DEFINE f == Front(ivs)
             e == <<ivs[Len(ivs)][1], c + ticksAfterCross>>
  <2> HIDE DEF f, e
  <2>6. Append(f, e) \in Seq(Interval) /\ Len(Append(f, e)) = Len(ivs)
        /\ (\A k \in 1 .. Len(ivs) - 1 : Append(f, e)[k] = ivs[k]) /\ Append(f, e)[Len(ivs)] = e
    BY <2>2, <2>4, <2>5, AppendProperties DEF f, e
  <2> QED BY <1>4, <2>1, <2>2, <2>6 DEF f, e
<1> QED BY <1>1, <1>2, <1>3, <1>4

(* A new interval, behind the others unless it reaches the end or starts   *)
(* at the beginning with them.                                             *)
LEMMA AppendedInterval ==
  ASSUME NEW ivs, NEW s, NEW m \in Nat, NEW size \in Int, Intervals(ivs, s, m, size),
         NEW c \in Int, s[m + 1] = c, NEW iv \in Interval,
         0 <= iv[1], iv[2] <= size, CoversFrom(<<iv>>, c, size),
         \A k \in DOMAIN ivs : Separate(ivs[k], iv) \/ (NearEnd(c, size) /\ iv[2] = size - 1),
         m # 0 /\ NearEnd(s[m], size) => NearEnd(c, size),
         ~NearEnd(c, size) =>
           /\ iv[2] = c + ticksAfterCross
           /\ iv[1] = 0 \/ iv[1] + ticksBeforeCross <= c
           /\ \A k \in DOMAIN ivs : /\ ivs[k][2] <= c + ticksAfterCross
                                    /\ ivs[k][1] = 0 \/ ivs[k][1] + ticksBeforeCross <= c
  PROVE  Intervals(Append(ivs, iv), s, m + 1, size)
<1> DEFINE new == Append(ivs, iv)
           n == Len(ivs)
<1>1. /\ ivs \in Seq(Interval) /\ n \in Nat /\ DOMAIN ivs = 1 .. n
      /\ new \in Seq(Interval) /\ Len(new) = n + 1 /\ DOMAIN new = 1 .. n + 1
      /\ new[n + 1] = iv /\ \A k \in 1 .. n : new[k] = ivs[k]
  <2>1. ivs \in Seq(Interval)
    BY DEF Intervals
  <2> HIDE DEF Interval
  <2> QED BY <2>1, AppendProperties
<1> HIDE DEF new, n
<1>2. \A k \in DOMAIN new : 0 <= new[k][1] /\ new[k][2] <= size
  <2> SUFFICES ASSUME NEW k \in 1 .. n + 1 PROVE 0 <= new[k][1] /\ new[k][2] <= size
    BY <1>1
  <2>1. k = n + 1 \/ k \in 1 .. n
    BY <1>1
  <2> QED BY <1>1, <2>1 DEF Intervals
<1>3. \A j \in 1 .. m + 1 : CoversFrom(new, s[j], size)
  <2> SUFFICES ASSUME NEW j \in 1 .. m + 1 PROVE CoversFrom(new, s[j], size)
    OBVIOUS
  <2>1. CASE j = m + 1
    <3> SUFFICES ASSUME NEW i \in (c - ticksBeforeCross .. c + ticksAfterCross - 1) \cap 0 .. size - 2
                 PROVE  \E k \in DOMAIN new : new[k][1] <= i /\ i < new[k][2]
      BY <2>1 DEF CoversFrom
    <3>1. \E k \in DOMAIN <<iv>> : <<iv>>[k][1] <= i /\ i < <<iv>>[k][2]
      BY DEF CoversFrom
    <3>2. iv[1] <= i /\ i < iv[2]
      BY <3>1
    <3>3. n + 1 \in DOMAIN new
      BY <1>1
    <3> QED BY <1>1, <3>2, <3>3
  <2>2. CASE j \in 1 .. m
    <3>1. CoversFrom(ivs, s[j], size)
      BY <2>2 DEF Intervals
    <3>2. \A k \in DOMAIN ivs : k \in DOMAIN new /\ new[k] = ivs[k]
      BY <1>1
    <3> QED BY <3>1, <3>2 DEF CoversFrom
  <2> QED BY <2>1, <2>2
<1>4. Apart(new, m + 1 # 0 /\ NearEnd(s[m + 1], size), size)
  <2> SUFFICES ASSUME NEW j \in 1 .. n + 1, NEW k \in 1 .. n + 1, j < k
               PROVE  Separate(new[j], new[k]) \/ (NearEnd(c, size) /\ new[k][2] = size - 1)
    BY <1>1 DEF Apart
  <2>1. CASE k = n + 1
    <3>1. j \in DOMAIN ivs /\ new[j] = ivs[j] /\ new[k] = iv
      BY <1>1, <2>1
    <3> QED BY <3>1
  <2>2. CASE k # n + 1
    <3>1. /\ j \in DOMAIN ivs /\ new[j] = ivs[j]
          /\ k \in DOMAIN ivs /\ new[k] = ivs[k]
      BY <1>1, <2>2
    <3>2. Apart(ivs, m # 0 /\ NearEnd(s[m], size), size)
      BY DEF Intervals
    <3> QED BY <3>1, <3>2 DEF Apart
  <2> QED BY <2>1, <2>2
<1>5. ~NearEnd(s[m + 1], size) => EndsLast(new, s[m + 1])
  <2> SUFFICES ASSUME ~NearEnd(c, size) PROVE EndsLast(new, c)
    OBVIOUS
  <2>0. ticksBeforeCross \in Nat /\ ticksAfterCross \in Nat
    BY MonPulseAssumption
  <2>1. \A k \in DOMAIN new : /\ new[k][2] <= c + ticksAfterCross
                              /\ new[k][1] = 0 \/ new[k][1] + ticksBeforeCross <= c
    <3> SUFFICES ASSUME NEW k \in 1 .. n + 1
                 PROVE  /\ new[k][2] <= c + ticksAfterCross
                        /\ new[k][1] = 0 \/ new[k][1] + ticksBeforeCross <= c
      BY <1>1
    <3>1. CASE k = n + 1
      BY <1>1, <2>0, <3>1
    <3>2. CASE k \in 1 .. n
      BY <1>1, <3>2
    <3> QED BY <1>1, <3>1, <3>2
  <2>2. new # <<>> /\ new[Len(new)][2] = c + ticksAfterCross
    BY <1>1
  <2> QED BY <2>1, <2>2 DEF EndsLast
<1> QED BY <1>1, <1>2, <1>3, <1>4, <1>5 DEF Intervals, new

(* The last interval is extended.                                          *)
LEMMA ExtendedInterval ==
  ASSUME NEW ivs, NEW s, NEW m \in Nat, NEW size \in Int, Intervals(ivs, s, m, size),
         NEW c \in Int, s[m + 1] = c, m # 0, s[m] \in Int, s[m] < c, ~NearEnd(c, size), ~NearBeginning(c),
         NEW new \in Seq(Interval), Len(new) = Len(ivs),
         \A k \in 1 .. Len(ivs) - 1 : new[k] = ivs[k],
         new[Len(ivs)] = <<ivs[Len(ivs)][1], c + ticksAfterCross>>
  PROVE  Intervals(new, s, m + 1, size)
<1> DEFINE n == Len(ivs)
<1>0. ticksBeforeCross \in Nat /\ ticksAfterCross \in Nat
  BY MonPulseAssumption
<1>1. ivs \in Seq(Interval) /\ ~NearEnd(s[m], size) /\ EndsLast(ivs, s[m])
  <2>1. ~NearEnd(s[m], size)
    BY <1>0 DEF NearEnd
  <2> QED BY <2>1 DEF Intervals
<1>2. n \in Nat /\ DOMAIN ivs = 1 .. n /\ DOMAIN new = 1 .. n /\ n # 0
  BY <1>1 DEF EndsLast
<1>3. \A k \in 1 .. n : ivs[k][1] \in Int /\ ivs[k][2] \in Int
  <2> SUFFICES ASSUME NEW k \in 1 .. n PROVE ivs[k][1] \in Int /\ ivs[k][2] \in Int
    OBVIOUS
  <2>1. ivs[k] \in Interval
    BY <1>1, <1>2
  <2> QED BY <2>1 DEF Interval
<1>4. /\ \A k \in 1 .. n : new[k][1] = ivs[k][1] /\ new[k][2] >= ivs[k][2] /\ new[k][2] <= c + ticksAfterCross
      /\ new[n][2] = c + ticksAfterCross
      /\ \A k \in 1 .. n : k < n => new[k] = ivs[k]
  <2>1. \A k \in 1 .. n : k < n => new[k] = ivs[k]
    BY <1>2
  <2>2. new[n][1] = ivs[n][1] /\ new[n][2] = c + ticksAfterCross
    OBVIOUS
  <2>3. \A k \in 1 .. n : ivs[k][2] <= s[m] + ticksAfterCross
    BY <1>1, <1>2 DEF EndsLast
  <2>4. ASSUME NEW k \in 1 .. n
        PROVE  new[k][1] = ivs[k][1] /\ new[k][2] >= ivs[k][2] /\ new[k][2] <= c + ticksAfterCross
    <3> HIDE DEF n
    <3>1. k = n \/ k < n
      BY <1>2
    <3>2. ivs[k][2] <= s[m] + ticksAfterCross /\ ivs[k][2] \in Int
      BY <1>3, <2>3
    <3>3. CASE k = n
      BY <1>0, <2>2, <3>2, <3>3
    <3>4. CASE k < n
      BY <1>0, <2>1, <3>2, <3>4
    <3> QED BY <3>1, <3>3, <3>4
  <2> QED BY <2>1, <2>2, <2>4
<1> HIDE DEF n
<1>5. c + ticksAfterCross <= size
  BY <1>0 DEF NearEnd
<1>6. \A k \in DOMAIN new : 0 <= new[k][1] /\ new[k][2] <= size
  <2> SUFFICES ASSUME NEW k \in 1 .. n PROVE 0 <= new[k][1] /\ new[k][2] <= size
    BY <1>2
  <2>1. 0 <= ivs[k][1]
    BY <1>2 DEF Intervals
  <2>2. new[k] \in Interval
    BY <1>2
  <2>3. new[k][2] \in Int
    BY <2>2 DEF Interval
  <2> QED BY <1>0, <1>4, <1>5, <2>1, <2>3
<1>7. \A j \in 1 .. m + 1 : CoversFrom(new, s[j], size)
  <2> SUFFICES ASSUME NEW j \in 1 .. m + 1,
                      NEW i \in (s[j] - ticksBeforeCross .. s[j] + ticksAfterCross - 1) \cap 0 .. size - 2
               PROVE  \E k \in DOMAIN new : new[k][1] <= i /\ i < new[k][2]
    BY DEF CoversFrom
  <2>1. CASE j = m + 1
    <3>1. new[n][1] = 0 \/ new[n][1] + ticksBeforeCross <= s[m]
      BY <1>1, <1>2, <1>4 DEF EndsLast
    <3>2. new[n][1] <= i /\ i < new[n][2]
      <4>1. new[n][1] \in Int /\ n \in 1 .. n
        BY <1>2, <1>3, <1>4
      <4>2. i \in Int /\ i >= 0 /\ i >= c - ticksBeforeCross /\ i < c + ticksAfterCross
        BY <1>0, <2>1
      <4>3. new[n][2] = c + ticksAfterCross
        BY <1>4
      <4> DEFINE a == new[n][1]
      <4>4. a \in Int /\ (a = 0 \/ a + ticksBeforeCross <= s[m])
        BY <3>1, <4>1
      <4> HIDE DEF a
      <4>5. a <= i
        BY <1>0, <4>2, <4>4
      <4> QED BY <4>2, <4>3, <4>5 DEF a
    <3> QED BY <1>2, <3>2
  <2>2. CASE j \in 1 .. m
    <3>1. PICK k \in 1 .. n : ivs[k][1] <= i /\ i < ivs[k][2]
      BY <1>2, <2>2 DEF Intervals, CoversFrom
    <3>2. new[k][1] <= i /\ i < new[k][2]
      <4>1. new[k][2] \in Int
        <5>1. new[k] \in Interval
          BY <1>2
        <5> QED BY <5>1 DEF Interval
      <4>2. ivs[k][1] \in Int /\ ivs[k][2] \in Int /\ i \in Int
        BY <1>3
      <4>3. new[k][1] = ivs[k][1] /\ new[k][2] >= ivs[k][2]
        BY <1>4
      <4>4. ivs[k][1] <= i /\ i < ivs[k][2]
        BY <3>1
      <4> QED BY <4>1, <4>2, <4>3, <4>4
    <3> QED BY <1>2, <3>2
  <2> QED BY <2>1, <2>2
<1>8. Apart(new, m + 1 # 0 /\ NearEnd(s[m + 1], size), size)
  <2> SUFFICES ASSUME NEW j \in 1 .. n, NEW k \in 1 .. n, j < k
               PROVE  Separate(new[j], new[k])
    BY <1>2 DEF Apart
  <2>1. Separate(ivs[j], ivs[k])
    <3>1. Apart(ivs, m # 0 /\ NearEnd(s[m], size), size)
      BY DEF Intervals
    <3> QED BY <1>1, <1>2, <3>1 DEF Apart
  <2>2. new[j] = ivs[j] /\ new[k][1] = ivs[k][1]
    <3>1. j < n
      BY <1>2
    <3> QED BY <1>4, <3>1
  <2> QED BY <2>1, <2>2 DEF Separate
<1>9. EndsLast(new, c)
  <2>1. \A k \in 1 .. n : new[k][1] = 0 \/ new[k][1] + ticksBeforeCross <= c
    <3> SUFFICES ASSUME NEW k \in 1 .. n PROVE ivs[k][1] = 0 \/ ivs[k][1] + ticksBeforeCross <= c
      BY <1>4
    <3>1. ivs[k][1] = 0 \/ ivs[k][1] + ticksBeforeCross <= s[m]
      BY <1>1, <1>2 DEF EndsLast
    <3> QED BY <1>0, <1>3, <3>1
  <2>2. Len(new) = n /\ new # <<>>
    BY <1>2 DEF n
  <2> QED BY <1>2, <1>4, <2>1, <2>2 DEF EndsLast
<1> QED BY <1>6, <1>7, <1>8, <1>9 DEF Intervals

(* One crossing more.                                                      *)
LEMMA NextInterval ==
  ASSUME NEW ivs, NEW s, NEW m \in Nat, NEW size \in Nat, ticksBeforeCross + ticksAfterCross <= size,
         Intervals(ivs, s, m, size), NEW c \in Nat, s[m + 1] = c, c < size,
         m # 0 => s[m] \in Int /\ s[m] < c
  PROVE  Intervals(AddedInterval(ivs, c, size), s, m + 1, size)
<1>0. ticksBeforeCross \in Nat /\ ticksAfterCross \in Nat
  BY MonPulseAssumption
<1>1. ivs \in Seq(Interval) /\ DOMAIN ivs = 1 .. Len(ivs) /\ Len(ivs) \in Nat
  BY DEF Intervals
<1>2. m # 0 /\ NearEnd(s[m], size) => NearEnd(c, size)
  BY <1>0 DEF NearEnd
<1>3. ASSUME NEW k \in DOMAIN ivs
      PROVE  ivs[k][1] \in Int /\ ivs[k][2] \in Int /\ m # 0
  <2>1. ivs[k] \in Interval
    BY <1>1
  <2>2. m # 0
    BY DEF Intervals
  <2> QED BY <2>1, <2>2 DEF Interval
<1>4. ASSUME NEW k \in DOMAIN ivs, ~NearEnd(c, size)
      PROVE  /\ ivs[k][2] <= s[m] + ticksAfterCross /\ ivs[k][2] <= c + ticksAfterCross
             /\ ivs[k][1] = 0 \/ ivs[k][1] + ticksBeforeCross <= s[m]
             /\ ivs[k][1] = 0 \/ ivs[k][1] + ticksBeforeCross <= c
             /\ ivs[Len(ivs)][2] = s[m] + ticksAfterCross
  <2>1. m # 0 /\ EndsLast(ivs, s[m])
    BY <1>2, <1>3, <1>4 DEF Intervals
  <2>2. /\ ivs[k][2] <= s[m] + ticksAfterCross
        /\ ivs[k][1] = 0 \/ ivs[k][1] + ticksBeforeCross <= s[m]
        /\ ivs[Len(ivs)][2] = s[m] + ticksAfterCross
    BY <2>1 DEF EndsLast
  <2> QED BY <1>0, <1>3, <2>1, <2>2
<1>5. CASE NearEnd(c, size)
  <2> DEFINE iv == <<c - ticksBeforeCross, size - 1>>
  <2>1. AddedInterval(ivs, c, size) = Append(ivs, iv)
    BY <1>5 DEF AddedInterval
  <2>2. iv \in Interval /\ 0 <= iv[1] /\ iv[2] <= size /\ iv[2] = size - 1
    BY <1>0, <1>5 DEF Interval, NearEnd
  <2>3. CoversFrom(<<iv>>, c, size)
    <3> SUFFICES ASSUME NEW i \in (c - ticksBeforeCross .. c + ticksAfterCross - 1) \cap 0 .. size - 2
                 PROVE  1 \in DOMAIN <<iv>> /\ <<iv>>[1][1] <= i /\ i < <<iv>>[1][2]
      BY DEF CoversFrom
    <3> QED BY <1>0
  <2>4. \A k \in DOMAIN ivs : Separate(ivs[k], iv) \/ (NearEnd(c, size) /\ iv[2] = size - 1)
    BY <1>5, <2>2
  <2> HIDE DEF iv, NearEnd, Interval
  <2>5. Intervals(Append(ivs, iv), s, m + 1, size)
    BY <1>2, <1>5, <2>2, <2>3, <2>4, AppendedInterval
  <2> QED BY <2>1, <2>5
<1>6. CASE ~NearEnd(c, size) /\ NearBeginning(c)
  <2> DEFINE iv == <<0, c + ticksAfterCross>>
  <2>1. AddedInterval(ivs, c, size) = Append(ivs, iv)
    BY <1>6 DEF AddedInterval
  <2>2. iv \in Interval /\ 0 <= iv[1] /\ iv[2] <= size /\ iv[2] = c + ticksAfterCross /\ iv[1] = 0
    BY <1>0, <1>6 DEF Interval, NearEnd
  <2>3. CoversFrom(<<iv>>, c, size)
    <3> SUFFICES ASSUME NEW i \in (c - ticksBeforeCross .. c + ticksAfterCross - 1) \cap 0 .. size - 2
                 PROVE  1 \in DOMAIN <<iv>> /\ <<iv>>[1][1] <= i /\ i < <<iv>>[1][2]
      BY DEF CoversFrom
    <3> QED BY <1>0
  <2>4. \A k \in DOMAIN ivs : Separate(ivs[k], iv)
    <3> SUFFICES ASSUME NEW k \in DOMAIN ivs PROVE ivs[k][1] = 0
      BY <2>2 DEF Separate
    <3>1. 0 <= ivs[k][1]
      BY DEF Intervals
    <3>2. ivs[k][1] = 0 \/ ivs[k][1] + ticksBeforeCross <= c
      BY <1>4, <1>6
    <3> QED BY <1>0, <1>3, <1>6, <3>1, <3>2 DEF NearBeginning
  <2>5. \A k \in DOMAIN ivs : /\ ivs[k][2] <= c + ticksAfterCross
                              /\ ivs[k][1] = 0 \/ ivs[k][1] + ticksBeforeCross <= c
    BY <1>4, <1>6
  <2> HIDE DEF iv, NearEnd, Interval
  <2>6. Intervals(Append(ivs, iv), s, m + 1, size)
    BY <1>2, <1>6, <2>2, <2>3, <2>4, <2>5, AppendedInterval
  <2> QED BY <2>1, <2>6
<1>7. CASE ~NearEnd(c, size) /\ ~NearBeginning(c)
  <2> DEFINE iv == <<c - ticksBeforeCross, c + ticksAfterCross>>
             new == AddedInterval(ivs, c, size)
  <2>1. CASE (ivs = <<>> \/ c - ticksBeforeCross >= ivs[Len(ivs)][2]) /\ new = Append(ivs, iv)
    <3>1. iv \in Interval /\ 0 <= iv[1] /\ iv[2] <= size
          /\ iv[2] = c + ticksAfterCross /\ iv[1] + ticksBeforeCross <= c
      BY <1>0, <1>7 DEF Interval, NearEnd, NearBeginning
    <3>2. CoversFrom(<<iv>>, c, size)
      <4> SUFFICES ASSUME NEW i \in (c - ticksBeforeCross .. c + ticksAfterCross - 1) \cap 0 .. size - 2
                   PROVE  1 \in DOMAIN <<iv>> /\ <<iv>>[1][1] <= i /\ i < <<iv>>[1][2]
        BY DEF CoversFrom
      <4> QED BY <1>0
    <3>3. \A k \in DOMAIN ivs : Separate(ivs[k], iv)
      <4> SUFFICES ASSUME NEW k \in DOMAIN ivs PROVE ivs[k][2] <= c - ticksBeforeCross
        BY DEF Separate
      <4>1. ivs # <<>> /\ Len(ivs) \in DOMAIN ivs
        BY <1>1
      <4>2. ivs[k][2] <= ivs[Len(ivs)][2]
        BY <1>4, <1>7
      <4>3. ivs[k][2] \in Int /\ ivs[Len(ivs)][2] \in Int
        BY <1>3, <4>1
      <4> QED BY <1>0, <2>1, <4>1, <4>2, <4>3
    <3>4. \A k \in DOMAIN ivs : /\ ivs[k][2] <= c + ticksAfterCross
                                /\ ivs[k][1] = 0 \/ ivs[k][1] + ticksBeforeCross <= c
      BY <1>4, <1>7
    <3> HIDE DEF iv, NearEnd, Interval
    <3>5. Intervals(Append(ivs, iv), s, m + 1, size)
      BY <1>2, <1>7, <3>1, <3>2, <3>3, <3>4, AppendedInterval
    <3> QED BY <2>1, <3>5
  <2>2. CASE /\ ivs # <<>> /\ new \in Seq(Interval) /\ Len(new) = Len(ivs)
             /\ \A k \in 1 .. Len(ivs) - 1 : new[k] = ivs[k]
             /\ new[Len(ivs)] = <<ivs[Len(ivs)][1], c + ticksAfterCross>>
    <3>1. m # 0
      <4>1. Len(ivs) \in DOMAIN ivs
        BY <1>1, <2>2
      <4> QED BY <1>3, <4>1
    <3> HIDE DEF new, Interval
    <3>2. s[m] \in Int /\ s[m] < c /\ c \in Int /\ size \in Int
      BY <3>1
    <3>3. new \in Seq(Interval)
      BY <2>2
    <3>4. Intervals(new, s, m + 1, size)
      BY <1>7, <2>2, <3>1, <3>2, <3>3, ExtendedInterval
    <3> QED BY <3>4 DEF new
  <2>3. \/ (ivs = <<>> \/ c - ticksBeforeCross >= ivs[Len(ivs)][2]) /\ new = Append(ivs, iv)
        \/ /\ ivs # <<>> /\ new \in Seq(Interval) /\ Len(new) = Len(ivs)
           /\ \A k \in 1 .. Len(ivs) - 1 : new[k] = ivs[k]
           /\ new[Len(ivs)] = <<ivs[Len(ivs)][1], c + ticksAfterCross>>
    <3> HIDE DEF Interval
    <3> QED BY <1>1, <1>7, IntervalIsAdded
  <2> QED BY <2>1, <2>2, <2>3
<1> QED BY <1>5, <1>6, <1>7

(* findInterestIntervals, for a pulse that is longer than a slice.         *)
LEMMA IntervalsFound ==
  ASSUME NEW pulse, Len(pulse) \in Nat, ticksBeforeCross + ticksAfterCross <= Len(pulse)
  PROVE  LET s == CrossingPoints(pulse)
         IN /\ Intervals(findInterestIntervals(pulse), s, Len(s), Len(pulse))
            /\ Len(s) \in Nat /\ DOMAIN s = 1 .. Len(s)
<1> DEFINE size == Len(pulse)
           S == {i \in 0 .. size - 1 : High(pulse, i) /\ (i > 0 => ~High(pulse, i - 1))}
           seq == CrossingPoints(pulse)
           n == Len(seq)
           V == Seq(Interval)
           step == [iv \in (1 .. n) \X V |-> AddedInterval(iv[2], seq[iv[1]], size)]
           Iterates(g) == g = [s \in SUBSET (1 .. n) |->
                                 IF s = {} THEN <<>> ELSE AddedInterval(g[s \ {Max(s)}], seq[Max(s)], size)]
           g == CHOOSE g : Iterates(g)
<1>1. /\ seq \in [1 .. n -> S] /\ Ascending(seq) /\ n \in Nat /\ DOMAIN seq = 1 .. n
      /\ \A i \in 1 .. n : seq[i] \in Nat /\ seq[i] < size
  <2>1. IsFiniteSet(0 .. size - 1)
    BY FS_Interval
  <2>2. IsFiniteSet(S) /\ (\A x \in S : x \in Int) /\ Cardinality(S) \in Nat /\ \A x \in S : x \in Nat /\ x < size
    <3>1. S \subseteq 0 .. size - 1
      OBVIOUS
    <3>2. \A x \in 0 .. size - 1 : x \in Nat /\ x \in Int /\ x < size
      OBVIOUS
    <3> HIDE DEF S, size
    <3>3. IsFiniteSet(S)
      BY <2>1, <3>1, FS_Subset
    <3>4. Cardinality(S) \in Nat
      BY <3>3, FS_CardinalityType
    <3> QED BY <3>1, <3>2, <3>3, <3>4
  <2>3. seq = InOrder(S)
    BY DEF CrossingPoints
  <2> HIDE DEF S, seq
  <2>4. seq \in [1 .. Cardinality(S) -> S] /\ Ascending(seq)
    BY <2>2, <2>3, InOrderLists
  <2>5. n = Cardinality(S) /\ DOMAIN seq = 1 .. n
    BY <2>2, <2>4
  <2> QED BY <2>2, <2>4, <2>5
<1> HIDE DEF S, seq, n
<1>2. step \in [(1 .. n) \X V -> V]
  <2> SUFFICES ASSUME NEW i \in 1 .. n, NEW v \in V PROVE AddedInterval(v, seq[i], size) \in V
    OBVIOUS
  <2> DEFINE c == seq[i]
  <2>1. c \in Int /\ size \in Int /\ ticksBeforeCross \in Int /\ ticksAfterCross \in Int
    BY <1>1, MonPulseAssumption
  <2> HIDE DEF c
  <2>2. /\ <<c - ticksBeforeCross, size - 1>> \in Interval /\ <<0, c + ticksAfterCross>> \in Interval
        /\ <<c - ticksBeforeCross, c + ticksAfterCross>> \in Interval
    BY <2>1 DEF Interval
  <2> HIDE DEF size, Interval
  <2>3. v \in Seq(Interval)
    OBVIOUS
  <2>4. AddedInterval(v, c, size) \in Seq(Interval)
    <3>1. \/ \E iv \in Interval : AddedInterval(v, c, size) = Append(v, iv)
          \/ AddedInterval(v, c, size) \in Seq(Interval)
      BY <2>1, <2>2, <2>3, IntervalIsAdded
    <3> QED BY <2>3, <3>1, AppendProperties
  <2> QED BY <2>4 DEF c
<1>3. <<>> \in V
  OBVIOUS
<1> HIDE DEF V
<1>4. PICK h \in [SUBSET (1 .. n) -> V] : TakesLast(h, n, <<>>, step)
  <2> HIDE DEF step
  <2> QED BY <1>1, <1>2, <1>3, IterationExists
<1>5. Iterates(h)
  <2>1. ASSUME NEW s \in SUBSET (1 .. n), s # {}
        PROVE  step[<<Max(s), h[s \ {Max(s)}]>>] = AddedInterval(h[s \ {Max(s)}], seq[Max(s)], size)
    <3>1. Max(s) \in 1 .. n
      BY <1>1, <2>1, GreatestIndex
    <3>2. h[s \ {Max(s)}] \in V
      BY <1>4
    <3> QED BY <3>1, <3>2
  <2>2. h = [s \in SUBSET (1 .. n) |-> IF s = {} THEN <<>> ELSE step[<<Max(s), h[s \ {Max(s)}]>>]]
    BY <1>4 DEF TakesLast
  <2> HIDE DEF step
  <2> QED BY <2>1, <2>2
<1>6. Iterates(g)
  <2> HIDE DEF Iterates
  <2> QED BY <1>5
<1>7. findInterestIntervals(pulse) = g[1 .. n]
  <2>1. findInterestIntervals(pulse) = g[DOMAIN seq]
    BY <1>1 DEF findInterestIntervals, FoldLeft, MapThenFoldSet, AddedInterval, seq
  <2> QED BY <1>1, <2>1
<1> HIDE DEF g
<1> DEFINE Good(m) == Intervals(g[1 .. m], seq, m, size)
           T == {m \in 0 .. n : ~Good(m)}
<1>8. T = {}
  <2> SUFFICES ASSUME T # {} PROVE FALSE
    OBVIOUS
  <2>1. PICK m \in T : \A k \in 0 .. n : k < m => k \notin T
    <3>1. T \subseteq 0 .. n
      OBVIOUS
    <3> HIDE DEF T
    <3> QED BY <1>1, <3>1, LeastOf
  <2>2. m # 0
    <3>1. 1 .. 0 = {} /\ {} \in SUBSET (1 .. n)
      OBVIOUS
    <3>2. g[{}] = <<>>
      BY <1>6, <3>1
    <3>3. Intervals(<<>>, seq, 0, size)
      <4>1. <<>> \in Seq(Interval) /\ DOMAIN <<>> = {} /\ 1 .. 0 = {}
        OBVIOUS
      <4> HIDE DEF Interval, size
      <4> QED BY <4>1 DEF Intervals, Apart
    <3> QED BY <3>1, <3>2, <3>3
  <2>3. Good(m - 1) /\ m \in 1 .. n
    <3>1. m \in 0 .. n /\ n \in Nat
      BY <1>1
    <3>2. m - 1 \in 0 .. n /\ m - 1 < m /\ m \in 1 .. n
      BY <2>2, <3>1
    <3> HIDE DEF Good
    <3> QED BY <2>1, <3>2
  <2>4. g[1 .. m] = AddedInterval(g[1 .. m - 1], seq[m], size)
    <3>1. 1 .. m \in SUBSET (1 .. n) /\ 1 .. m # {} /\ Max(1 .. m) = m /\ (1 .. m) \ {m} = 1 .. m - 1
      <4>1. n \in Nat /\ m \in 1 .. n
        BY <1>1, <2>3
      <4>2. m \in 1 .. m /\ \A k \in 1 .. m : k \in 1 .. n
        BY <4>1
      <4>3. Max(1 .. m) = m /\ (1 .. m) \ {m} = 1 .. m - 1
        BY <4>1, GreatestIndex
      <4> QED BY <4>2, <4>3
    <3> HIDE DEF size
    <3> QED BY <1>6, <3>1
  <2>5. Intervals(AddedInterval(g[1 .. m - 1], seq[m], size), seq, (m - 1) + 1, size)
    <3> DEFINE ivs == g[1 .. m - 1]
               c == seq[m]
    <3>1. Intervals(ivs, seq, m - 1, size) /\ m - 1 \in Nat /\ (m - 1) + 1 = m
      BY <2>3
    <3>2. seq[(m - 1) + 1] = c /\ c \in Nat /\ c < size
      BY <1>1, <2>3, <3>1
    <3>3. m - 1 # 0 => seq[m - 1] \in Int /\ seq[m - 1] < c
      <4> SUFFICES ASSUME m - 1 # 0 PROVE seq[m - 1] \in Int /\ seq[m - 1] < c
        OBVIOUS
      <4>1. m - 1 \in 1 .. n /\ m - 1 < m
        BY <2>3, <1>1
      <4> QED BY <1>1, <2>3, <4>1 DEF Ascending
    <3>4. size \in Nat /\ ticksBeforeCross + ticksAfterCross <= size
      OBVIOUS
    <3> HIDE DEF ivs, c, size
    <3>5. Intervals(AddedInterval(ivs, c, size), seq, (m - 1) + 1, size)
      BY <3>1, <3>2, <3>3, <3>4, NextInterval
    <3> QED BY <3>5 DEF ivs, c
  <2>6. Good(m)
    BY <2>3, <2>4, <2>5
  <2> QED BY <2>6
<1>9. Good(n)
  BY <1>1, <1>8
<1> QED BY <1>1, <1>7, <1>9 DEF n, seq

(* The intervals with samples.                                             *)
SlicesAround(pulse, slices) ==
  LET size == Len(pulse)
  IN /\ \A c \in ToSet(CrossingPoints(pulse)) : CoversFrom(slices, c, size)
     /\ \A k \in DOMAIN slices : 0 <= slices[k][1] /\ slices[k][2] <= size
     /\ Apart(slices, TRUE, size)

(* Slices of a waveform longer than one: around each rise, within the      *)
(* waveform, and apart but at its ends.                                    *)
LEMMA SlicesAreAround ==
  ASSUME NEW pulse, Len(pulse) \in Nat, ticksBeforeCross + ticksAfterCross <= Len(pulse)
  PROVE  SlicesAround(pulse, Slices(pulse)) /\ Slices(pulse) \in Seq(Interval)
<1> DEFINE size == Len(pulse)
           ivs == findInterestIntervals(pulse)
           I == {k \in DOMAIN ivs : ivs[k][1] < ivs[k][2]}
           slices == Slices(pulse)
           s == CrossingPoints(pulse)
<1>1. Intervals(ivs, s, Len(s), size) /\ Len(s) \in Nat /\ DOMAIN s = 1 .. Len(s)
  BY IntervalsFound
<1>2. slices = Selected(ivs, I) /\ I \subseteq DOMAIN ivs
  BY DEF Slices
<1> HIDE DEF ivs, slices, s, size
<1>3. ivs \in Seq(Interval)
  BY <1>1 DEF Intervals
<1>4. PICK o \in [DOMAIN slices -> I] :
        /\ \A k \in DOMAIN o : slices[k] = ivs[o[k]]
        /\ \A j, k \in DOMAIN o : j < k => o[j] < o[k]
  <2> HIDE DEF I, Interval
  <2> QED BY <1>2, <1>3, SelectedElements
<1>5. \A k \in DOMAIN slices : o[k] \in DOMAIN ivs /\ slices[k] = ivs[o[k]]
  BY <1>4
<1>6. \A i \in I : \E k \in DOMAIN slices : slices[k] = ivs[i]
  <2> HIDE DEF I, Interval
  <2>1. ToSet(slices) = {ivs[i] : i \in I}
    BY <1>2, <1>3, SelectedElements
  <2> QED BY <2>1 DEF ToSet
<1>7. \A c \in ToSet(s) : CoversFrom(slices, c, size)
  <2> SUFFICES ASSUME NEW c \in ToSet(s),
                      NEW i \in (c - ticksBeforeCross .. c + ticksAfterCross - 1) \cap 0 .. size - 2
               PROVE  \E k \in DOMAIN slices : slices[k][1] <= i /\ i < slices[k][2]
    BY DEF CoversFrom
  <2>1. PICK j \in 1 .. Len(s) : c = s[j]
    BY <1>1 DEF ToSet
  <2>2. PICK k \in DOMAIN ivs : ivs[k][1] <= i /\ i < ivs[k][2]
    BY <1>1, <2>1 DEF Intervals, CoversFrom
  <2>3. k \in I
    <3>1. ivs[k] \in Interval
      BY <1>3
    <3>2. ivs[k][1] \in Int /\ ivs[k][2] \in Int /\ i \in Int
      BY <3>1 DEF Interval
    <3> QED BY <2>2, <3>2
  <2> QED BY <1>6, <2>2, <2>3
<1>8. \A k \in DOMAIN slices : 0 <= slices[k][1] /\ slices[k][2] <= size
  BY <1>1, <1>5 DEF Intervals
<1>9. Apart(slices, TRUE, size)
  <2> SUFFICES ASSUME NEW j \in DOMAIN slices, NEW k \in DOMAIN slices, j < k
               PROVE  Separate(slices[j], slices[k]) \/ slices[k][2] = size - 1
    BY DEF Apart
  <2>1. o[j] \in DOMAIN ivs /\ o[k] \in DOMAIN ivs /\ o[j] < o[k]
    BY <1>4, <1>5
  <2>2. Separate(ivs[o[j]], ivs[o[k]]) \/ ivs[o[k]][2] = size - 1
    BY <1>1, <2>1 DEF Intervals, Apart
  <2> QED BY <1>5, <2>2
<1>10. slices \in Seq(Interval)
  <2> HIDE DEF I, Interval
  <2> QED BY <1>2, <1>3, SelectedElements
<1> QED BY <1>7, <1>8, <1>9, <1>10 DEF SlicesAround, slices, s, size

-----------------------------------------------------------------------------
(* What the simulation's part and the decoder's leave to each other, and   *)
(* what the pulse and the slices are made of.                              *)
SimulationInv ==
  /\ fWaveforms = <<>> => stage \in {"fragments", "decode", "flashes", "done", "thrown"}
  /\ fWaveforms # <<>> =>
       /\ fWaveforms \in Simulated /\ stage \in {"digitized", "slice", "done", "null_read"}
       /\ stage \in {"slice", "done"} =>
            /\ fWaveforms[PMT_Channels[1]] # <<>>
            /\ \E beyond \in BOOLEAN : MonPulses = <<SimMonPulse(fWaveforms, beyond)>>
       /\ stage = "done" => slicedIntervals = Slices(MonPulses[1])

(* The pulse of simulated waveforms, and its slices, are those the         *)
(* operators compute.                                                      *)
LEMMA SimulationInvHolds == Spec => []SimulationInv
<1>1. Init => SimulationInv
  <2> SUFFICES ASSUME Init PROVE SimulationInv
    OBVIOUS
  <2>1. CASE stage = "fragments" /\ fWaveforms = <<>>
    BY <2>1 DEF SimulationInv
  <2>2. CASE stage = "digitized" /\ fWaveforms \in Simulated
    <3>1. fWaveforms # <<>>
      <4>1. PMT_Channels \in Seq(Nat) /\ PMT_Channels # <<>>
        BY MonPulseAssumption
      <4>2. PMT_Channels[1] \in ToSet(PMT_Channels)
        BY <4>1 DEF ToSet
      <4>3. ToSet(PMT_Channels) \subseteq DOMAIN fWaveforms
        BY <2>2, SimulatedAssumption
      <4> QED BY <4>2, <4>3
    <3> QED BY <2>2, <3>1 DEF SimulationInv
  <2> QED BY <2>1, <2>2 DEF Init
<1>2. SimulationInv /\ [Next]_vars => SimulationInv'
  <2> SUFFICES ASSUME SimulationInv, [Next]_vars PROVE SimulationInv'
    OBVIOUS
  <2>1. CASE UNCHANGED vars
    BY <2>1 DEF SimulationInv, vars, decoderVars, pulseVars
  <2>2. CASE Decode
    <3>1. fWaveforms = <<>> /\ UNCHANGED pulseVars
      BY <2>2 DEF Decode, DecoderNext, NoFragments, NoFrameShift, GetFragments, SkipExtension,
                  DecodeTrigger, NextBoard, Decoding, SimulationInv
    <3>2. stage' \in {"fragments", "decode", "flashes", "done", "thrown"}
      BY <2>2, <3>1 DEF Decode, DecoderNext, NoFragments, NoFrameShift, GetFragments, SkipExtension,
                        DecodeTrigger, NextBoard, Decoding, SimulationInv
    <3> QED BY <3>1, <3>2 DEF SimulationInv, pulseVars
  <2>3. CASE ConstructFlash
    BY <2>3 DEF ConstructFlash, SimulationInv, decoderVars
  <2>4. CASE PutWaveforms
    BY <2>4 DEF PutWaveforms, SimulationInv, pulseVars
  <2>5. CASE EmptyPulse
    BY <2>5 DEF EmptyPulse, SimulationInv, pulseVars
  <2>6. CASE ConstructMonPulse
    <3>1. stage = "digitized" /\ fWaveforms # <<>> /\ fWaveforms \in Simulated /\ UNCHANGED fWaveforms
      BY <2>6 DEF ConstructMonPulse, SimulationInv
    <3>2. stage' = "slice" /\ fWaveforms[PMT_Channels[1]] # <<>>
          /\ \E beyond \in BOOLEAN : MonPulses' = <<SimMonPulse(fWaveforms, beyond)>>
      BY <2>6 DEF ConstructMonPulse
    <3> QED BY <3>1, <3>2 DEF SimulationInv
  <2>7. CASE SliceWaveforms
    <3>1. stage = "slice" /\ fWaveforms # <<>> /\ UNCHANGED <<fWaveforms, MonPulses>>
      BY <2>7 DEF SliceWaveforms, SimulationInv
    <3>2. stage' = "null_read" \/ (stage' = "done" /\ slicedIntervals' = Slices(MonPulses[1]))
      BY <2>7 DEF SliceWaveforms
    <3> QED BY <3>1, <3>2 DEF SimulationInv
  <2>8. CASE Ended
    BY <2>8 DEF Ended, SimulationInv, vars, decoderVars, pulseVars
  <2> QED BY <2>1, <2>2, <2>3, <2>4, <2>5, <2>6, <2>7, <2>8 DEF Next
<1> QED BY <1>1, <1>2, PTL DEF Spec

(* The pulse of the simulation counts the pairs of PMTs that have          *)
(* waveforms and are below threshold, for waveforms of every length, every *)
(* wiring of the channels, and whatever is read beyond them.               *)
THEOREM PulsesCountPairs == Spec => []PulseCountsPairs
<1>1. SimulationInv => PulseCountsPairs
  <2> SUFFICES ASSUME SimulationInv, stage \in {"slice", "done"}, fWaveforms # <<>>
               PROVE  Counted(MonPulses[1], CompleteGroups(fWaveforms), fWaveforms)
    BY DEF PulseCountsPairs, Counted
  <2>1. PICK beyond \in BOOLEAN : MonPulses = <<SimMonPulse(fWaveforms, beyond)>>
    BY DEF SimulationInv
  <2>2. fWaveforms \in Simulated /\ fWaveforms[PMT_Channels[1]] # <<>>
    BY DEF SimulationInv
  <2>3. MonPulses[1] = SimMonPulse(fWaveforms, beyond)
    BY <2>1
  <2> QED BY <2>2, <2>3, SimPulseCounts
<1> QED BY <1>1, SimulationInvHolds, PTL

(* The waveforms, of milliseconds, are longer than a slice.                *)
LongWaveforms ==
  \A wfms \in Simulated : wfms[PMT_Channels[1]] # <<>> =>
    ticksBeforeCross + ticksAfterCross <= Len(wfms[PMT_Channels[1]])

(* The slices are around the rises of the pulse, and apart.                *)
THEOREM SlicesAreCut ==
  ASSUME LongWaveforms
  PROVE  Spec => []SlicesCover
<1>1. SimulationInv => SlicesCover
  <2> SUFFICES ASSUME SimulationInv, stage = "done", fWaveforms # <<>> PROVE SlicesCover
    BY DEF SlicesCover
  <2>1. PICK beyond \in BOOLEAN : MonPulses = <<SimMonPulse(fWaveforms, beyond)>>
    BY DEF SimulationInv
  <2>2. fWaveforms \in Simulated /\ fWaveforms[PMT_Channels[1]] # <<>>
        /\ slicedIntervals = Slices(MonPulses[1])
    BY DEF SimulationInv
  <2>3. Len(MonPulses[1]) = Len(fWaveforms[PMT_Channels[1]]) /\ Len(MonPulses[1]) \in Nat
    <3>1. MonPulses[1] = SimMonPulse(fWaveforms, beyond)
      BY <2>1
    <3>2. Len(fWaveforms[PMT_Channels[1]]) \in Nat
      <4>1. PMT_Channels \in Seq(Nat) /\ PMT_Channels # <<>>
        BY MonPulseAssumption
      <4>2. PMT_Channels[1] \in ToSet(PMT_Channels)
        BY <4>1 DEF ToSet
      <4>3. fWaveforms[PMT_Channels[1]] \in Seq({-1, 0, 1})
        BY <2>2, <4>2, SimulatedAssumption
      <4> QED BY <4>3
    <3> QED BY <3>1, <3>2 DEF SimMonPulse, SumOfGroups
  <2>4. ticksBeforeCross + ticksAfterCross <= Len(MonPulses[1])
    BY <2>2, <2>3 DEF LongWaveforms
  <2>5. SlicesAround(MonPulses[1], slicedIntervals) /\ slicedIntervals \in Seq(Interval)
    BY <2>2, <2>3, <2>4, SlicesAreAround
  <2>6. ASSUME NEW k \in DOMAIN slicedIntervals, NEW j \in 1 .. k - 1
        PROVE  j \in DOMAIN slicedIntervals /\ j < k
    <3>1. DOMAIN slicedIntervals = 1 .. Len(slicedIntervals) /\ Len(slicedIntervals) \in Nat
      BY <2>5
    <3> QED BY <3>1
  <2> QED BY <2>5, <2>6 DEF SlicesCover, SlicesAround, CoversFrom, Apart, Separate
<1>2. Spec => []SimulationInv
  BY SimulationInvHolds
<1> QED BY <1>1, <1>2, PTL

-----------------------------------------------------------------------------
(* Two times less than a second apart, and their tags.                     *)
LEMMA TagsOfTimes ==
  ASSUME NEW S \in Nat \ {0}, NEW a \in Int, NEW b \in Int, b - a < S, a - b < S
  PROVE  /\ a % S \in 0 .. S - 1 /\ b % S \in 0 .. S - 1
         /\ \/ a \div S = b \div S /\ b - a = (b % S) - (a % S)
            \/ a \div S < b \div S /\ b - a = (b % S) - (a % S) + S
            \/ a \div S > b \div S /\ b - a = (b % S) - (a % S) - S
<1> DEFINE p == a \div S
           q == b \div S
           r == a % S
           s == b % S
<1>1. p \in Int /\ q \in Int /\ r \in 0 .. S - 1 /\ s \in 0 .. S - 1 /\ a = p * S + r /\ b = q * S + s
  OBVIOUS
<1> HIDE DEF p, q, r, s
<1>2. q - p \in Int /\ b - a = (q - p) * S + (s - r)
  BY <1>1
<1>3. q - p = 0 \/ q - p = 1 \/ q - p = -1
  <2>1. \A k \in Int : (k <= -2 => k * S <= -(2 * S)) /\ (k >= 2 => k * S >= 2 * S) /\ k * S \in Int
    OBVIOUS
  <2> DEFINE k == q - p
             x == k * S
  <2>2. k \in Int /\ x \in Int /\ b - a = x + (s - r) /\ (k <= -2 => x <= -(2 * S)) /\ (k >= 2 => x >= 2 * S)
    BY <1>2, <2>1
  <2> HIDE DEF k, x
  <2>3. k = 0 \/ k = 1 \/ k = -1
    BY <1>1, <2>2
  <2> QED BY <2>3 DEF k
<1>4. 0 * S = 0 /\ 1 * S = S /\ (-1) * S = -S
  OBVIOUS
<1>5. CASE q - p = 0
  BY <1>1, <1>2, <1>4, <1>5 DEF p, q, r, s
<1>6. CASE q - p = 1
  BY <1>1, <1>2, <1>4, <1>6 DEF p, q, r, s
<1>7. CASE q - p = -1
  BY <1>1, <1>2, <1>4, <1>7 DEF p, q, r, s
<1> QED BY <1>3, <1>5, <1>6, <1>7

(* iwvfm_start is the tag of the time of the first sample.                 *)
LEMMA StartOfWaveform ==
  ASSUME NEW f, f.end \in Nat, f.len \in Nat, 2 * f.len < Second
  PROVE  WfmStart(f) = (f.end - 2 * f.len) % Second /\ WfmStart(f) \in 0 .. Second - 1
<1> DEFINE e == f.end
           l == 2 * f.len
           a == e - l
<1>0. Second \in Nat \ {0}
  BY DecoderAssumption
<1>1. a \in Int /\ e \in Int /\ l \in Nat /\ l < Second /\ e - a = l
  OBVIOUS
<1> HIDE DEF a, l, e
<1>2. e - a < Second /\ a - e < Second
  BY <1>0, <1>1
<1>3. /\ a % Second \in 0 .. Second - 1 /\ e % Second \in 0 .. Second - 1
      /\ \/ e - a = (e % Second) - (a % Second)
         \/ e - a = (e % Second) - (a % Second) + Second
         \/ e - a = (e % Second) - (a % Second) - Second
  BY <1>0, <1>1, <1>2, TagsOfTimes
<1>4. WfmStart(f) = IF e % Second < l THEN Second - (l - (e % Second)) ELSE (e % Second) - l
  BY DEF WfmStart, Ttt, e, l
<1> DEFINE x == a % Second
           y == e % Second
           z == WfmStart(f)
<1>5. /\ x \in 0 .. Second - 1 /\ y \in 0 .. Second - 1
      /\ l = y - x \/ l = y - x + Second \/ l = y - x - Second
      /\ z = IF y < l THEN Second - (l - y) ELSE y - l
  BY <1>1, <1>3, <1>4
<1> HIDE DEF x, y, z
<1>6. z = x /\ z \in 0 .. Second - 1
  BY <1>0, <1>1, <1>5
<1> QED BY <1>6 DEF x, z, a, e, l

(* The difference of two tags, as corrected, is that of the times.         *)
LEMMA CorrectedDifference ==
  ASSUME readout.frame # "none", readout.ref \in Nat, EventTriggerTime # 0,
         NEW t \in Int, Distance(t, readout.ref) < AllowedTimeDiff
  PROVE  TimeDiff(t % Second) = t - readout.ref
<1> DEFINE ref == readout.ref
           x == t % Second
           y == ref % Second
<1>0. Second \in Nat \ {0} /\ AllowedTimeDiff \in Nat /\ 2 * AllowedTimeDiff < Second
  BY DecoderAssumption
<1>1. EventTriggerTime = y
  BY DEF EventTriggerTime
<1>2. t - ref < AllowedTimeDiff /\ ref - t < AllowedTimeDiff
  BY <1>0 DEF Distance
<1>3. /\ x \in 0 .. Second - 1 /\ y \in 0 .. Second - 1
      /\ \/ t - ref = x - y \/ t - ref = x - y + Second \/ t - ref = x - y - Second
  <2>1. t - ref < Second /\ ref - t < Second
    BY <1>0, <1>2
  <2> HIDE DEF ref
  <2>2. ref \in Int
    BY DEF ref
  <2> QED BY <1>0, <2>1, <2>2, TagsOfTimes
<1> DEFINE diff == x - y
           Near(d) == Distance(d, 0) < AllowedTimeDiff
           true == t - ref
<1>4. TimeDiff(x) = CASE Distance(diff, 0) <= AllowedTimeDiff -> diff
                      [] Distance(diff, 0) > AllowedTimeDiff /\ Near(diff + Second) -> diff + Second
                      [] Distance(diff, 0) > AllowedTimeDiff /\ Near(diff - Second) -> diff - Second
                      [] OTHER -> diff
  BY <1>1 DEF TimeDiff
<1>5. true \in Int /\ true < AllowedTimeDiff /\ -true < AllowedTimeDiff
      /\ (true = diff \/ true = diff + Second \/ true = diff - Second) /\ diff \in Int
  BY <1>2, <1>3
<1> HIDE DEF x, y, diff, true
<1>6. CASE true = diff
  <2>1. Distance(diff, 0) <= AllowedTimeDiff
    BY <1>0, <1>5, <1>6 DEF Distance
  <2>2. ~(Distance(diff, 0) > AllowedTimeDiff)
    BY <1>0, <1>5, <1>6 DEF Distance
  <2> QED BY <1>4, <1>6, <2>1, <2>2 DEF true, x
<1>7. CASE true = diff + Second
  <2>1. Distance(diff, 0) > AllowedTimeDiff /\ ~(Distance(diff, 0) <= AllowedTimeDiff)
    BY <1>0, <1>5, <1>7 DEF Distance
  <2>2. Near(diff + Second) /\ ~Near(diff - Second)
    BY <1>0, <1>5, <1>7 DEF Distance
  <2> QED BY <1>4, <1>7, <2>1, <2>2 DEF true, x
<1>8. CASE true = diff - Second
  <2>1. Distance(diff, 0) > AllowedTimeDiff /\ ~(Distance(diff, 0) <= AllowedTimeDiff)
    BY <1>0, <1>5, <1>8 DEF Distance
  <2>2. Near(diff - Second) /\ ~Near(diff + Second)
    BY <1>0, <1>5, <1>8 DEF Distance
  <2> QED BY <1>4, <1>8, <2>1, <2>2 DEF true, x
<1> QED BY <1>5, <1>6, <1>7, <1>8

-----------------------------------------------------------------------------
(* The fragments of a trigger follow each other; the first is the one of   *)
(* the nominal length.                                                     *)
Piece == [end : Nat, len : Nat]

(* What a trigger's fragments are, by IsTrigger.                           *)
LEMMA PiecesOfTrigger ==
  ASSUME NEW t, IsTrigger(t)
  PROVE  /\ t \in Seq(Piece) /\ Len(t) \in Nat \ {0} /\ DOMAIN t = 1 .. Len(t)
         /\ \A k \in 1 .. Len(t) : /\ t[k].end \in Nat /\ t[k].len \in 1 .. NominalLength
                                   /\ t[k].len >= NominalLength <=> k = 1
         /\ \A j, k \in 1 .. Len(t) : j < k => t[k].end - 2 * t[k].len >= t[j].end
<1>0. NominalLength \in Nat \ {0}
  BY DecoderAssumption
<1>1. t \in Seq(Piece) /\ Len(t) \in Nat \ {0} /\ DOMAIN t = 1 .. Len(t)
  <2>1. t \in Seq(Piece) /\ t # <<>>
    BY DEF IsTrigger, Piece
  <2> HIDE DEF Piece
  <2> QED BY <2>1
<1>2. ASSUME NEW k \in 1 .. Len(t)
      PROVE  /\ t[k].end \in Nat /\ t[k].len \in 1 .. NominalLength
             /\ t[k].len >= NominalLength <=> k = 1
             /\ k # 1 => t[k].end = t[k - 1].end + 2 * t[k].len
  <2>1. t[k] \in Piece
    <3> HIDE DEF Piece
    <3> QED BY <1>1
  <2>2. t[k].end \in Nat
    BY <2>1 DEF Piece
  <2>3. CASE k = 1
    BY <1>0, <2>2, <2>3 DEF IsTrigger
  <2>4. CASE k # 1
    <3>1. k \in 2 .. Len(t)
      BY <1>1, <2>4
    <3>2. t[k].len \in 1 .. NominalLength - 1 /\ t[k].end = t[k - 1].end + 2 * t[k].len
      BY <3>1 DEF IsTrigger
    <3> QED BY <1>0, <2>2, <2>4, <3>2
  <2> QED BY <2>3, <2>4
<1>3. ASSUME NEW j \in 1 .. Len(t), NEW k \in 1 .. Len(t), j < k
      PROVE  t[k].end - 2 * t[k].len >= t[j].end
  <2> DEFINE n == Len(t)
             T == {m \in 0 .. n : j < m /\ t[m].end - 2 * t[m].len < t[j].end}
  <2>0. n \in Nat
    BY <1>1
  <2> SUFFICES T = {}
    <3>1. k \in 0 .. n /\ t[k].end \in Nat /\ t[k].len \in Nat /\ t[j].end \in Nat
      BY <1>0, <1>2, <2>0
    <3> QED BY <1>3, <3>1
  <2> SUFFICES ASSUME T # {} PROVE FALSE
    OBVIOUS
  <2>1. PICK m \in T : \A i \in 0 .. n : i < m => i \notin T
    <3>1. T \subseteq 0 .. n
      OBVIOUS
    <3> HIDE DEF T, n
    <3> QED BY <2>0, <3>1, LeastOf
  <2>2. m \in 1 .. n /\ j < m /\ m # 1 /\ m - 1 \in 1 .. n /\ m - 1 \in 0 .. n /\ m - 1 < m
    BY <2>0, <2>1
  <2>3. /\ t[m].end - 2 * t[m].len = t[m - 1].end /\ t[m - 1].end \in Nat /\ t[m - 1].len \in Nat
        /\ t[j].end \in Nat /\ t[m].end \in Nat /\ t[m].len \in Nat
    <3>1. t[m].end = t[m - 1].end + 2 * t[m].len
      BY <1>2, <2>2
    <3>2. \A i \in 1 .. n : t[i].end \in Nat /\ t[i].len \in Nat
      BY <1>0, <1>2
    <3>3. t[m - 1].end \in Nat /\ t[m - 1].len \in Nat /\ t[j].end \in Nat /\ t[m].end \in Nat /\ t[m].len \in Nat
      BY <2>2, <3>2
    <3> QED BY <3>1, <3>3
  <2>4. CASE m - 1 = j
    BY <2>1, <2>3, <2>4
  <2>5. CASE m - 1 # j
    <3>1. j < m - 1
      BY <2>2, <2>5
    <3>2. ~(t[m - 1].end - 2 * t[m - 1].len < t[j].end)
      BY <2>1, <2>2, <3>1
    <3>3. t[m].end - 2 * t[m].len < t[j].end
      BY <2>1
    <3> DEFINE a == t[m - 1].end
               b == t[m - 1].len
               c == t[j].end
    <3>4. a \in Nat /\ b \in Nat /\ c \in Nat /\ a < c /\ ~(a - 2 * b < c)
      BY <2>3, <3>2, <3>3
    <3> HIDE DEF a, b, c
    <3> QED BY <3>4
  <2> QED BY <2>4, <2>5
<1> QED BY <1>1, <1>2, <1>3

(* The pieces of different triggers are further apart.                     *)
LEMMA TriggersApart ==
  ASSUME NEW r, IsReadout(r), NEW m \in 1 .. Len(r.triggers), NEW n \in 1 .. m - 1,
         NEW j \in 1 .. Len(r.triggers[m]), NEW k \in 1 .. Len(r.triggers[n])
  PROVE  r.triggers[m][j].end >= r.triggers[n][k].end + Window
<1> DEFINE ts == r.triggers
           N == Len(ts)
<1>1. N \in Nat /\ DOMAIN ts = 1 .. N /\ \A i \in 1 .. N : IsTrigger(ts[i])
  <2>1. ts \in Seq(Seq(Piece))
    BY DEF IsReadout, Piece
  <2>2. \A i \in DOMAIN ts : IsTrigger(ts[i])
    BY DEF IsReadout
  <2> HIDE DEF Piece, ts
  <2> QED BY <2>1, <2>2
<1> HIDE DEF ts, N
<1>2. ASSUME NEW i \in 1 .. N
      PROVE  /\ Len(ts[i]) \in Nat \ {0} /\ \A l \in 1 .. Len(ts[i]) : ts[i][l].end \in Nat
             /\ \A l \in 1 .. Len(ts[i]) : ts[i][1].end <= ts[i][l].end /\ ts[i][l].end <= ts[i][Len(ts[i])].end
             /\ ts[i][1].end \in Nat /\ ts[i][Len(ts[i])].end \in Nat
  <2> DEFINE t == ts[i]
  <2>1. IsTrigger(t)
    BY <1>1
  <2> HIDE DEF t
  <2>2. Len(t) \in Nat \ {0} /\ \A l \in 1 .. Len(t) : t[l].end \in Nat /\ t[l].len \in Nat
    <3>1. Len(t) \in Nat \ {0} /\ \A l \in 1 .. Len(t) : t[l].end \in Nat /\ t[l].len \in 1 .. NominalLength
      BY <2>1, PiecesOfTrigger
    <3>2. NominalLength \in Nat
      BY DecoderAssumption
    <3> QED BY <3>1, <3>2
  <2>3. \A a, b \in 1 .. Len(t) : a < b => t[b].end - 2 * t[b].len >= t[a].end
    BY <2>1, PiecesOfTrigger
  <2>4. 1 \in 1 .. Len(t) /\ Len(t) \in 1 .. Len(t)
    BY <2>2
  <2>5. ASSUME NEW l \in 1 .. Len(t) PROVE t[1].end <= t[l].end /\ t[l].end <= t[Len(t)].end
    <3>1. t[1].end <= t[l].end
      <4>1. CASE l = 1
        BY <2>2, <2>4, <4>1
      <4>2. CASE l # 1
        <5>1. t[l].end - 2 * t[l].len >= t[1].end
          BY <2>2, <2>3, <2>4, <4>2
        <5> QED BY <2>2, <2>4, <5>1
      <4> QED BY <4>1, <4>2
    <3>2. t[l].end <= t[Len(t)].end
      <4>1. CASE l = Len(t)
        BY <2>2, <2>4, <4>1
      <4>2. CASE l # Len(t)
        <5>1. t[Len(t)].end - 2 * t[Len(t)].len >= t[l].end
          BY <2>2, <2>3, <2>4, <4>2
        <5> QED BY <2>2, <2>4, <5>1
      <4> QED BY <4>1, <4>2
    <3> QED BY <3>1, <3>2
  <2> QED BY <2>2, <2>4, <2>5 DEF t
<1>3. \A i \in 2 .. N : ts[i][1].end >= ts[i - 1][Len(ts[i - 1])].end + Window
  BY DEF IsReadout, Last, ts, N
<1>4. Window \in Nat
  BY DecoderAssumption DEF Window
<1> DEFINE T == {i \in 0 .. N : n < i /\ ts[i][1].end < ts[n][k].end + Window}
<1>5. n \in 1 .. N /\ k \in 1 .. Len(ts[n]) /\ ts[n][k].end \in Nat /\ m \in 1 .. N /\ n < m
  BY <1>1, <1>2 DEF ts, N
<1>6. T = {}
  <2> SUFFICES ASSUME T # {} PROVE FALSE
    OBVIOUS
  <2>1. PICK i \in T : \A l \in 0 .. N : l < i => l \notin T
    <3>1. T \subseteq 0 .. N
      OBVIOUS
    <3> HIDE DEF T
    <3> QED BY <1>1, <3>1, LeastOf
  <2>2. i \in 2 .. N /\ i - 1 \in 1 .. N /\ i - 1 \in 0 .. N /\ i - 1 < i /\ n <= i - 1
    BY <1>1, <1>5, <2>1
  <2>3. ts[i][1].end >= ts[i - 1][Len(ts[i - 1])].end + Window
    BY <1>3, <2>2
  <2>4. i \in 1 .. N /\ ts[i][1].end \in Nat /\ ts[i - 1][Len(ts[i - 1])].end \in Nat /\ ts[i - 1][1].end \in Nat
    BY <1>2, <2>2
  <2>5. CASE n = i - 1
    <3>1. ts[n][k].end <= ts[n][Len(ts[n])].end
      BY <1>2, <1>5
    <3>2. ts[i][1].end < ts[n][k].end + Window
      BY <2>1
    <3>3. ts[i][1].end >= ts[n][Len(ts[n])].end + Window /\ ts[n][Len(ts[n])].end \in Nat
      BY <2>3, <2>4, <2>5
    <3> DEFINE a == ts[i][1].end
               b == ts[n][k].end
               c == ts[n][Len(ts[n])].end
    <3>4. a \in Nat /\ b \in Nat /\ c \in Nat /\ b <= c /\ a < b + Window /\ a >= c + Window
      BY <1>5, <2>4, <3>1, <3>2, <3>3
    <3> HIDE DEF a, b, c
    <3> QED BY <1>4, <3>4
  <2>6. CASE n < i - 1
    <3>1. ~(ts[i - 1][1].end < ts[n][k].end + Window)
      BY <2>1, <2>2, <2>6
    <3>2. ts[i - 1][1].end <= ts[i - 1][Len(ts[i - 1])].end
      <4>1. Len(ts[i - 1]) \in 1 .. Len(ts[i - 1])
        BY <1>2, <2>2
      <4> QED BY <1>2, <2>2, <4>1
    <3>3. ts[i][1].end < ts[n][k].end + Window
      BY <2>1
    <3> DEFINE a == ts[i][1].end
               b == ts[n][k].end
               c == ts[i - 1][1].end
               d == ts[i - 1][Len(ts[i - 1])].end
    <3>4. /\ a \in Nat /\ b \in Nat /\ c \in Nat /\ d \in Nat
          /\ ~(c < b + Window) /\ c <= d /\ a < b + Window /\ a >= d + Window
      BY <1>5, <2>3, <2>4, <3>1, <3>2, <3>3
    <3> HIDE DEF a, b, c, d
    <3> QED BY <1>4, <3>4
  <2> QED BY <1>5, <2>2, <2>5, <2>6
<1>7. ts[m][1].end >= ts[n][k].end + Window
  <2>1. ts[m][1].end \in Nat /\ m \in 0 .. N
    BY <1>1, <1>2, <1>5
  <2> QED BY <1>4, <1>5, <1>6, <2>1
<1>8. ts[m][j].end >= ts[m][1].end /\ ts[m][j].end \in Nat /\ ts[m][1].end \in Nat
  <2>1. j \in 1 .. Len(ts[m])
    BY DEF ts
  <2> QED BY <1>2, <1>5, <2>1
<1>9. ts[m][j].end >= ts[n][k].end + Window
  <2> DEFINE a == ts[m][j].end
             b == ts[m][1].end
             c == ts[n][k].end
  <2>1. a \in Nat /\ b \in Nat /\ c \in Nat /\ b >= c + Window /\ a >= b
    BY <1>5, <1>7, <1>8
  <2> HIDE DEF a, b, c
  <2>2. a >= c + Window
    BY <1>4, <2>1
  <2> QED BY <2>2 DEF a, c
<1> QED BY <1>9 DEF ts

-----------------------------------------------------------------------------
(* What a board has of a readout.                                          *)
Frag == [board : Nat, end : Nat, len : Nat, ftrig : BOOLEAN]
IsPiece(f, r, n, k) ==
  /\ n \in 1 .. Len(r.triggers) /\ k \in 1 .. Len(r.triggers[n])
  /\ f.end = r.triggers[n][k].end /\ f.len = r.triggers[n][k].len
OwnFragments(F, r) ==
  /\ F \in Seq(Frag)
  /\ \A i \in 1 .. Len(F) : \E n, k : IsPiece(F[i], r, n, k)
  /\ \A i, j \in 1 .. Len(F) : i < j => F[i].end < F[j].end

(* The fragments of a board, in the order of their ends, are pieces of     *)
(* triggers.                                                               *)
LEMMA FragmentsOfBoard ==
  ASSUME NEW r, IsReadout(r), NEW b
  PROVE  OwnFragments(FragsOf(r.frags, b), r) /\ OwnFragments(<<>>, r)
<1> DEFINE F == FragsOf(r.frags, b)
           I == {i \in DOMAIN r.frags : r.frags[i].board = b}
           ts == r.triggers
           all == FlattenSeq(ts)
<1>1. r.frags \in Seq(Frag) /\ ts \in Seq(Seq(Piece))
  BY DEF IsReadout, Frag, Piece
<1>2. F = Selected(r.frags, I) /\ I \subseteq DOMAIN r.frags
  BY DEF FragsOf
<1> HIDE DEF F, I
<1>3. /\ F \in Seq(Frag)
      /\ \E o \in [DOMAIN F -> I] : /\ \A k \in DOMAIN o : F[k] = r.frags[o[k]]
                                    /\ \A j, k \in DOMAIN o : j < k => o[j] < o[k]
  <2> HIDE DEF Frag
  <2> QED BY <1>1, <1>2, SelectedElements
<1>4. PICK o \in [DOMAIN F -> I] : /\ \A k \in DOMAIN o : F[k] = r.frags[o[k]]
                                   /\ \A j, k \in DOMAIN o : j < k => o[j] < o[k]
  BY <1>3
<1>5. DOMAIN F = 1 .. Len(F) /\ \A k \in 1 .. Len(F) : o[k] \in I /\ F[k] = r.frags[o[k]]
  <2>1. DOMAIN F = 1 .. Len(F)
    <3> HIDE DEF Frag
    <3> QED BY <1>3
  <2> QED BY <1>4, <2>1
<1>6. ASSUME NEW i \in 1 .. Len(F) PROVE \E n, k : IsPiece(F[i], r, n, k)
  <2>1. o[i] \in DOMAIN r.frags
    BY <1>2, <1>5
  <2>2. F[i] \in ToSet(r.frags)
    BY <1>5, <2>1 DEF ToSet
  <2>3. \A f \in ToSet(r.frags) : \E p \in DOMAIN all : f.end = all[p].end /\ f.len = all[p].len
    BY DEF IsReadout
  <2>4. PICK p \in DOMAIN all : F[i].end = all[p].end /\ F[i].len = all[p].len
    BY <2>2, <2>3
  <2>5. \E n \in 1 .. Len(ts) : \E k \in 1 .. Len(ts[n]) : all[p] = ts[n][k]
    <3> HIDE DEF Piece, ts
    <3>1. PICK off : Positions(off, ts)
      BY <1>1, FlattenPositions
    <3>2. all \in Seq(Piece)
      BY <1>1, Flattened
    <3>3. p \in 1 .. off[Len(ts)]
      <4>1. Len(all) = off[Len(ts)]
        BY <3>1 DEF Positions
      <4> HIDE DEF all
      <4> QED BY <2>4, <3>2, <4>1
    <3>4. PICK n \in 1 .. Len(ts) : \E k \in 1 .. Len(ts[n]) : p = off[n - 1] + k
      <4>1. InPositions(off, ts)
        BY <1>1, <3>1, PositionsCover
      <4> QED BY <3>3, <4>1 DEF InPositions
    <3> QED BY <3>1, <3>4 DEF Positions
  <2> QED BY <2>4, <2>5 DEF IsPiece
<1>7. ASSUME NEW i \in 1 .. Len(F), NEW j \in 1 .. Len(F), i < j PROVE F[i].end < F[j].end
  <2>1. o[i] < o[j]
    BY <1>4, <1>5, <1>7
  <2>2. /\ o[i] \in DOMAIN r.frags /\ o[j] \in DOMAIN r.frags
        /\ r.frags[o[i]].board = r.frags[o[j]].board
    BY <1>5 DEF I
  <2>3. \A p, q \in DOMAIN r.frags : p < q /\ r.frags[p].board = r.frags[q].board => r.frags[p].end < r.frags[q].end
    BY DEF IsReadout
  <2>4. r.frags[o[i]].end < r.frags[o[j]].end
    BY <2>1, <2>2, <2>3
  <2> QED BY <1>5, <2>4
<1>8. OwnFragments(F, r)
  BY <1>3, <1>6, <1>7 DEF OwnFragments
<1>9. OwnFragments(<<>>, r)
  <2>1. <<>> \in Seq(Frag) /\ 1 .. Len(<<>>) = {}
    OBVIOUS
  <2> QED BY <2>1 DEF OwnFragments
<1> QED BY <1>8, <1>9 DEF F

(* A fragment is as long as what it is a piece of; only the first of a     *)
(* trigger has the nominal length.                                         *)
LEMMA FragmentOfTrigger ==
  ASSUME NEW r, IsReadout(r), NEW f, NEW n, NEW k, IsPiece(f, r, n, k)
  PROVE  /\ IsTrigger(r.triggers[n]) /\ r.triggers[n] \in ToSet(r.triggers)
         /\ f.end \in Nat /\ f.len \in 1 .. NominalLength /\ (f.len >= NominalLength <=> k = 1)
         /\ f.len \in Nat /\ 2 * f.len < Second /\ 2 * f.len < Window + 1 /\ (k # 1 => 2 * f.len < Window)
<1> DEFINE t == r.triggers[n]
<1>1. IsTrigger(t) /\ t \in ToSet(r.triggers) /\ k \in 1 .. Len(t)
  <2>1. r.triggers \in Seq(Seq(Piece)) /\ \A i \in DOMAIN r.triggers : IsTrigger(r.triggers[i])
    BY DEF IsReadout, Piece
  <2>2. DOMAIN r.triggers = 1 .. Len(r.triggers)
    <3> HIDE DEF Piece
    <3> QED BY <2>1
  <2> QED BY <2>1, <2>2 DEF IsPiece, ToSet
<1> HIDE DEF t
<1>2. t[k].end \in Nat /\ t[k].len \in 1 .. NominalLength /\ (t[k].len >= NominalLength <=> k = 1)
  BY <1>1, PiecesOfTrigger
<1>3. f.end = t[k].end /\ f.len = t[k].len
  BY DEF IsPiece, t
<1> DEFINE l == f.len
<1>4. l \in 1 .. NominalLength /\ (l >= NominalLength <=> k = 1) /\ f.end \in Nat
  BY <1>2, <1>3
<1> HIDE DEF l
<1>5. l \in Nat /\ 2 * l < Second /\ 2 * l < Window + 1 /\ (k # 1 => 2 * l < Window)
  BY <1>4, DecoderAssumption DEF Window
<1> QED BY <1>1, <1>4, <1>5 DEF t, l

-----------------------------------------------------------------------------
(* The waveforms that the lists of fragments stand for, and what the       *)
(* decoder's products are at every step.                                   *)
Starts(b) ==
  {i \in DOMAIN board_frag_v[b] : board_frag_v[b][i].ftrig /\ board_frag_v[b][i].len >= NominalLength}
WaveformsOf(b) ==
  {[time |-> TimeDiff(WfmStart(board_frag_v[b][i])), channel |-> ch,
    samples |-> Combined(board_frag_v[b], i)] : i \in Starts(b), ch \in Nat}
AllWaveforms == UNION {WaveformsOf(b) : b \in Boards}

Listed ==
  /\ board_frag_v = [b \in Boards |-> OfBoard(b)]
  /\ extended_flag <=> \E b \in Boards : \E i \in DOMAIN OfBoard(b) : OfBoard(b)[i].len < NominalLength
HasLists == stage \in {"decode", "flashes", "done"} /\ readout.frags # <<>>

DecodeInv ==
  /\ fWaveforms = <<>> => readout \in Readouts
  /\ fWaveforms # <<>> => readout.frags = <<>>
  /\ iboard \in 0 .. NBoards /\ itrig \in Nat \ {0}
  /\ stage \in {"decode", "flashes"} => readout.frags # <<>>
  /\ stage = "decode" => iboard \in Boards
  /\ stage \in {"flashes", "done"} /\ readout.frags # <<>> => iboard = NBoards /\ itrig = 1
  /\ HasLists => Listed
  /\ ~HasLists => pmtwvfmVec = <<>> /\ fltwvfmVec = <<>> /\ timwvfmVec = <<>>
  /\ pmtwvfmVec \in Seq(AllWaveforms) /\ fltwvfmVec \in Seq(AllWaveforms)
  /\ timwvfmVec \in Seq(AllWaveforms)

(* The waveforms that one iteration adds are of this kind.                 *)
Own == [i \in 1 .. PMTPerBoard |->
          [time |-> TimeDiff(WfmStart(Frags[itrig])), channel |-> iboard * PMTPerBoard + i - 1,
           samples |-> Combined(Frags, itrig)]]
Flash == [time |-> TimeDiff(WfmStart(Frags[itrig])), channel |-> iboard,
          samples |-> Combined(Frags, itrig)]

(* What an iteration that decodes a trigger adds to the three vectors.     *)
LEMMA DecodedIsOwn ==
  ASSUME DecodeInv, DecodeTrigger
  PROVE  /\ HasLists /\ Listed /\ iboard \in Boards /\ itrig \in Starts(iboard)
         /\ itrig \in 1 .. Len(Frags) /\ NominalLength <= Frags[itrig].len
         /\ Own \in Seq(AllWaveforms) /\ Flash \in AllWaveforms
         /\ fltwvfmVec' = Append(fltwvfmVec, Flash)
         /\ pmtwvfmVec' = IF iboard = TimingBoard THEN pmtwvfmVec ELSE pmtwvfmVec \o Own
         /\ timwvfmVec' = IF iboard = TimingBoard /\ fConfig.OutputTiming
                          THEN timwvfmVec \o Own ELSE timwvfmVec
<1>0. NominalLength \in Nat \ {0} /\ PMTPerBoard \in Nat /\ NBoards \in Nat
  BY DecoderAssumption, MonPulseAssumption
<1>1. /\ stage = "decode" /\ iboard \in Boards /\ itrig <= Len(Frags)
      /\ TimedLen(Frags[itrig]) >= NominalLength
  BY DEF DecodeTrigger, Decoding
<1>2. HasLists /\ Listed
  BY <1>1 DEF DecodeInv, HasLists
<1>3. readout \in Readouts
  BY <1>2 DEF DecodeInv, HasLists
<1>4. OwnFragments(Frags, readout)
  <2>1. Frags = <<>> \/ Frags = FragsOf(readout.frags, iboard)
    BY <1>1, <1>2 DEF Frags, Listed, OfBoard
  <2>2. IsReadout(readout)
    BY <1>3, ReadoutsAssumption
  <2> QED BY <2>1, <2>2, FragmentsOfBoard
<1>5. Frags \in Seq(Frag) /\ itrig \in 1 .. Len(Frags) /\ DOMAIN Frags = 1 .. Len(Frags)
  <2>1. Frags \in Seq(Frag)
    BY <1>4 DEF OwnFragments
  <2> HIDE DEF Frag
  <2>2. Len(Frags) \in Nat /\ DOMAIN Frags = 1 .. Len(Frags)
    BY <2>1
  <2> QED BY <1>1, <2>1, <2>2 DEF DecodeInv
<1>6. Frags[itrig].ftrig /\ Frags[itrig].len >= NominalLength
  <2>1. ~(0 >= NominalLength)
    BY <1>0
  <2> QED BY <1>1, <2>1 DEF TimedLen
<1>7. itrig \in Starts(iboard)
  BY <1>5, <1>6 DEF Starts, Frags
<1>8. ASSUME NEW ch \in Nat
      PROVE  [time |-> TimeDiff(WfmStart(Frags[itrig])), channel |-> ch, samples |-> Combined(Frags, itrig)]
               \in AllWaveforms
  <2>1. [time |-> TimeDiff(WfmStart(Frags[itrig])), channel |-> ch, samples |-> Combined(Frags, itrig)]
          \in WaveformsOf(iboard)
    BY <1>7 DEF WaveformsOf, Frags
  <2> QED BY <1>1, <2>1 DEF AllWaveforms
<1>9. iboard \in Nat /\ \A i \in 1 .. PMTPerBoard : iboard * PMTPerBoard + i - 1 \in Nat
  BY <1>0, <1>1 DEF Boards
<1>10. Own \in Seq(AllWaveforms) /\ Flash \in AllWaveforms
  <2>1. \A i \in 1 .. PMTPerBoard : Own[i] \in AllWaveforms
    BY <1>8, <1>9 DEF Own
  <2>2. Own = [i \in 1 .. PMTPerBoard |-> Own[i]]
    BY DEF Own
  <2> QED BY <1>0, <1>8, <1>9, <2>1, <2>2 DEF Flash
<1>11. /\ fltwvfmVec' = Append(fltwvfmVec, Flash)
       /\ pmtwvfmVec' = IF iboard = TimingBoard THEN pmtwvfmVec ELSE pmtwvfmVec \o Own
       /\ timwvfmVec' = IF iboard = TimingBoard /\ fConfig.OutputTiming
                        THEN timwvfmVec \o Own ELSE timwvfmVec
  BY DEF DecodeTrigger, Own, Flash
<1> QED BY <1>1, <1>2, <1>5, <1>6, <1>7, <1>10, <1>11

(* The lists of the boards and the kinds of the waveforms are kept.        *)
LEMMA DecodeInvHolds == Spec => []DecodeInv
<1>0. NBoards \in Nat \ {0, 1} /\ NominalLength \in Nat \ {0}
  BY DecoderAssumption
<1>1. Init => DecodeInv
  <2> SUFFICES ASSUME Init PROVE DecodeInv
    OBVIOUS
  <2>1. fWaveforms = <<>> => readout \in Readouts
    <3> SUFFICES ASSUME ~(stage = "fragments" /\ readout \in Readouts) PROVE fWaveforms # <<>>
      BY DEF Init
    <3>1. fWaveforms \in Simulated
      BY DEF Init
    <3>2. ToSet(PMT_Channels) \subseteq DOMAIN fWaveforms
      BY <3>1, SimulatedAssumption
    <3>3. PMT_Channels \in Seq(Nat) /\ PMT_Channels # <<>>
      BY MonPulseAssumption
    <3>4. PMT_Channels[1] \in ToSet(PMT_Channels)
      BY <3>3 DEF ToSet
    <3> QED BY <3>2, <3>4
  <2>2. fWaveforms # <<>> => readout.frags = <<>>
    BY Event0Assumption DEF Init
  <2>3. stage \in {"fragments", "digitized"} /\ iboard = 0 /\ itrig = 1
        /\ pmtwvfmVec = <<>> /\ fltwvfmVec = <<>> /\ timwvfmVec = <<>>
    BY DEF Init
  <2>4. ~HasLists /\ iboard \in 0 .. NBoards /\ itrig \in Nat \ {0}
    BY <1>0, <2>3 DEF HasLists
  <2>5. <<>> \in Seq(AllWaveforms)
    OBVIOUS
  <2> QED BY <2>1, <2>2, <2>3, <2>4, <2>5 DEF DecodeInv
<1>2. SimulationInv /\ DecodeInv /\ [Next]_vars => DecodeInv'
  <2> SUFFICES ASSUME SimulationInv, DecodeInv, [Next]_vars PROVE DecodeInv'
    OBVIOUS
  <2>0. ASSUME UNCHANGED <<fConfig, readout, board_frag_v, extended_flag>>
        PROVE  AllWaveforms' = AllWaveforms /\ (Listed => Listed')
    <3>1. Listed => Listed'
      BY <2>0 DEF Listed, OfBoard
    <3>2. \A f : TimeDiff(f)' = TimeDiff(f)
      BY <2>0 DEF TimeDiff, EventTriggerTime
    <3>3. \A b \in Boards : Starts(b)' = Starts(b)
      BY <2>0 DEF Starts
    <3>4. ASSUME NEW b \in Boards, NEW i PROVE Combined(board_frag_v[b], i)' = Combined(board_frag_v[b], i)
      BY <2>0 DEF Combined, LastExtension
    <3>5. \A b \in Boards : WaveformsOf(b)' = WaveformsOf(b)
      BY <2>0, <3>2, <3>3, <3>4 DEF WaveformsOf
    <3> QED BY <3>1, <3>5 DEF AllWaveforms
  <2>1. CASE UNCHANGED decoderVars /\ UNCHANGED fWaveforms
    BY <2>0, <2>1 DEF DecodeInv, decoderVars, products, HasLists
  <2>2. CASE NoFragments /\ UNCHANGED fWaveforms
    BY <2>0, <2>2 DEF DecodeInv, NoFragments, products, HasLists
  <2>3. CASE NoFrameShift /\ UNCHANGED fWaveforms
    BY <2>0, <2>3 DEF DecodeInv, NoFrameShift, products, HasLists
  <2>4. CASE GetFragments /\ UNCHANGED fWaveforms
    <3>1. stage = "fragments" /\ readout.frags # <<>> /\ stage' = "decode" /\ iboard' = 0 /\ itrig' = 1
          /\ UNCHANGED <<fConfig, readout, products, fWaveforms>>
      BY <2>4 DEF GetFragments
    <3>2. pmtwvfmVec = <<>> /\ fltwvfmVec = <<>> /\ timwvfmVec = <<>>
      BY <3>1 DEF DecodeInv, HasLists
    <3>3. Listed'
      BY <2>4 DEF GetFragments, Listed, OfBoard, FragLen
    <3>4. <<>> \in Seq(AllWaveforms')
      OBVIOUS
    <3>5. iboard' \in Boards /\ iboard' \in 0 .. NBoards /\ itrig' \in Nat \ {0}
      BY <1>0, <3>1 DEF Boards
    <3> QED BY <3>1, <3>2, <3>3, <3>4, <3>5 DEF DecodeInv, products, HasLists
  <2>5. CASE SkipExtension /\ UNCHANGED fWaveforms
    <3>1. /\ stage = "decode" /\ stage' = "decode" /\ itrig' = itrig + 1
          /\ UNCHANGED <<fConfig, readout, board_frag_v, extended_flag, iboard, products, fWaveforms>>
      BY <2>5 DEF SkipExtension, Decoding
    <3>2. itrig' \in Nat \ {0}
      BY <3>1 DEF DecodeInv
    <3> QED BY <2>0, <3>1, <3>2 DEF DecodeInv, products, HasLists
  <2>6. CASE DecodeTrigger /\ UNCHANGED fWaveforms
    <3>1. /\ HasLists /\ Listed /\ stage = "decode"
          /\ UNCHANGED <<stage, fConfig, readout, board_frag_v, extended_flag, iboard>> /\ itrig' = itrig + 1
      BY <2>6, DecodedIsOwn DEF DecodeTrigger, Decoding
    <3>2. /\ Own \in Seq(AllWaveforms) /\ Flash \in AllWaveforms
          /\ fltwvfmVec' = Append(fltwvfmVec, Flash)
          /\ pmtwvfmVec' = IF iboard = TimingBoard THEN pmtwvfmVec ELSE pmtwvfmVec \o Own
          /\ timwvfmVec' = IF iboard = TimingBoard /\ fConfig.OutputTiming
                           THEN timwvfmVec \o Own ELSE timwvfmVec
      BY <2>6, DecodedIsOwn
    <3>3. /\ pmtwvfmVec' \in Seq(AllWaveforms) /\ fltwvfmVec' \in Seq(AllWaveforms)
          /\ timwvfmVec' \in Seq(AllWaveforms)
      BY <3>2, AppendProperties, ConcatProperties DEF DecodeInv
    <3> QED BY <2>0, <2>6, <3>1, <3>3 DEF DecodeInv, HasLists
  <2>7. CASE NextBoard /\ UNCHANGED fWaveforms
    <3>1. /\ stage = "decode" /\ iboard \in Boards /\ iboard' = iboard + 1 /\ itrig' = 1
          /\ stage' = (IF iboard = TimingBoard THEN "flashes" ELSE stage)
          /\ UNCHANGED <<fConfig, readout, board_frag_v, extended_flag, products>>
      BY <2>7 DEF NextBoard, Decoding
    <3>2. /\ iboard' \in 0 .. NBoards /\ (stage' = "decode" => iboard' \in Boards)
          /\ (stage' = "flashes" => iboard' = NBoards) /\ stage' \in {"decode", "flashes"}
      BY <1>0, <3>1 DEF Boards, TimingBoard
    <3> QED BY <2>0, <2>7, <3>1, <3>2 DEF DecodeInv, products, HasLists
  <2>8. CASE PutWaveforms
    BY <2>0, <2>8 DEF DecodeInv, PutWaveforms, products, HasLists, pulseVars
  <2>9. CASE EmptyPulse \/ ConstructMonPulse \/ SliceWaveforms
    <3>1. UNCHANGED <<fConfig, readout, board_frag_v, extended_flag, iboard, itrig, products, fWaveforms>>
          /\ stage \in {"digitized", "slice"} /\ stage' \in {"slice", "done", "null_read"}
      BY <2>9 DEF EmptyPulse, ConstructMonPulse, SliceWaveforms, pulseVars
    <3>2. readout.frags = <<>>
      <4>1. fWaveforms # <<>>
        BY <3>1 DEF SimulationInv
      <4> QED BY <4>1 DEF DecodeInv
    <3> QED BY <2>0, <3>1, <3>2 DEF DecodeInv, products, HasLists
  <2> QED BY <2>1, <2>2, <2>3, <2>4, <2>5, <2>6, <2>7, <2>8, <2>9
          DEF Next, Decode, DecoderNext, ConstructFlash, Ended, vars, pulseVars
<1> QED BY <1>1, <1>2, SimulationInvHolds, PTL DEF Spec

-----------------------------------------------------------------------------
(* What a decoded waveform is made of.                                     *)
LEMMA DecodedFrom ==
  ASSUME DecodeInv, NEW w \in Decoded
  PROVE  /\ readout \in Readouts /\ IsReadout(readout) /\ HasLists /\ Listed
         /\ \E b \in Boards : \E i \in Starts(b) :
              /\ OwnFragments(board_frag_v[b], readout)
              /\ w.time = TimeDiff(WfmStart(board_frag_v[b][i]))
              /\ w.samples = Combined(board_frag_v[b], i)
<1>1. pmtwvfmVec # <<>> \/ fltwvfmVec # <<>> \/ timwvfmVec # <<>>
  BY DEF Decoded, ToSet
<1>2. HasLists /\ Listed
  BY <1>1 DEF DecodeInv
<1>3. readout \in Readouts /\ IsReadout(readout)
  BY <1>2, ReadoutsAssumption DEF DecodeInv, HasLists
<1>4. w \in AllWaveforms
  <2>1. \A s \in Seq(AllWaveforms) : ToSet(s) \subseteq AllWaveforms
    BY DEF ToSet
  <2> QED BY <2>1 DEF DecodeInv, Decoded
<1>5. PICK b \in Boards : w \in WaveformsOf(b)
  BY <1>4 DEF AllWaveforms
<1>6. PICK i \in Starts(b), ch \in Nat :
        w = [time |-> TimeDiff(WfmStart(board_frag_v[b][i])), channel |-> ch,
             samples |-> Combined(board_frag_v[b], i)]
  BY <1>5 DEF WaveformsOf
<1>7. OwnFragments(board_frag_v[b], readout)
  <2>1. board_frag_v[b] = <<>> \/ board_frag_v[b] = FragsOf(readout.frags, b)
    BY <1>2 DEF Listed, OfBoard
  <2> QED BY <1>3, <2>1, FragmentsOfBoard
<1> QED BY <1>2, <1>3, <1>6, <1>7

(* The last extension of a list, or the fragment itself.                   *)
IsLast(F, i, j) ==
  /\ j \in i .. Len(F) /\ \A k \in i + 1 .. j : IsExtension(F[k - 1], F[k])
  /\ j < Len(F) => ~IsExtension(F[j], F[j + 1])

(* The inner search ends at the first fragment that no extension follows.  *)
LEMMA ExtendedToTheLast ==
  ASSUME DecodeInv, Listed, NEW b \in Boards, NEW F, F = board_frag_v[b], F \in Seq(Frag),
         NEW i \in 1 .. Len(F)
  PROVE  /\ IsLast(F, i, LastExtension(F, i))
         /\ \A j : IsLast(F, i, j) => j = LastExtension(F, i)
<1> DEFINE n == Len(F)
<1>1. n \in Nat /\ DOMAIN F = 1 .. n
  <2> HIDE DEF Frag
  <2> QED OBVIOUS
<1>2. \A j, k : IsLast(F, i, j) /\ IsLast(F, i, k) => j = k
  <2>1. ASSUME NEW j, NEW k, IsLast(F, i, j), IsLast(F, i, k), j < k PROVE FALSE
    <3>1. j \in i .. n /\ k \in i .. n /\ j + 1 \in i + 1 .. k /\ j < n /\ (j + 1) - 1 = j
      BY <1>1, <2>1 DEF IsLast
    <3> QED BY <2>1, <3>1 DEF IsLast
  <2>2. ASSUME NEW j, NEW k, IsLast(F, i, j), IsLast(F, i, k) PROVE j = k
    <3>1. j \in Int /\ k \in Int
      BY <2>2 DEF IsLast
    <3>2. ~(j < k) /\ ~(k < j)
      BY <2>1, <2>2
    <3> QED BY <3>1, <3>2
  <2> QED BY <2>2
<1>3. CASE extended_flag
  <2> DEFINE T == {m \in 0 .. n : m >= i /\ (m < n => ~IsExtension(F[m], F[m + 1]))}
  <2>1. n \in T
    BY <1>1
  <2>2. PICK m \in T : \A k \in 0 .. n : k < m => k \notin T
    <3>1. T \subseteq 0 .. n /\ T # {}
      BY <2>1
    <3> HIDE DEF T, n
    <3> QED BY <1>1, <3>1, LeastOf
  <2>3. IsLast(F, i, m)
    <3>1. ASSUME NEW k \in i + 1 .. m PROVE IsExtension(F[k - 1], F[k])
      <4>1. k - 1 \in 0 .. n /\ k - 1 < m /\ k - 1 >= i /\ k - 1 < n /\ (k - 1) + 1 = k
        BY <1>1
      <4> QED BY <2>2, <4>1
    <3> QED BY <1>1, <3>1 DEF IsLast
  <2>4. LastExtension(F, i) = CHOOSE j \in i .. n : IsLast(F, i, j)
    BY <1>3 DEF LastExtension, IsLast
  <2> HIDE DEF T, n
  <2>5. \E j \in i .. n : IsLast(F, i, j)
    BY <2>3 DEF IsLast, n
  <2> QED BY <1>2, <2>4, <2>5
<1>4. CASE ~extended_flag
  <2>1. LastExtension(F, i) = i
    BY <1>4 DEF LastExtension
  <2>2. \A k \in 1 .. n : ~(F[k].len < NominalLength)
    <3>1. \A k \in DOMAIN OfBoard(b) : ~(OfBoard(b)[k].len < NominalLength)
      BY <1>4 DEF Listed
    <3> QED BY <1>1, <3>1 DEF Listed
  <2>3. IsLast(F, i, i)
    <3>1. i \in i .. n /\ i + 1 .. i = {} /\ (i < n => i + 1 \in 1 .. n)
      BY <1>1
    <3> QED BY <2>2, <3>1 DEF IsLast, IsExtension, FragLen
  <2> QED BY <1>2, <2>1, <2>3
<1> QED BY <1>3, <1>4

(* The samples of a fragment, and of those that are combined with it.      *)
LEMMA SamplesOfFragment ==
  ASSUME NEW f, f.end \in Nat, f.len \in Nat
  PROVE  /\ SamplesOf(f) \in Seq(Int) /\ Len(SamplesOf(f)) = f.len
         /\ \A i \in 1 .. f.len : SamplesOf(f)[i] = f.end - 2 * f.len + 2 * (i - 1)
<1> DEFINE e == f.end
           l == f.len
<1>1. e \in Int /\ l \in Nat
  OBVIOUS
<1>2. SamplesOf(f) = [i \in 1 .. l |-> e - 2 * l + 2 * (i - 1)]
  BY DEF SamplesOf
<1> HIDE DEF e, l
<1>3. \A i \in 1 .. l : e - 2 * l + 2 * (i - 1) \in Int
  BY <1>1
<1>4. SamplesOf(f) \in [1 .. l -> Int]
  BY <1>2, <1>3
<1>5. SamplesOf(f) \in Seq(Int) /\ Len(SamplesOf(f)) = l
  BY <1>1, <1>4
<1>6. \A i \in 1 .. l : SamplesOf(f)[i] = e - 2 * l + 2 * (i - 1)
  BY <1>2
<1> QED BY <1>5, <1>6 DEF e, l

PartsOf(F, i) == [k \in 1 .. LastExtension(F, i) - i + 1 |-> SamplesOf(F[i + k - 1])]

(* A waveform is put together of the samples of a fragment and its         *)
(* extensions.                                                             *)
LEMMA PartsTyped ==
  ASSUME DecodeInv, Listed, NEW b \in Boards, NEW F, F = board_frag_v[b], OwnFragments(F, readout),
         IsReadout(readout), NEW i \in 1 .. Len(F)
  PROVE  /\ IsLast(F, i, LastExtension(F, i))
         /\ PartsOf(F, i) \in Seq(Seq(Int)) /\ Combined(F, i) = FlattenSeq(PartsOf(F, i))
         /\ Len(PartsOf(F, i)) = LastExtension(F, i) - i + 1 /\ Len(PartsOf(F, i)) \in Nat \ {0}
         /\ \A k \in 1 .. Len(PartsOf(F, i)) :
              /\ i + k - 1 \in 1 .. Len(F) /\ PartsOf(F, i)[k] = SamplesOf(F[i + k - 1])
              /\ Len(PartsOf(F, i)[k]) = F[i + k - 1].len /\ PartsOf(F, i)[k] \in Seq(Int)
<1> DEFINE j == LastExtension(F, i)
           n == j - i + 1
<1>1. F \in Seq(Frag) /\ Len(F) \in Nat
  <2>1. F \in Seq(Frag)
    BY DEF OwnFragments
  <2> HIDE DEF Frag
  <2> QED BY <2>1
<1>2. IsLast(F, i, j)
  BY <1>1, ExtendedToTheLast
<1> HIDE DEF j
<1>3. j \in i .. Len(F) /\ n \in Nat \ {0} /\ \A k \in 1 .. n : i + k - 1 \in 1 .. Len(F)
  BY <1>1, <1>2 DEF IsLast
<1>4. PartsOf(F, i) = [k \in 1 .. n |-> SamplesOf(F[i + k - 1])]
  BY DEF PartsOf, j
<1> HIDE DEF n
<1>5. ASSUME NEW k \in 1 .. n
      PROVE  SamplesOf(F[i + k - 1]) \in Seq(Int) /\ Len(SamplesOf(F[i + k - 1])) = F[i + k - 1].len
  <2>1. PICK m, l : IsPiece(F[i + k - 1], readout, m, l)
    BY <1>3 DEF OwnFragments
  <2>2. F[i + k - 1].end \in Nat /\ F[i + k - 1].len \in Nat
    BY <2>1, FragmentOfTrigger
  <2> QED BY <2>2, SamplesOfFragment
<1>6. Combined(F, i) = FlattenSeq(PartsOf(F, i))
  BY DEF Combined, PartsOf
<1>7. PartsOf(F, i) \in Seq(Seq(Int)) /\ Len(PartsOf(F, i)) = n
  <2>1. PartsOf(F, i) \in [1 .. n -> Seq(Int)]
    BY <1>4, <1>5
  <2> QED BY <1>3, <2>1
<1> QED BY <1>2, <1>3, <1>4, <1>5, <1>6, <1>7 DEF n, j

(* The first sample of what is combined is the first of its fragment.      *)
LEMMA FirstSample ==
  ASSUME NEW parts \in Seq(Seq(Int)), Len(parts) # 0, Len(parts[1]) # 0
  PROVE  FlattenSeq(parts)[1] = parts[1][1]
<1>1. PICK off : Positions(off, parts)
  BY FlattenPositions
<1>2. 1 \in 1 .. Len(parts) /\ 1 \in 1 .. Len(parts[1]) /\ 1 - 1 = 0 /\ 0 + 1 = 1
  OBVIOUS
<1>3. off[0] = 0 /\ FlattenSeq(parts)[off[1 - 1] + 1] = parts[1][1]
  BY <1>1, <1>2 DEF Positions
<1> QED BY <1>2, <1>3

(* A waveform's time is its distance from the reference, for all readouts, *)
(* in whatever seconds the two are.                                        *)
THEOREM TimesAreDistances == Spec => []TimesAreRelative
<1>1. DecodeInv => TimesAreRelative
  <2> SUFFICES ASSUME DecodeInv, readout.frame = "shifted", EventTriggerTime # 0, NEW w \in Decoded,
                      Distance(w.samples[1], readout.ref) < AllowedTimeDiff
               PROVE  w.time = w.samples[1] - readout.ref
    BY DEF TimesAreRelative
  <2>1. IsReadout(readout) /\ HasLists /\ Listed
    BY DecodedFrom
  <2>2a. PICK b \in Boards : \E i \in Starts(b) :
           /\ OwnFragments(board_frag_v[b], readout)
           /\ w.time = TimeDiff(WfmStart(board_frag_v[b][i]))
           /\ w.samples = Combined(board_frag_v[b], i)
    BY DecodedFrom
  <2>2. PICK i \in Starts(b) :
          /\ OwnFragments(board_frag_v[b], readout)
          /\ w.time = TimeDiff(WfmStart(board_frag_v[b][i]))
          /\ w.samples = Combined(board_frag_v[b], i)
    BY <2>2a
  <2> DEFINE F == board_frag_v[b]
             f == F[i]
  <2>3. i \in 1 .. Len(F) /\ f.len >= NominalLength
    <3>1. F \in Seq(Frag)
      BY <2>2 DEF OwnFragments
    <3>2. DOMAIN F = 1 .. Len(F)
      <4> HIDE DEF Frag
      <4> QED BY <3>1
    <3> QED BY <3>2 DEF Starts
  <2>4. PICK n, k : IsPiece(f, readout, n, k)
    BY <2>2, <2>3 DEF OwnFragments
  <2>5. f.end \in Nat /\ f.len \in Nat /\ 2 * f.len < Second /\ f.len # 0
    <3> HIDE DEF f
    <3>1. NominalLength \in Nat \ {0}
      BY DecoderAssumption
    <3>2. f.end \in Nat /\ f.len \in Nat /\ 2 * f.len < Second
      BY <2>1, <2>4, FragmentOfTrigger
    <3> QED BY <2>3, <3>1, <3>2
  <2>6. w.samples[1] = f.end - 2 * f.len
    <3>1. /\ PartsOf(F, i) \in Seq(Seq(Int)) /\ Combined(F, i) = FlattenSeq(PartsOf(F, i))
          /\ Len(PartsOf(F, i)) \in Nat \ {0}
          /\ \A m \in 1 .. Len(PartsOf(F, i)) : PartsOf(F, i)[m] = SamplesOf(F[i + m - 1])
      BY <2>1, <2>2, <2>3, PartsTyped
    <3>2. PartsOf(F, i)[1] = SamplesOf(f)
      <4>1. 1 \in 1 .. Len(PartsOf(F, i)) /\ i + 1 - 1 = i
        BY <2>3, <3>1
      <4> QED BY <3>1, <4>1
    <3>3. Len(SamplesOf(f)) = f.len /\ SamplesOf(f)[1] = f.end - 2 * f.len
      <4> HIDE DEF f
      <4>1. 1 \in 1 .. f.len
        BY <2>5
      <4>2. SamplesOf(f)[1] = f.end - 2 * f.len + 2 * (1 - 1) /\ Len(SamplesOf(f)) = f.len
        BY <2>5, <4>1, SamplesOfFragment
      <4> QED BY <2>5, <4>2
    <3>4. FlattenSeq(PartsOf(F, i))[1] = PartsOf(F, i)[1][1]
      BY <2>5, <3>1, <3>2, <3>3, FirstSample
    <3> QED BY <2>2, <3>1, <3>2, <3>3, <3>4
  <2> HIDE DEF f
  <2>7. w.time = TimeDiff((f.end - 2 * f.len) % Second)
    <3>1. WfmStart(f) = (f.end - 2 * f.len) % Second
      BY <2>5, StartOfWaveform
    <3> QED BY <2>2, <3>1 DEF f
  <2>8. readout.ref \in Nat /\ readout.frame # "none"
    BY <2>1 DEF IsReadout
  <2>9. f.end - 2 * f.len \in Int
    BY <2>5
  <2> QED BY <2>6, <2>7, <2>8, <2>9, CorrectedDifference
<1> QED BY <1>1, DecodeInvHolds, PTL

-----------------------------------------------------------------------------
(* All ends in a readout are within one second.                            *)
LEMMA WithinASecond ==
  ASSUME NEW r, IsReadout(r), NEW f, NEW n, NEW k, IsPiece(f, r, n, k),
         NEW g, NEW m, NEW l, IsPiece(g, r, m, l)
  PROVE  f.end - g.end < Second
<1> DEFINE ts == r.triggers
           all == FlattenSeq(ts)
<1>1. ts \in Seq(Seq(Piece)) /\ \A i, j \in DOMAIN all : all[i].end - all[j].end < Second
  BY DEF IsReadout, Piece
<1>2. /\ n \in 1 .. Len(ts) /\ k \in 1 .. Len(ts[n]) /\ f.end = ts[n][k].end
      /\ m \in 1 .. Len(ts) /\ l \in 1 .. Len(ts[m]) /\ g.end = ts[m][l].end
  BY DEF IsPiece
<1> HIDE DEF ts, all, Piece
<1>3. PICK off : Positions(off, ts)
  BY <1>1, FlattenPositions
<1>4. /\ all \in Seq(Piece) /\ Len(all) = off[Len(ts)] /\ InPositions(off, ts)
      /\ off \in [0 .. Len(ts) -> Nat] /\ Len(ts) \in Nat
  <2>1. all \in Seq(Piece)
    BY <1>1, Flattened DEF all
  <2>2. Len(all) = off[Len(ts)] /\ off \in [0 .. Len(ts) -> Nat]
    BY <1>3 DEF Positions, all
  <2> QED BY <1>1, <1>3, <2>1, <2>2, PositionsCover
<1>5. ASSUME NEW a \in 1 .. Len(ts), NEW b \in 1 .. Len(ts[a])
      PROVE  off[a - 1] + b \in DOMAIN all /\ all[off[a - 1] + b] = ts[a][b]
  <2>1. off[a] = off[a - 1] + Len(ts[a]) /\ all[off[a - 1] + b] = ts[a][b]
    BY <1>3 DEF Positions, all
  <2>2. off[a - 1] \in Nat /\ off[a] \in Nat /\ off[a] <= off[Len(ts)] /\ off[Len(ts)] \in Nat
    <3>1. a - 1 \in 0 .. Len(ts) /\ a \in 0 .. Len(ts) /\ Len(ts) \in 0 .. Len(ts) /\ a <= Len(ts)
      BY <1>4
    <3> QED BY <1>4, <3>1 DEF InPositions
  <2>3. Len(ts[a]) \in Nat
    BY <1>1
  <2>4. off[a - 1] + b \in 1 .. off[Len(ts)]
    BY <2>1, <2>2, <2>3
  <2> QED BY <1>4, <2>1, <2>4
<1> QED BY <1>1, <1>2, <1>5

(* A recognised extension ends within the window of what it extends, also  *)
(* over the end of a second, and so is of the same trigger.                *)
LEMMA ExtensionFollows ==
  ASSUME NEW r, IsReadout(r), NEW prev, NEW n, NEW k, IsPiece(prev, r, n, k),
         NEW frag, NEW m, NEW l, IsPiece(frag, r, m, l),
         prev.end < frag.end, IsExtension(prev, frag)
  PROVE  m = n /\ frag.end < prev.end + Window
<1> DEFINE e == prev.end
           f == frag.end
           pe == e % Second
           fe == f % Second
<1>1. e \in Nat /\ f \in Nat /\ e < f /\ f - e < Second
  BY FragmentOfTrigger, WithinASecond
<1>2. \/ pe < Second - Window /\ fe >= pe /\ fe - pe < Window
      \/ pe > Second - Window /\ fe < Window /\ fe + Second - pe < Window
  BY DEF IsExtension, TttCheck, Ttt
<1>3. Second \in Nat \ {0} /\ Window \in Nat /\ 2 * Window < Second
  BY DecoderAssumption DEF Window
<1> HIDE DEF e, f
<1>4. /\ pe \in 0 .. Second - 1 /\ fe \in 0 .. Second - 1
      /\ f - e = fe - pe \/ f - e = fe - pe + Second \/ f - e = fe - pe - Second
  <2>1. f - e < Second /\ e - f < Second /\ e \in Int /\ f \in Int
    BY <1>1, <1>3
  <2> QED BY <1>3, <2>1, TagsOfTimes
<1> HIDE DEF pe, fe
<1>5. f - e < Window
  BY <1>1, <1>2, <1>3, <1>4
<1>6. /\ n \in 1 .. Len(r.triggers) /\ k \in 1 .. Len(r.triggers[n]) /\ e = r.triggers[n][k].end
      /\ m \in 1 .. Len(r.triggers) /\ l \in 1 .. Len(r.triggers[m]) /\ f = r.triggers[m][l].end
  BY DEF IsPiece, e, f
<1>7. Len(r.triggers) \in Nat
  BY <1>6
<1>8. ~(m < n)
  <2> SUFFICES ASSUME m < n PROVE FALSE
    OBVIOUS
  <2>1. m \in 1 .. n - 1
    BY <1>6
  <2>2. e >= f + Window
    BY <1>6, <2>1, TriggersApart
  <2> QED BY <1>1, <1>3, <2>2
<1>9. ~(n < m)
  <2> SUFFICES ASSUME n < m PROVE FALSE
    OBVIOUS
  <2>1. n \in 1 .. m - 1
    BY <1>6
  <2>2. f >= e + Window
    BY <1>6, <2>1, TriggersApart
  <2> QED BY <1>1, <1>3, <1>5, <2>2
<1>10. m = n
  BY <1>6, <1>8, <1>9
<1>11. f < e + Window
  BY <1>1, <1>3, <1>5
<1> QED BY <1>10, <1>11 DEF e, f

(* What is combined are pieces of one trigger, the first one to begin with.*)
LEMMA CombinedPieces ==
  ASSUME NEW r, IsReadout(r), NEW F, OwnFragments(F, r), NEW i \in 1 .. Len(F),
         F[i].len >= NominalLength, NEW j, IsLast(F, i, j)
  PROVE  \E n : IsPiece(F[i], r, n, 1) /\ \A x \in i .. j : \E k : IsPiece(F[x], r, n, k)
<1>1. F \in Seq(Frag) /\ Len(F) \in Nat
  <2>1. F \in Seq(Frag)
    BY DEF OwnFragments
  <2> HIDE DEF Frag
  <2> QED BY <2>1
<1>2. \E n : \E k : IsPiece(F[i], r, n, k)
  BY DEF OwnFragments
<1>3. PICK n : \E k : IsPiece(F[i], r, n, k)
  BY <1>2
<1>4. IsPiece(F[i], r, n, 1)
  <2>1. PICK k : IsPiece(F[i], r, n, k)
    BY <1>3
  <2>2. k = 1
    BY <2>1, FragmentOfTrigger
  <2> QED BY <2>1, <2>2
<1>5. j \in i .. Len(F) /\ \A x \in i + 1 .. j : IsExtension(F[x - 1], F[x])
  BY DEF IsLast
<1> DEFINE Good(x) == \E k : IsPiece(F[x], r, n, k)
           T == {x \in 0 .. j : i <= x /\ ~Good(x)}
<1>6. T = {}
  <2> SUFFICES ASSUME T # {} PROVE FALSE
    OBVIOUS
  <2>0. j \in Nat
    BY <1>1, <1>5
  <2>1. PICK x \in T : \A y \in 0 .. j : y < x => y \notin T
    <3>1. T \subseteq 0 .. j
      OBVIOUS
    <3> HIDE DEF T
    <3> QED BY <2>0, <3>1, LeastOf
  <2>2. x # i
    BY <1>3, <2>1
  <2>3. /\ x \in i + 1 .. j /\ x \in 1 .. Len(F) /\ x - 1 \in 1 .. Len(F) /\ x - 1 \in 0 .. j
        /\ x - 1 < x /\ i <= x - 1
    BY <1>1, <1>5, <2>0, <2>1, <2>2
  <2>4. Good(x - 1)
    BY <2>1, <2>3
  <2>5. F[x - 1].end < F[x].end
    BY <2>3 DEF OwnFragments
  <2>6. PICK k : IsPiece(F[x - 1], r, n, k)
    BY <2>4
  <2>7. PICK m : \E l : IsPiece(F[x], r, m, l)
    BY <2>3 DEF OwnFragments
  <2>8. PICK l : IsPiece(F[x], r, m, l)
    BY <2>7
  <2>9. IsExtension(F[x - 1], F[x])
    BY <1>5, <2>3
  <2>10. m = n
    BY <2>5, <2>6, <2>8, <2>9, ExtensionFollows
  <2> QED BY <2>1, <2>8, <2>10
<1>7. \A x \in i .. j : Good(x)
  <2>1. \A x \in i .. j : x \in 0 .. j /\ i <= x
    BY <1>1, <1>5
  <2> QED BY <1>6, <2>1
<1> QED BY <1>4, <1>7

(* The samples of a fragment go up, from its beginning to before its end.  *)
LEMMA FragmentGoesUp ==
  ASSUME NEW f, f.end \in Nat, f.len \in Nat, f.len # 0
  PROVE  /\ GoesUp(SamplesOf(f)) /\ Len(SamplesOf(f)) = f.len
         /\ SamplesOf(f)[1] = f.end - 2 * f.len /\ SamplesOf(f)[f.len] < f.end
<1> DEFINE e == f.end
           l == f.len
           s == SamplesOf(f)
<1>1. e \in Nat /\ l \in Nat /\ l # 0 /\ Len(s) = l /\ \A i \in 1 .. l : s[i] = e - 2 * l + 2 * (i - 1)
  BY SamplesOfFragment
<1> HIDE DEF e, l, s
<1>2. ASSUME NEW i \in 2 .. l PROVE s[i - 1] < s[i]
  <2>1. i \in 1 .. l /\ i - 1 \in 1 .. l
    BY <1>1
  <2>2. s[i] = e - 2 * l + 2 * (i - 1) /\ s[i - 1] = e - 2 * l + 2 * ((i - 1) - 1)
    BY <1>1, <2>1
  <2> QED BY <1>1, <2>2
<1>3. s[1] = e - 2 * l /\ s[l] < e
  <2>1. 1 \in 1 .. l /\ l \in 1 .. l
    BY <1>1
  <2>2. s[1] = e - 2 * l + 2 * (1 - 1) /\ s[l] = e - 2 * l + 2 * (l - 1)
    BY <1>1, <2>1
  <2> QED BY <1>1, <2>2
<1> QED BY <1>1, <1>2, <1>3 DEF GoesUp, e, l, s

(* Fragments of one trigger, in the order of their ends, follow each other.*)
LEMMA PiecesFollow ==
  ASSUME NEW r, IsReadout(r), NEW f, NEW g, NEW n, NEW k, IsPiece(f, r, n, k),
         NEW l, IsPiece(g, r, n, l), f.end < g.end
  PROVE  k < l /\ f.end <= g.end - 2 * g.len
<1> DEFINE t == r.triggers[n]
<1>1. /\ k \in 1 .. Len(t) /\ l \in 1 .. Len(t) /\ f.end = t[k].end /\ g.end = t[l].end /\ g.len = t[l].len
      /\ IsTrigger(t)
  <2>1. IsTrigger(t)
    BY FragmentOfTrigger
  <2> QED BY <2>1 DEF IsPiece
<1> HIDE DEF t
<1>2. /\ \A x \in 1 .. Len(t) : t[x].end \in Nat /\ t[x].len \in 1 .. NominalLength
      /\ \A x, y \in 1 .. Len(t) : x < y => t[y].end - 2 * t[y].len >= t[x].end
  BY <1>1, PiecesOfTrigger
<1>3. NominalLength \in Nat
  BY DecoderAssumption
<1> DEFINE a == t[k].end
           b == t[l].end
           c == t[k].len
           d == t[l].len
<1>4. /\ a \in Nat /\ b \in Nat /\ c \in Nat /\ d \in Nat /\ a < b /\ c \in 1 .. NominalLength
      /\ l < k => a - 2 * c >= b
      /\ k < l => b - 2 * d >= a
      /\ k = l => a = b
  BY <1>1, <1>2, <1>3
<1> HIDE DEF a, b, c, d
<1>5. k < l /\ a <= b - 2 * d
  BY <1>1, <1>4
<1> QED BY <1>1, <1>5 DEF a, b, d

(* Whatever fragments were lost, a waveform is of one trigger.             *)
LEMMA SamplesOfOneTrigger ==
  ASSUME DecodeInv, NEW w \in Decoded
  PROVE  OfOneTrigger(w)
<1> DEFINE r == readout
<1>1. IsReadout(r) /\ HasLists /\ Listed
  BY DecodedFrom
<1>2. PICK b \in Boards : \E i \in Starts(b) :
        OwnFragments(board_frag_v[b], r) /\ w.samples = Combined(board_frag_v[b], i)
  BY DecodedFrom
<1>3. PICK i \in Starts(b) :
        OwnFragments(board_frag_v[b], r) /\ w.samples = Combined(board_frag_v[b], i)
  BY <1>2
<1> DEFINE F == board_frag_v[b]
           j == LastExtension(F, i)
           parts == PartsOf(F, i)
           N == Len(parts)
<1>4. i \in 1 .. Len(F) /\ F[i].len >= NominalLength /\ Len(F) \in Nat
  <2>1. F \in Seq(Frag)
    BY <1>3 DEF OwnFragments
  <2>2. DOMAIN F = 1 .. Len(F) /\ Len(F) \in Nat
    <3> HIDE DEF Frag
    <3> QED BY <2>1
  <2> QED BY <2>2 DEF Starts
<1>5. /\ IsLast(F, i, j) /\ parts \in Seq(Seq(Int)) /\ Combined(F, i) = FlattenSeq(parts)
      /\ N = j - i + 1 /\ N \in Nat \ {0}
      /\ \A x \in 1 .. N : i + x - 1 \in 1 .. Len(F) /\ parts[x] = SamplesOf(F[i + x - 1])
  BY <1>1, <1>3, <1>4, PartsTyped
<1> HIDE DEF F, j, parts
<1>6. PICK n : IsPiece(F[i], r, n, 1) /\ \A x \in i .. j : \E k : IsPiece(F[x], r, n, k)
  <2>1. OwnFragments(F, r)
    BY <1>3 DEF F
  <2> QED BY <1>1, <1>4, <1>5, <2>1, CombinedPieces
<1> DEFINE t == r.triggers[n]
           all == [k \in 1 .. Len(t) |-> SamplesOf(t[k])]
<1>7. IsTrigger(t) /\ t \in ToSet(r.triggers)
  BY <1>1, <1>6, FragmentOfTrigger
<1>8. /\ Len(t) \in Nat \ {0}
      /\ \A k \in 1 .. Len(t) : t[k].end \in Nat /\ t[k].len \in Nat /\ t[k].len # 0
  <2> HIDE DEF t
  <2>1. Len(t) \in Nat \ {0} /\ \A k \in 1 .. Len(t) : t[k].end \in Nat /\ t[k].len \in 1 .. NominalLength
    BY <1>7, PiecesOfTrigger
  <2>2. NominalLength \in Nat
    BY DecoderAssumption
  <2> QED BY <2>1, <2>2
<1>9. ASSUME NEW x \in 1 .. N
      PROVE  /\ F[i + x - 1].end \in Nat /\ F[i + x - 1].len \in Nat /\ F[i + x - 1].len # 0
             /\ \E k \in 1 .. Len(t) : IsPiece(F[i + x - 1], r, n, k) /\ parts[x] = all[k]
  <2>1. i + x - 1 \in i .. j
    <3>1. j \in Int /\ i \in Int
      BY <1>4, <1>5 DEF IsLast
    <3> QED BY <1>5, <3>1
  <2>2. PICK k : IsPiece(F[i + x - 1], r, n, k)
    BY <1>6, <2>1
  <2>3. k \in 1 .. Len(t) /\ F[i + x - 1].end = t[k].end /\ F[i + x - 1].len = t[k].len
    BY <2>2 DEF IsPiece
  <2>4. SamplesOf(F[i + x - 1]) = SamplesOf(t[k])
    BY <2>3 DEF SamplesOf
  <2> QED BY <1>5, <1>8, <2>2, <2>3, <2>4
<1>10. F[i + 1 - 1] = F[i] /\ 1 \in 1 .. N
  BY <1>4, <1>5
<1>11. parts[1] = SamplesOf(t[1]) /\ Len(parts[1]) # 0
  <2>1. parts[1] = SamplesOf(F[i])
    BY <1>5, <1>10
  <2>2. 1 \in 1 .. Len(t) /\ F[i].end = t[1].end /\ F[i].len = t[1].len
    BY <1>6 DEF IsPiece
  <2>3. SamplesOf(F[i]) = SamplesOf(t[1])
    BY <2>2 DEF SamplesOf
  <2>4. Len(SamplesOf(t[1])) = t[1].len /\ t[1].len # 0
    BY <1>8, <2>2, SamplesOfFragment
  <2> QED BY <2>1, <2>3, <2>4
<1>12. w.samples[1] = SamplesOf(t[1])[1]
  <2>1. FlattenSeq(parts)[1] = parts[1][1]
    BY <1>5, <1>11, FirstSample
  <2> QED BY <1>3, <1>5, <1>11, <2>1 DEF F
<1>13. ToSet(w.samples) \subseteq ToSet(TimesOf(t, Len(t)))
  <2>1. all \in Seq(Seq(Int)) /\ Len(all) = Len(t)
    <3>1. \A k \in 1 .. Len(t) : SamplesOf(t[k]) \in Seq(Int)
      BY <1>8, SamplesOfFragment
    <3>2. all \in [1 .. Len(t) -> Seq(Int)]
      BY <3>1
    <3> HIDE DEF all
    <3> QED BY <1>8, <3>2
  <2>2. TimesOf(t, Len(t)) = FlattenSeq(all)
    BY DEF TimesOf
  <2>3. ToSet(FlattenSeq(all)) = UNION {ToSet(all[k]) : k \in 1 .. Len(t)}
    <3> HIDE DEF all
    <3> QED BY <2>1, Flattened
  <2>4. ToSet(FlattenSeq(parts)) = UNION {ToSet(parts[k]) : k \in 1 .. N}
    BY <1>5, Flattened
  <2>5. \A x \in 1 .. N : \E k \in 1 .. Len(t) : parts[x] = all[k]
    BY <1>9
  <2> HIDE DEF all
  <2>6. w.samples = FlattenSeq(parts)
    BY <1>3, <1>5 DEF F
  <2> QED BY <2>2, <2>3, <2>4, <2>5, <2>6
<1>14. GoesUp(w.samples)
  <2>1. ASSUME NEW x \in 1 .. N
        PROVE  /\ Len(parts[x]) # 0 /\ GoesUp(parts[x])
               /\ x > 1 => parts[x - 1][Len(parts[x - 1])] < parts[x][1]
    <3> DEFINE f == F[i + x - 1]
    <3>1. f.end \in Nat /\ f.len \in Nat /\ f.len # 0 /\ parts[x] = SamplesOf(f)
      BY <1>5, <1>9
    <3>2. GoesUp(parts[x]) /\ Len(parts[x]) = f.len /\ parts[x][1] = f.end - 2 * f.len
      <4> HIDE DEF f
      <4> QED BY <3>1, FragmentGoesUp
    <3>3. ASSUME x > 1 PROVE parts[x - 1][Len(parts[x - 1])] < parts[x][1]
      <4>1. x - 1 \in 1 .. N /\ i + x - 1 \in 1 .. Len(F) /\ i + (x - 1) - 1 \in 1 .. Len(F)
            /\ i + (x - 1) - 1 < i + x - 1
        <5>1. x - 1 \in 1 .. N
          BY <1>5, <3>3
        <5> QED BY <1>4, <1>5, <5>1
      <4> DEFINE g == F[i + (x - 1) - 1]
      <4>2. g.end \in Nat /\ g.len \in Nat /\ g.len # 0 /\ parts[x - 1] = SamplesOf(g)
        BY <1>5, <1>9, <4>1
      <4>3. Len(parts[x - 1]) = g.len /\ parts[x - 1][g.len] < g.end
        <5> HIDE DEF g
        <5> QED BY <4>2, FragmentGoesUp
      <4>4. g.end < f.end
        BY <1>3, <4>1 DEF OwnFragments, F
      <4>5. PICK k : IsPiece(f, r, n, k)
        BY <1>9
      <4>6. PICK l : IsPiece(g, r, n, l)
        BY <1>9, <4>1
      <4> HIDE DEF f, g
      <4>7. g.end <= f.end - 2 * f.len
        BY <1>1, <4>4, <4>5, <4>6, PiecesFollow
      <4>8. parts[x - 1][g.len] \in Int
        <5>1. parts[x - 1] \in Seq(Int) /\ g.len \in 1 .. Len(parts[x - 1])
          BY <1>5, <4>1, <4>2, <4>3
        <5> QED BY <5>1
      <4> DEFINE p == parts[x - 1][g.len]
                 q == parts[x][1]
                 c == g.end
                 d == f.end - 2 * f.len
      <4>9. p \in Int /\ q = d /\ c \in Int /\ d \in Int /\ p < c /\ c <= d
        BY <3>1, <3>2, <4>2, <4>3, <4>7, <4>8
      <4> HIDE DEF p, q, c, d
      <4>10. p < q
        BY <4>9
      <4> QED BY <4>3, <4>10 DEF p, q
    <3> QED BY <3>1, <3>2, <3>3
  <2>2. GoOn(parts)
    BY <2>1 DEF GoOn
  <2>3. w.samples = FlattenSeq(parts)
    BY <1>3, <1>5 DEF F
  <2> QED BY <1>5, <2>2, <2>3, FlattenGoesUp
<1> QED BY <1>7, <1>12, <1>13, <1>14 DEF OfOneTrigger, GoesUp

-----------------------------------------------------------------------------
(* With nothing lost: where the triggers' fragments are in a board's list. *)
Off == CHOOSE off : Positions(off, readout.triggers)
Complete(F) ==
  /\ F \in Seq(Frag) /\ Len(F) = Off[Len(readout.triggers)]
  /\ \A n \in 1 .. Len(readout.triggers) : \A k \in 1 .. Len(readout.triggers[n]) :
       IsPiece(F[Off[n - 1] + k], readout, n, k) /\ F[Off[n - 1] + k].ftrig

(* The triggers' places follow one another and cover a complete list.      *)
LEMMA TriggersLieAt ==
  ASSUME IsReadout(readout)
  PROVE  LET ts == readout.triggers
             N  == Len(ts)
         IN /\ N \in Nat /\ DOMAIN ts = 1 .. N
            /\ \A n \in 1 .. N : IsTrigger(ts[n]) /\ Len(ts[n]) \in Nat \ {0}
            /\ Positions(Off, ts) /\ InPositions(Off, ts)
            /\ \A n \in 0 .. N : Off[n] \in Nat
            /\ \A m, n \in 0 .. N : m < n => Off[m] < Off[n]
<1> DEFINE ts == readout.triggers
           N == Len(ts)
<1>1. ts \in Seq(Seq(Piece)) /\ \A n \in DOMAIN ts : IsTrigger(ts[n])
  BY DEF IsReadout, Piece
<1>2. N \in Nat /\ DOMAIN ts = 1 .. N
  <2> HIDE DEF Piece, ts
  <2> QED BY <1>1
<1>3. Positions(Off, ts)
  <2>1. \E off : Positions(off, ts)
    <3> HIDE DEF Piece, ts
    <3> QED BY <1>1, FlattenPositions
  <2> QED BY <2>1 DEF Off
<1>4. InPositions(Off, ts)
  <2> HIDE DEF Piece, ts
  <2> QED BY <1>1, <1>3, PositionsCover
<1>5. \A n \in 1 .. N : IsTrigger(ts[n]) /\ Len(ts[n]) \in Nat \ {0}
  <2> HIDE DEF Piece, ts
  <2>1. \A n \in 1 .. N : IsTrigger(ts[n])
    BY <1>1, <1>2
  <2> QED BY <2>1, PiecesOfTrigger
<1> HIDE DEF ts, N
<1>6. /\ \A n \in 0 .. N : Off[n] \in Nat
      /\ \A n \in 1 .. N : Off[n] = Off[n - 1] + Len(ts[n])
  BY <1>3 DEF Positions, N
<1>7. ASSUME NEW m \in 0 .. N, NEW n \in 0 .. N, m < n PROVE Off[m] < Off[n]
  <2>1. m + 1 \in 1 .. N /\ m + 1 \in 0 .. N /\ m + 1 <= n /\ (m + 1) - 1 = m
    BY <1>2, <1>7
  <2>2. Off[m + 1] <= Off[n]
    BY <1>4, <2>1 DEF InPositions, N
  <2>3. Off[m + 1] = Off[m] + Len(ts[m + 1]) /\ Len(ts[m + 1]) \in Nat \ {0}
    BY <1>5, <1>6, <2>1
  <2>4. Off[m] \in Nat /\ Off[n] \in Nat /\ Off[m + 1] \in Nat
    BY <1>6, <2>1
  <2> QED BY <2>2, <2>3, <2>4
<1> QED BY <1>2, <1>3, <1>4, <1>5, <1>6, <1>7 DEF N, ts

(* A board that lost no fragment has each trigger's fragments at their     *)
(* places.                                                                 *)
LEMMA CompleteBoard ==
  ASSUME IsReadout(readout), Listed, HasAll, NEW b \in Boards
  PROVE  OwnFragments(board_frag_v[b], readout) /\ Complete(board_frag_v[b])
<1> DEFINE ts == readout.triggers
           all == FlattenSeq(ts)
           F == FragsOf(readout.frags, b)
<1>1. board_frag_v[b] = F
  BY DEF Listed, OfBoard, HasAll
<1>2. OwnFragments(F, readout)
  BY FragmentsOfBoard
<1>3. /\ Len(F) = Len(all)
      /\ \A k \in DOMAIN F : F[k].end = all[k].end /\ F[k].len = all[k].len /\ F[k].ftrig
  BY DEF IsReadout, HasAll
<1> HIDE DEF F
<1>4. /\ Len(ts) \in Nat /\ Positions(Off, ts) /\ \A n \in 0 .. Len(ts) : Off[n] \in Nat
      /\ InPositions(Off, ts) /\ \A n \in 1 .. Len(ts) : Len(ts[n]) \in Nat
  BY TriggersLieAt
<1>5. F \in Seq(Frag) /\ DOMAIN F = 1 .. Len(F) /\ Len(F) = Off[Len(ts)]
  <2>1. F \in Seq(Frag)
    BY <1>2 DEF OwnFragments
  <2>2. DOMAIN F = 1 .. Len(F)
    <3> HIDE DEF Frag
    <3> QED BY <2>1
  <2> QED BY <1>3, <1>4, <2>1, <2>2 DEF Positions
<1>6. ASSUME NEW n \in 1 .. Len(ts), NEW k \in 1 .. Len(ts[n])
      PROVE  IsPiece(F[Off[n - 1] + k], readout, n, k) /\ F[Off[n - 1] + k].ftrig
  <2>1. Off[n] = Off[n - 1] + Len(ts[n]) /\ all[Off[n - 1] + k] = ts[n][k]
    BY <1>4 DEF Positions
  <2>2. Off[n] <= Off[Len(ts)] /\ Off[n] \in Nat /\ Off[n - 1] \in Nat /\ Off[Len(ts)] \in Nat
    <3>1. n \in 0 .. Len(ts) /\ Len(ts) \in 0 .. Len(ts) /\ n <= Len(ts) /\ n - 1 \in 0 .. Len(ts)
      BY <1>4
    <3> QED BY <1>4, <3>1 DEF InPositions
  <2> DEFINE p == Off[n - 1] + k
  <2>3. p \in 1 .. Len(F)
    <3>1. Len(ts[n]) \in Nat /\ k \in 1 .. Len(ts[n]) /\ Len(F) = Off[Len(ts)]
      BY <1>4, <1>5
    <3> DEFINE l == Len(ts[n])
               m == Len(F)
               o == Off[n - 1]
    <3>2. l \in Nat /\ k \in 1 .. l /\ o \in Nat /\ o + l <= m /\ m \in Nat
      BY <2>1, <2>2, <3>1
    <3> HIDE DEF l, m, o
    <3>3. o + k \in 1 .. m
      BY <3>2
    <3> QED BY <3>3 DEF o, m
  <2>4. F[p].end = all[p].end /\ F[p].len = all[p].len /\ F[p].ftrig /\ all[p] = ts[n][k]
    BY <1>3, <1>5, <2>1, <2>3
  <2> QED BY <2>4 DEF IsPiece
<1> QED BY <1>1, <1>2, <1>5, <1>6 DEF Complete

(* The tags tell an extension of its trigger from one that is not          *)
(* recognised as the times do.                                             *)
LEMMA RecognisedExtension ==
  ASSUME NEW t, IsTrigger(t), NEW k \in 2 .. Len(t),
         NEW f, NEW g, f.end = t[k - 1].end, g.end = t[k].end, g.len = t[k].len
  PROVE  IsExtension(f, g) <=> Recognised(t[k - 1], t[k])
<1> DEFINE e == t[k - 1].end
           d == t[k].end
           l == t[k].len
<1>1. e \in Nat /\ d \in Nat /\ l \in 1 .. NominalLength - 1 /\ d = e + 2 * l
  <2>1. Len(t) \in Nat /\ \A x \in 1 .. Len(t) : t[x].end \in Nat
    BY PiecesOfTrigger
  <2>2. k - 1 \in 1 .. Len(t) /\ k \in 1 .. Len(t)
    BY <2>1
  <2>3. t[k].len \in 1 .. NominalLength - 1 /\ t[k].end = t[k - 1].end + 2 * t[k].len
    BY DEF IsTrigger
  <2> QED BY <2>1, <2>2, <2>3
<1>2. Second \in Nat \ {0} /\ Window \in Nat /\ 2 * Window < Second /\ NominalLength \in Nat /\ Window = 2 * NominalLength
  BY DecoderAssumption DEF Window
<1>3. IsExtension(f, g) <=> l < NominalLength /\ TttCheck(e % Second, d % Second)
  BY DEF IsExtension, FragLen, Ttt
<1>4. Recognised(t[k - 1], t[k]) <=> (e % Second >= Second - Window => d \div Second # e \div Second)
  BY DEF Recognised
<1> HIDE DEF e, d, l
<1> DEFINE pe == e % Second
           fe == d % Second
           p == e \div Second
           q == d \div Second
<1>5. d - e > 0 /\ d - e < Window /\ d - e < Second /\ e - d < Second
  BY <1>1, <1>2
<1>6. /\ pe \in 0 .. Second - 1 /\ fe \in 0 .. Second - 1
      /\ \/ p = q /\ d - e = fe - pe
         \/ p < q /\ d - e = fe - pe + Second
         \/ p > q /\ d - e = fe - pe - Second
  <2>1. e \in Int /\ d \in Int /\ d - e < Second /\ e - d < Second
    BY <1>1, <1>5
  <2> QED BY <1>2, <2>1, TagsOfTimes
<1>7. p \in Int /\ q \in Int
  BY <1>1, <1>2
<1>8. TttCheck(pe, fe) <=> \/ pe < Second - Window /\ fe >= pe /\ fe - pe < Window
                           \/ pe > Second - Window /\ fe < Window /\ fe + Second - pe < Window
  BY DEF TttCheck
<1> HIDE DEF pe, fe, p, q
<1>9. CASE p = q
  <2>1. d - e = fe - pe
    BY <1>6, <1>7, <1>9
  <2>2. TttCheck(pe, fe) <=> pe < Second - Window
    BY <1>1, <1>2, <1>5, <1>6, <1>8, <2>1
  <2>3. (pe >= Second - Window => q # p) <=> pe < Second - Window
    BY <1>2, <1>6, <1>9
  <2> QED BY <1>1, <1>2, <1>3, <1>4, <2>2, <2>3 DEF pe, fe, p, q
<1>10. CASE p # q
  <2>1. d - e = fe - pe + Second
    BY <1>1, <1>2, <1>5, <1>6, <1>7, <1>10
  <2>2. TttCheck(pe, fe)
    BY <1>1, <1>2, <1>5, <1>6, <1>8, <2>1
  <2> QED BY <1>1, <1>2, <1>3, <1>4, <1>10, <2>2 DEF pe, fe, p, q
<1> QED BY <1>9, <1>10

(* How many of a trigger's fragments are kept: up to one that is not       *)
(* recognised.                                                             *)
LEMMA KeptExists ==
  ASSUME NEW t, IsTrigger(t)
  PROVE  /\ Kept(t) \in 1 .. Len(t)
         /\ \A k \in 2 .. Kept(t) : Recognised(t[k - 1], t[k])
         /\ Kept(t) < Len(t) => ~Recognised(t[Kept(t)], t[Kept(t) + 1])
<1> DEFINE n == Len(t)
           Ends(m) == m < n => ~Recognised(t[m], t[m + 1])
           T == {m \in 0 .. n : m # 0 /\ Ends(m)}
           Is(m) == /\ \A k \in 2 .. m : Recognised(t[k - 1], t[k])
                    /\ m < Len(t) => ~Recognised(t[m], t[m + 1])
<1>1. n \in Nat \ {0} /\ DOMAIN t = 1 .. n
  BY PiecesOfTrigger
<1>2. n \in T
  BY <1>1
<1>3. PICK m \in T : \A k \in 0 .. n : k < m => k \notin T
  <2>1. T \subseteq 0 .. n /\ T # {}
    BY <1>2
  <2> HIDE DEF T, n
  <2> QED BY <1>1, <2>1, LeastOf
<1>4. m \in DOMAIN t /\ Is(m)
  <2>1. ASSUME NEW k \in 2 .. m PROVE Recognised(t[k - 1], t[k])
    <3>1. k - 1 \in 0 .. n /\ k - 1 # 0 /\ k - 1 < m /\ k - 1 < n /\ (k - 1) + 1 = k
      BY <1>1
    <3> QED BY <1>3, <3>1
  <2> QED BY <1>1, <1>3, <2>1
<1>5. Kept(t) = CHOOSE x \in DOMAIN t : Is(x)
  BY DEF Kept
<1> HIDE DEF Is, T
<1>6. Kept(t) \in DOMAIN t /\ Is(Kept(t))
  BY <1>4, <1>5
<1> QED BY <1>1, <1>6 DEF Is

(* Where fragments of triggers are, which of them begin a waveform, and    *)
(* which are combined.                                                     *)
LEMMA PieceLiesAt ==
  ASSUME IsReadout(readout), NEW F, Complete(F),
         NEW n \in 1 .. Len(readout.triggers), NEW k \in 1 .. Len(readout.triggers[n])
  PROVE  /\ Off[n - 1] + k \in 1 .. Len(F) /\ Off[n - 1] \in Nat /\ Off[n] \in Nat
         /\ Off[n] = Off[n - 1] + Len(readout.triggers[n]) /\ Off[n] <= Len(F)
         /\ F[Off[n - 1] + k].end = readout.triggers[n][k].end
         /\ F[Off[n - 1] + k].len = readout.triggers[n][k].len
         /\ F[Off[n - 1] + k].ftrig
<1> DEFINE ts == readout.triggers
<1>1. /\ Len(ts) \in Nat /\ Positions(Off, ts) /\ InPositions(Off, ts) /\ Len(ts[n]) \in Nat
      /\ \A m \in 0 .. Len(ts) : Off[m] \in Nat
  BY TriggersLieAt
<1>2. Len(F) = Off[Len(ts)] /\ IsPiece(F[Off[n - 1] + k], readout, n, k) /\ F[Off[n - 1] + k].ftrig
  BY DEF Complete
<1>3. Off[n] = Off[n - 1] + Len(ts[n])
  BY <1>1 DEF Positions
<1>4. Off[n] <= Off[Len(ts)] /\ Off[n] \in Nat /\ Off[n - 1] \in Nat /\ Off[Len(ts)] \in Nat
  <2>1. n \in 0 .. Len(ts) /\ Len(ts) \in 0 .. Len(ts) /\ n <= Len(ts) /\ n - 1 \in 0 .. Len(ts)
    BY <1>1
  <2> QED BY <1>1, <2>1 DEF InPositions
<1>5. Off[n - 1] + k \in 1 .. Len(F)
  <2> DEFINE l == Len(ts[n])
             m == Len(F)
             o == Off[n - 1]
  <2>1. l \in Nat /\ k \in 1 .. l /\ o \in Nat /\ o + l <= m /\ m \in Nat
    BY <1>1, <1>2, <1>3, <1>4
  <2> HIDE DEF l, m, o
  <2>2. o + k \in 1 .. m
    BY <2>1
  <2> QED BY <2>2 DEF o, m
<1> QED BY <1>2, <1>3, <1>4, <1>5 DEF IsPiece

(* In a complete list only a trigger's first fragment has the nominal      *)
(* length.                                                                 *)
LEMMA HeadsBegin ==
  ASSUME IsReadout(readout), NEW F, Complete(F), NEW p \in 1 .. Len(F)
  PROVE  /\ TimedLen(F[p]) = F[p].len
         /\ F[p].len >= NominalLength
              <=> \E n \in 1 .. Len(readout.triggers) : p = Off[n - 1] + 1
<1> DEFINE ts == readout.triggers
           N == Len(ts)
<1>1. /\ N \in Nat /\ InPositions(Off, ts) /\ Len(F) = Off[N]
      /\ \A n \in 1 .. N : IsTrigger(ts[n]) /\ Len(ts[n]) \in Nat \ {0}
  BY TriggersLieAt DEF Complete
<1>2. PICK m \in 1 .. N : \E k \in 1 .. Len(ts[m]) : p = Off[m - 1] + k
  BY <1>1 DEF InPositions
<1>3. PICK k \in 1 .. Len(ts[m]) : p = Off[m - 1] + k
  BY <1>2
<1> HIDE DEF ts, N
<1>4. F[p].len = ts[m][k].len /\ F[p].ftrig /\ Off[m - 1] \in Nat
  <2>1. m \in 1 .. Len(readout.triggers) /\ k \in 1 .. Len(readout.triggers[m])
    BY DEF ts, N
  <2> QED BY <1>3, <2>1, PieceLiesAt DEF ts
<1>5. ts[m][k].len >= NominalLength <=> k = 1
  <2>1. IsTrigger(ts[m])
    BY <1>1
  <2> QED BY <2>1, PiecesOfTrigger
<1>6. ASSUME NEW n \in 1 .. N, p = Off[n - 1] + 1 PROVE F[p].len >= NominalLength
  <2>1. 1 \in 1 .. Len(ts[n]) /\ IsTrigger(ts[n])
    BY <1>1
  <2>2. F[p].len = ts[n][1].len
    <3>1. n \in 1 .. Len(readout.triggers) /\ 1 \in 1 .. Len(readout.triggers[n])
      BY <2>1 DEF ts, N
    <3> QED BY <1>6, <3>1, PieceLiesAt DEF ts
  <2>3. ts[n][1].len >= NominalLength
    BY <2>1, PiecesOfTrigger
  <2> QED BY <2>2, <2>3
<1>7. TimedLen(F[p]) = F[p].len
  BY <1>4 DEF TimedLen
<1>8. F[p].len >= NominalLength => \E n \in 1 .. N : p = Off[n - 1] + 1
  BY <1>3, <1>4, <1>5
<1> QED BY <1>6, <1>7, <1>8 DEF N, ts

(* From a trigger's first fragment the search reaches the last that is     *)
(* recognised.                                                             *)
LEMMA HeadLasts ==
  ASSUME IsReadout(readout), NEW F, Complete(F), NEW n \in 1 .. Len(readout.triggers)
  PROVE  IsLast(F, Off[n - 1] + 1, Off[n - 1] + Kept(readout.triggers[n]))
<1> DEFINE ts == readout.triggers
           N == Len(ts)
           t == ts[n]
           K == Kept(t)
           o == Off[n - 1]
           L == Len(t)
<1>1. /\ N \in Nat /\ Len(F) = Off[N] /\ \A m \in 1 .. N : IsTrigger(ts[m]) /\ Len(ts[m]) \in Nat \ {0}
  BY TriggersLieAt DEF Complete
<1>2. /\ IsTrigger(t) /\ L \in Nat \ {0} /\ K \in 1 .. L
      /\ \A k \in 2 .. K : Recognised(t[k - 1], t[k])
      /\ K < L => ~Recognised(t[K], t[K + 1])
  <2>1. IsTrigger(t) /\ L \in Nat \ {0}
    BY <1>1
  <2> HIDE DEF t
  <2> QED BY <2>1, KeptExists
<1>3. /\ o \in Nat /\ Off[n] = o + L /\ Off[n] <= Len(F) /\ Len(F) \in Nat
      /\ \A k \in 1 .. L : /\ o + k \in 1 .. Len(F) /\ F[o + k].end = t[k].end /\ F[o + k].len = t[k].len
  <2>1. Len(F) \in Nat
    <3>1. N \in 0 .. N /\ \A m \in 0 .. N : Off[m] \in Nat
      BY <1>1, TriggersLieAt
    <3> QED BY <1>1, <3>1
  <2>2. 1 \in 1 .. L
    BY <1>2
  <2> QED BY <2>1, <2>2, PieceLiesAt
<1> HIDE DEF K
<1>4. ASSUME NEW k \in 2 .. L PROVE IsExtension(F[o + k - 1], F[o + k]) <=> Recognised(t[k - 1], t[k])
  <2>1. k \in 1 .. L /\ k - 1 \in 1 .. L /\ o + (k - 1) = o + k - 1
    BY <1>2, <1>3
  <2>2. F[o + k - 1].end = t[k - 1].end /\ F[o + k].end = t[k].end /\ F[o + k].len = t[k].len
    BY <1>3, <2>1
  <2> HIDE DEF t
  <2> QED BY <1>2, <2>2, RecognisedExtension DEF L
<1>5. o + K \in o + 1 .. Len(F)
  BY <1>2, <1>3
<1>6. ASSUME NEW x \in (o + 1) + 1 .. o + K PROVE IsExtension(F[x - 1], F[x])
  <2> DEFINE k == x - o
  <2>1. k \in 2 .. K /\ k \in 2 .. L /\ x = o + k /\ x - 1 = o + k - 1
    <3>1. o \in Nat /\ L \in Nat /\ K \in 1 .. L
      BY <1>2, <1>3
    <3> HIDE DEF o, L
    <3> QED BY <3>1
  <2> HIDE DEF k
  <2> QED BY <1>2, <1>4, <2>1
<1>7. ASSUME o + K < Len(F) PROVE ~IsExtension(F[o + K], F[o + K + 1])
  <2>1. CASE K < L
    <3>1. K + 1 \in 2 .. L /\ (K + 1) - 1 = K /\ o + (K + 1) - 1 = o + K /\ o + (K + 1) = o + K + 1
      <4>1. o \in Nat /\ L \in Nat /\ K \in 1 .. L /\ K < L
        BY <1>2, <1>3, <2>1
      <4> HIDE DEF o, L
      <4> QED BY <4>1
    <3> QED BY <1>2, <1>4, <2>1, <3>1
  <2>2. CASE K = L
    <3>1. n < N
      <4>1. o + K = Off[n]
        BY <1>3, <2>2
      <4> QED BY <1>1, <1>7, <4>1
    <3>2. n + 1 \in 1 .. N /\ (n + 1) - 1 = n /\ 1 \in 1 .. Len(ts[n + 1]) /\ IsTrigger(ts[n + 1])
      <4>1. n + 1 \in 1 .. N /\ (n + 1) - 1 = n
        BY <1>1, <3>1
      <4> QED BY <1>1, <4>1
    <3>3. F[Off[n] + 1].len = ts[n + 1][1].len
      <4>1. F[Off[(n + 1) - 1] + 1].len = ts[n + 1][1].len
        BY <3>2, PieceLiesAt
      <4> QED BY <3>2, <4>1
    <3>4. ts[n + 1][1].len = NominalLength
      BY <3>2 DEF IsTrigger
    <3>5. F[o + K + 1].len = NominalLength
      BY <1>3, <2>2, <3>3, <3>4
    <3>6. ~(NominalLength < NominalLength)
      BY DecoderAssumption
    <3> QED BY <3>5, <3>6 DEF IsExtension, FragLen
  <2> QED BY <1>2, <2>1, <2>2
<1> QED BY <1>5, <1>6, <1>7 DEF IsLast, K

(* The waveform of a trigger in a complete list: its samples, up to one    *)
(* that is not recognised.                                                 *)
LEMMA CombinedAreKept ==
  ASSUME DecodeInv, Listed, HasAll, IsReadout(readout), NEW b \in Boards, NEW F, F = board_frag_v[b],
         NEW n \in 1 .. Len(readout.triggers)
  PROVE  Combined(F, Off[n - 1] + 1) = TimesOf(readout.triggers[n], Kept(readout.triggers[n]))
<1> DEFINE t == readout.triggers[n]
           K == Kept(t)
           o == Off[n - 1]
           L == Len(t)
           i == o + 1
<1>1. OwnFragments(F, readout) /\ Complete(F)
  BY CompleteBoard
<1>2. L \in Nat \ {0} /\ K \in 1 .. L
  <2>1. IsTrigger(t) /\ L \in Nat \ {0}
    BY TriggersLieAt
  <2> HIDE DEF t
  <2> QED BY <2>1, KeptExists
<1>3. /\ o \in Nat
      /\ \A k \in 1 .. L : /\ o + k \in 1 .. Len(F) /\ F[o + k].end = t[k].end /\ F[o + k].len = t[k].len
  <2>1. 1 \in 1 .. L
    BY <1>2
  <2> QED BY <1>1, <2>1, PieceLiesAt
<1>4. IsLast(F, i, o + K)
  BY <1>1, HeadLasts
<1> HIDE DEF K
<1>5. i \in 1 .. Len(F) /\ F \in Seq(Frag)
  <2>1. 1 \in 1 .. L
    BY <1>2
  <2> QED BY <1>1, <1>3, <2>1 DEF Complete
<1> HIDE DEF i
<1>6. LastExtension(F, i) = o + K
  BY <1>4, <1>5, ExtendedToTheLast
<1>7. LastExtension(F, i) - i + 1 = K
  BY <1>2, <1>3, <1>6 DEF i
<1>8. ASSUME NEW k \in 1 .. K PROVE SamplesOf(F[i + k - 1]) = SamplesOf(t[k])
  <2>1. i + k - 1 = o + k /\ k \in 1 .. L
    BY <1>2, <1>3 DEF i
  <2>2. F[o + k].end = t[k].end /\ F[o + k].len = t[k].len
    BY <1>3, <2>1
  <2> QED BY <2>1, <2>2 DEF SamplesOf
<1>9. Combined(F, i) = FlattenSeq([k \in 1 .. K |-> SamplesOf(F[i + k - 1])])
  BY <1>7 DEF Combined
<1>10. [k \in 1 .. K |-> SamplesOf(F[i + k - 1])] = [k \in 1 .. K |-> SamplesOf(t[k])]
  BY <1>8
<1>11. TimesOf(t, K) = FlattenSeq([k \in 1 .. K |-> SamplesOf(t[k])])
  BY DEF TimesOf
<1> QED BY <1>9, <1>10, <1>11 DEF i, K

-----------------------------------------------------------------------------
(* Vectors of blocks of the same size: where a place is.                   *)
LEMMA Multiples ==
  ASSUME NEW P \in Nat, NEW x \in Nat, NEW y \in Nat, x < y
  PROVE  x * P \in Nat /\ y * P \in Nat /\ x * P + P <= y * P
<1> DEFINE k == y - x - 1
<1>1. k \in Nat /\ y = x + 1 + k
  OBVIOUS
<1> HIDE DEF k
<1>2. y * P = x * P + P + k * P
  BY <1>1
<1>3. k * P \in Nat /\ x * P \in Nat /\ y * P \in Nat
  BY <1>1
<1> DEFINE a == x * P
           b == y * P
           c == k * P
<1>4. a \in Nat /\ b \in Nat /\ c \in Nat /\ b = a + P + c
  BY <1>2, <1>3
<1> HIDE DEF a, b, c
<1>5. a \in Nat /\ b \in Nat /\ a + P <= b
  BY <1>4
<1> QED BY <1>5 DEF a, b

(* A place in a sequence of blocks of one size is in one block.            *)
LEMMA OnePlace ==
  ASSUME NEW P \in Nat, NEW x \in Nat, NEW y \in Nat, NEW c \in 1 .. P, NEW d \in 1 .. P,
         x * P + c = y * P + d
  PROVE  x = y /\ c = d
<1> DEFINE a == x * P
           b == y * P
<1>1. ~(x < y)
  <2> SUFFICES ASSUME x < y PROVE FALSE
    OBVIOUS
  <2>1. a \in Nat /\ b \in Nat /\ a + P <= b /\ a + c = b + d
    BY Multiples
  <2> HIDE DEF a, b
  <2> QED BY <2>1
<1>2. ~(y < x)
  <2> SUFFICES ASSUME y < x PROVE FALSE
    OBVIOUS
  <2>1. a \in Nat /\ b \in Nat /\ b + P <= a /\ a + c = b + d
    BY Multiples
  <2> HIDE DEF a, b
  <2> QED BY <2>1
<1>3. x = y
  BY <1>1, <1>2
<1>4. a \in Nat /\ a + c = a + d
  BY <1>3
<1> HIDE DEF a
<1> QED BY <1>3, <1>4

(* Every place is in a block.                                              *)
LEMMA PlaceExists ==
  ASSUME NEW P \in Nat, NEW n \in Nat, NEW g \in 1 .. n * P
  PROVE  \E x \in 0 .. n - 1 : \E c \in 1 .. P : g = x * P + c
<1> DEFINE T == {m \in 0 .. n : g <= m * P}
<1>1. n \in T /\ n * P \in Nat
  OBVIOUS
<1>2. PICK m \in T : \A k \in 0 .. n : k < m => k \notin T
  <2>1. T \subseteq 0 .. n /\ T # {}
    BY <1>1
  <2> HIDE DEF T
  <2> QED BY <2>1, LeastOf
<1>3. m \in 0 .. n /\ g <= m * P
  BY <1>2
<1>4. m # 0
  BY <1>1, <1>3
<1> DEFINE x == m - 1
<1>5. x \in 0 .. n - 1 /\ x \in 0 .. n /\ x < m /\ m = x + 1
  BY <1>3, <1>4
<1>6. ~(g <= x * P)
  BY <1>2, <1>5
<1> HIDE DEF x, T
<1>7. m * P = x * P + P /\ x * P \in Nat
  BY <1>5
<1> DEFINE a == x * P
           c == g - a
<1>8. a \in Nat /\ g \in Nat /\ ~(g <= a) /\ g <= a + P
  BY <1>1, <1>3, <1>6, <1>7
<1> HIDE DEF a
<1>9. c \in 1 .. P /\ g = a + c
  BY <1>8
<1> HIDE DEF c
<1> QED BY <1>5, <1>9 DEF a

-----------------------------------------------------------------------------
(* With nothing lost: the waveforms of the flash triggers lie board by     *)
(* board and trigger by trigger, and each has a block of the others.       *)
Triggers == Len(readout.triggers)
Expected(n) == TimesOf(readout.triggers[n], Kept(readout.triggers[n]))

FlashesLie(flt) ==
  \A b \in Nat : \A n \in 1 .. Triggers :
    b * Triggers + n <= Len(flt) =>
      flt[b * Triggers + n].channel = b /\ flt[b * Triggers + n].samples = Expected(n)
BlocksLie(flt, pmt) ==
  \A g \in 1 .. Len(flt) : \A c \in 1 .. PMTPerBoard :
    (g - 1) * PMTPerBoard + c <= Len(pmt) =>
      /\ pmt[(g - 1) * PMTPerBoard + c].channel = flt[g].channel * PMTPerBoard + c - 1
      /\ pmt[(g - 1) * PMTPerBoard + c].samples = flt[g].samples
IsBlock(own, e) ==
  /\ Len(own) = PMTPerBoard
  /\ \A c \in 1 .. PMTPerBoard :
       own[c].channel = e.channel * PMTPerBoard + c - 1 /\ own[c].samples = e.samples
HeadsBefore(it, d) ==
  d \in 0 .. Triggers /\ \A n \in 1 .. Triggers : Off[n - 1] + 1 < it <=> n <= d
Blocks(ib, flt) == IF ib < TimingBoard THEN Len(flt) ELSE TimingBoard * Triggers
LayoutOf(flt, pmt, ib, d) ==
  /\ Len(flt) = ib * Triggers + d /\ Len(pmt) = Blocks(ib, flt) * PMTPerBoard
  /\ FlashesLie(flt) /\ BlocksLie(flt, pmt)

(* A decoded trigger continues the layout: its flash next, its block       *)
(* behind the blocks.                                                      *)
LEMMA FlashAdded ==
  ASSUME Triggers \in Nat, PMTPerBoard \in Nat, TimingBoard \in Nat,
         NEW V, NEW flt \in Seq(V), NEW pmt \in Seq(V), NEW e \in V, NEW own \in Seq(V),
         NEW ib \in Nat, ib <= TimingBoard, NEW d \in 0 .. Triggers - 1, LayoutOf(flt, pmt, ib, d),
         e.channel = ib, e.samples = Expected(d + 1), IsBlock(own, e)
  PROVE  LayoutOf(Append(flt, e), IF ib = TimingBoard THEN pmt ELSE pmt \o own, ib, d + 1)
<1> DEFINE N == Triggers
           P == PMTPerBoard
           flt2 == Append(flt, e)
           pmt2 == IF ib = TimingBoard THEN pmt ELSE pmt \o own
           l == Len(flt)
           m == Len(pmt)
<1>1. /\ l \in Nat /\ m \in Nat /\ Len(flt2) = l + 1 /\ flt2[l + 1] = e
      /\ \A g \in 1 .. l : flt2[g] = flt[g]
      /\ ib # TimingBoard => Len(pmt2) = m + P /\ \A x \in 1 .. m : pmt2[x] = pmt[x]
      /\ ib # TimingBoard => \A c \in 1 .. P : pmt2[m + c] = own[c]
      /\ ib = TimingBoard => pmt2 = pmt
  <2>1. /\ l \in Nat /\ m \in Nat /\ Len(flt2) = l + 1 /\ flt2[l + 1] = e
        /\ \A g \in 1 .. l : flt2[g] = flt[g]
    BY AppendProperties
  <2>2. Len(own) = P
    BY DEF IsBlock
  <2>3. /\ Len(pmt \o own) = m + P /\ \A x \in 1 .. m : (pmt \o own)[x] = pmt[x]
        /\ \A c \in 1 .. P : (pmt \o own)[m + c] = own[c]
    <3>1. /\ Len(pmt \o own) = m + Len(own)
          /\ \A x \in 1 .. m + Len(own) : (pmt \o own)[x] = IF x <= m THEN pmt[x] ELSE own[x - m]
      BY ConcatProperties
    <3> HIDE DEF m
    <3>2. ASSUME NEW c \in 1 .. P PROVE (pmt \o own)[m + c] = own[c]
      <4>1. m + c \in 1 .. m + Len(own) /\ ~(m + c <= m) /\ (m + c) - m = c
        BY <2>1, <2>2
      <4> QED BY <3>1, <4>1
    <3>3. ASSUME NEW x \in 1 .. m PROVE (pmt \o own)[x] = pmt[x]
      <4>1. x \in 1 .. m + Len(own) /\ x <= m
        BY <2>1, <2>2
      <4> QED BY <3>1, <4>1
    <3> QED BY <2>2, <3>1, <3>2, <3>3
  <2> QED BY <2>1, <2>3
<1>2. l = ib * N + d /\ m = Blocks(ib, flt) * P /\ FlashesLie(flt) /\ BlocksLie(flt, pmt)
  BY DEF LayoutOf
<1>3. ib * N \in Nat /\ l + 1 = ib * N + (d + 1) /\ d + 1 \in 1 .. N
  <2>1. ib * N \in Nat
    OBVIOUS
  <2> DEFINE a == ib * N
  <2>2. a \in Nat /\ l = a + d
    BY <1>2, <2>1
  <2> HIDE DEF a, l
  <2>3. l + 1 = a + (d + 1) /\ d + 1 \in 1 .. N
    BY <2>2
  <2> QED BY <2>1, <2>3 DEF a
<1> HIDE DEF flt2, pmt2, l, m
<1>4. Len(flt2) = ib * N + (d + 1)
  BY <1>1, <1>3
<1>5. FlashesLie(flt2)
  <2> SUFFICES ASSUME NEW b \in Nat, NEW n \in 1 .. N, b * N + n <= Len(flt2)
               PROVE  flt2[b * N + n].channel = b /\ flt2[b * N + n].samples = Expected(n)
    BY DEF FlashesLie
  <2> DEFINE p == b * N + n
  <2>0. b * N \in Nat
    OBVIOUS
  <2>1. p \in Nat \ {0} /\ p <= l + 1
    BY <1>1, <2>0
  <2>2. CASE p = l + 1
    <3>1. b * N + n = ib * N + (d + 1)
      BY <1>3, <2>2
    <3>2. b = ib /\ n = d + 1
      <4> DEFINE x == d + 1
      <4>1. x \in 1 .. N /\ b * N + n = ib * N + x
        BY <1>3, <3>1
      <4> HIDE DEF x
      <4>2. b = ib /\ n = x
        BY <4>1, OnePlace
      <4> QED BY <4>2 DEF x
    <3> QED BY <1>1, <2>2, <3>2
  <2>3. CASE p # l + 1
    <3>1. p \in 1 .. l /\ p <= l
      <4> HIDE DEF p
      <4> QED BY <1>1, <2>1, <2>3
    <3>2. flt2[p] = flt[p]
      BY <1>1, <3>1
    <3>3. flt[p].channel = b /\ flt[p].samples = Expected(n)
      BY <1>2, <3>1 DEF FlashesLie, l
    <3> QED BY <3>2, <3>3
  <2> QED BY <2>2, <2>3
<1>6. Len(pmt2) = Blocks(ib, flt2) * P /\ (ib # TimingBoard => m = l * P) /\ (ib = TimingBoard => m <= l * P)
  <2>1. CASE ib # TimingBoard
    <3>1. ib < TimingBoard
      BY <2>1
    <3>2. m = l * P /\ Blocks(ib, flt2) = l + 1
      BY <1>1, <1>2, <3>1 DEF Blocks, l
    <3>3. (l + 1) * P = l * P + P
      BY <1>1
    <3> QED BY <1>1, <2>1, <3>2, <3>3
  <2>2. CASE ib = TimingBoard
    <3>1. Blocks(ib, flt2) = TimingBoard * N /\ Blocks(ib, flt) = TimingBoard * N
      BY <2>2 DEF Blocks
    <3>2. m = (ib * N) * P /\ Len(pmt2) = Blocks(ib, flt2) * P
      BY <1>1, <1>2, <2>2, <3>1 DEF m
    <3>3. (ib * N) * P <= l * P
      <4> DEFINE a == ib * N
      <4>1. a \in Nat /\ a <= l
        BY <1>1, <1>2, <1>3
      <4> SUFFICES a * P <= l * P
        OBVIOUS
      <4> HIDE DEF a
      <4>2. CASE a = l
        <5>1. l * P \in Nat
          BY <1>1
        <5> QED BY <4>2, <5>1
      <4>3. CASE a < l
        <5>1. a * P \in Nat /\ l * P \in Nat /\ a * P + P <= l * P
          BY <1>1, <4>1, <4>3, Multiples
        <5> DEFINE u == a * P
                   v == l * P
        <5>2. u \in Nat /\ v \in Nat /\ u + P <= v
          BY <5>1
        <5> HIDE DEF u, v
        <5>3. u <= v
          BY <5>2
        <5> QED BY <5>3 DEF u, v
      <4> QED BY <1>1, <4>1, <4>2, <4>3
    <3> QED BY <2>2, <3>2, <3>3
  <2> QED BY <2>1, <2>2
<1>7. BlocksLie(flt2, pmt2)
  <2> SUFFICES ASSUME NEW g \in 1 .. Len(flt2), NEW c \in 1 .. P, (g - 1) * P + c <= Len(pmt2)
               PROVE  /\ pmt2[(g - 1) * P + c].channel = flt2[g].channel * P + c - 1
                      /\ pmt2[(g - 1) * P + c].samples = flt2[g].samples
    BY DEF BlocksLie
  <2> DEFINE p == (g - 1) * P + c
             a == (g - 1) * P
  <2>0. g \in 1 .. l + 1 /\ g - 1 \in Nat /\ a \in Nat /\ p \in Nat \ {0} /\ p = a + c /\ l * P \in Nat
    <3>1. g \in 1 .. l + 1 /\ g - 1 \in Nat
      BY <1>1
    <3>2. a \in Nat /\ l * P \in Nat
      BY <1>1, <3>1
    <3> HIDE DEF a
    <3>3. a + c \in Nat \ {0}
      BY <3>2
    <3> QED BY <3>1, <3>2, <3>3 DEF a
  <2>1. CASE g = l + 1
    <3>1. a = l * P
      BY <1>1, <2>1
    <3>2. ib # TimingBoard
      <4> SUFFICES ASSUME ib = TimingBoard PROVE FALSE
        OBVIOUS
      <4>1. p <= m /\ m <= l * P
        BY <1>1, <1>6 DEF m
      <4> DEFINE u == l * P
      <4>2. u \in Nat /\ p = u + c /\ p <= m /\ m <= u /\ m \in Nat
        BY <1>1, <2>0, <3>1, <4>1
      <4> HIDE DEF p, u
      <4> QED BY <4>2
    <3>3. p = m + c
      BY <1>6, <2>0, <3>1, <3>2
    <3>4. pmt2[p] = own[c] /\ flt2[g] = e
      BY <1>1, <2>1, <3>2, <3>3
    <3> QED BY <3>4 DEF IsBlock
  <2>2. CASE g # l + 1
    <3>1. g \in 1 .. l
      <4>1. g \in 1 .. l + 1 /\ l \in Nat
        BY <1>1, <2>0
      <4> QED BY <2>2, <4>1
    <3>2. p <= l * P
      <4>1. g - 1 < l
        BY <1>1, <3>1
      <4>2. a + P <= l * P
        BY <1>1, <2>0, <4>1, Multiples
      <4> DEFINE u == l * P
      <4>3. u \in Nat /\ a + P <= u /\ a \in Nat /\ p = a + c
        BY <2>0, <4>2
      <4> HIDE DEF p, u, a
      <4>4. p <= u
        BY <4>3
      <4> QED BY <4>4 DEF u, p
    <3>3. p <= m
      BY <1>1, <1>6, <3>2 DEF m
    <3>4. pmt[p].channel = flt[g].channel * P + c - 1 /\ pmt[p].samples = flt[g].samples
      BY <1>2, <3>1, <3>3 DEF BlocksLie, l, m
    <3>5. pmt2[p] = pmt[p] /\ flt2[g] = flt[g]
      <4>1. p \in 1 .. m
        BY <1>1, <2>0, <3>3
      <4> HIDE DEF p
      <4> QED BY <1>1, <3>1, <4>1
    <3> QED BY <3>4, <3>5
  <2> QED BY <2>1, <2>2
<1> QED BY <1>4, <1>5, <1>6, <1>7 DEF LayoutOf, flt2, pmt2

(* How many triggers are before a place in a board's list.                 *)
LEMMA NoneBefore ==
  ASSUME IsReadout(readout)
  PROVE  HeadsBefore(1, 0) /\ \A d : HeadsBefore(1, d) => d = 0
<1> DEFINE N == Len(readout.triggers)
<1>1. N \in Nat /\ \A n \in 0 .. N : Off[n] \in Nat
  BY TriggersLieAt
<1>2. \A n \in 1 .. N : ~(Off[n - 1] + 1 < 1)
  <2> SUFFICES ASSUME NEW n \in 1 .. N PROVE ~(Off[n - 1] + 1 < 1)
    OBVIOUS
  <2>1. n - 1 \in 0 .. N
    BY <1>1
  <2>2. Off[n - 1] \in Nat
    BY <1>1, <2>1
  <2> QED BY <2>2
<1>3. HeadsBefore(1, 0)
  <2>1. 0 \in 0 .. N /\ \A n \in 1 .. N : ~(n <= 0)
    BY <1>1
  <2> QED BY <1>2, <2>1 DEF HeadsBefore, Triggers
<1>4. ASSUME NEW d, HeadsBefore(1, d) PROVE d = 0
  <2>1. d \in 0 .. N /\ \A n \in 1 .. N : Off[n - 1] + 1 < 1 <=> n <= d
    BY <1>4 DEF HeadsBefore, Triggers
  <2>2. d # 0 => d \in 1 .. N /\ d <= d
    BY <1>1, <2>1
  <2> QED BY <1>2, <2>1, <2>2
<1> QED BY <1>3, <1>4

(* At the end of a complete list all triggers have been decoded.           *)
LEMMA AllBefore ==
  ASSUME IsReadout(readout), NEW F, Complete(F), NEW it \in Nat, it > Len(F), NEW d, HeadsBefore(it, d)
  PROVE  d = Triggers
<1> DEFINE N == Len(readout.triggers)
<1>1. /\ N \in Nat /\ \A n \in 0 .. N : Off[n] \in Nat
      /\ \A m, n \in 0 .. N : m < n => Off[m] < Off[n]
  BY TriggersLieAt
<1>2. d \in 0 .. N /\ (\A n \in 1 .. N : Off[n - 1] + 1 < it <=> n <= d) /\ Len(F) = Off[N]
  BY DEF HeadsBefore, Triggers, Complete
<1> SUFFICES ASSUME d < N PROVE FALSE
  BY <1>1, <1>2 DEF Triggers
<1>3. N \in 1 .. N /\ N - 1 \in 0 .. N /\ N \in 0 .. N /\ N - 1 < N /\ ~(N <= d)
  BY <1>1, <1>2
<1>4. Off[N - 1] < Off[N] /\ Off[N - 1] \in Nat /\ Off[N] \in Nat
  BY <1>1, <1>3
<1>5. Off[N - 1] + 1 < it
  BY <1>2, <1>4
<1> QED BY <1>2, <1>3, <1>5

(* One fragment more: the next trigger's first, or none's.                 *)
LEMMA HeadStep ==
  ASSUME IsReadout(readout), NEW F, Complete(F), NEW it \in 1 .. Len(F), NEW d, HeadsBefore(it, d)
  PROVE  /\ ~(F[it].len >= NominalLength) => HeadsBefore(it + 1, d)
         /\ F[it].len >= NominalLength =>
              d \in 0 .. Triggers - 1 /\ Off[d] + 1 = it /\ HeadsBefore(it + 1, d + 1)
<1> DEFINE N == Len(readout.triggers)
<1>1. /\ N \in Nat /\ \A n \in 0 .. N : Off[n] \in Nat
      /\ \A m, n \in 0 .. N : m < n => Off[m] < Off[n]
  BY TriggersLieAt
<1>2. d \in 0 .. N /\ \A n \in 1 .. N : Off[n - 1] + 1 < it <=> n <= d
  BY DEF HeadsBefore, Triggers
<1>3. F[it].len >= NominalLength <=> \E n \in 1 .. N : it = Off[n - 1] + 1
  BY HeadsBegin
<1>4. it \in Int
  OBVIOUS
<1> HIDE DEF N
<1>5. \A n \in 1 .. N : n - 1 \in 0 .. N /\ Off[n - 1] \in Nat
  <2>1. \A n \in 1 .. N : n - 1 \in 0 .. N
    BY <1>1
  <2> QED BY <1>1, <2>1
<1>6. ASSUME ~(F[it].len >= NominalLength) PROVE HeadsBefore(it + 1, d)
  <2>1. ASSUME NEW n \in 1 .. N PROVE Off[n - 1] + 1 < it + 1 <=> n <= d
    <3>1. it # Off[n - 1] + 1 /\ Off[n - 1] \in Nat
      BY <1>3, <1>5, <1>6
    <3>2. Off[n - 1] + 1 < it + 1 <=> Off[n - 1] + 1 < it
      BY <1>4, <3>1
    <3> QED BY <1>2, <3>2
  <2> QED BY <1>2, <2>1 DEF HeadsBefore, Triggers, N
<1>7. ASSUME F[it].len >= NominalLength
      PROVE  d \in 0 .. N - 1 /\ Off[d] + 1 = it /\ HeadsBefore(it + 1, d + 1)
  <2>1. PICK h \in 1 .. N : it = Off[h - 1] + 1
    BY <1>3, <1>7
  <2>2. ASSUME NEW n \in 1 .. N
        PROVE  (Off[n - 1] + 1 < it <=> n < h) /\ (Off[n - 1] + 1 < it + 1 <=> n <= h)
    <3>1. /\ n - 1 \in 0 .. N /\ h - 1 \in 0 .. N /\ Off[n - 1] \in Nat /\ Off[h - 1] \in Nat
      BY <1>5
    <3>2. CASE n < h
      <4>1. n - 1 < h - 1
        BY <1>1, <3>2
      <4>2. Off[n - 1] < Off[h - 1]
        BY <1>1, <3>1, <4>1
      <4> QED BY <1>1, <2>1, <3>1, <3>2, <4>2
    <3>3. CASE n = h
      BY <2>1, <3>1, <3>3
    <3>4. CASE h < n
      <4>1. h - 1 < n - 1
        BY <1>1, <3>4
      <4>2. Off[h - 1] < Off[n - 1]
        BY <1>1, <3>1, <4>1
      <4> QED BY <1>1, <2>1, <3>1, <3>4, <4>2
    <3> QED BY <1>1, <3>2, <3>3, <3>4
  <2>3. d = h - 1
    <3>1. ~(h <= d)
      <4>1. ~(h < h)
        BY <1>1
      <4> QED BY <1>2, <2>2, <4>1
    <3>2. h # 1 => h - 1 <= d
      <4> SUFFICES ASSUME h # 1 PROVE h - 1 <= d
        OBVIOUS
      <4>1. h - 1 \in 1 .. N /\ h - 1 < h
        BY <1>1
      <4> QED BY <1>2, <2>2, <4>1
    <3> QED BY <1>1, <1>2, <3>1, <3>2
  <2>4. d \in 0 .. N - 1 /\ d + 1 = h /\ d + 1 \in 0 .. N
    BY <1>1, <2>3
  <2>5. HeadsBefore(it + 1, d + 1)
    BY <2>2, <2>4 DEF HeadsBefore, Triggers, N
  <2> QED BY <2>1, <2>3, <2>4, <2>5
<1> QED BY <1>6, <1>7 DEF N, Triggers

LayoutInv ==
  HasLists /\ HasAll =>
    \E d : HeadsBefore(itrig, d) /\ LayoutOf(fltwvfmVec, pmtwvfmVec, iboard, d)

(* The layout does not depend on what other steps change.                  *)
LEMMA LayoutStays ==
  ASSUME UNCHANGED <<fConfig, readout>>,
         HasLists' /\ HasAll =>
           \E d : HeadsBefore(itrig', d) /\ LayoutOf(fltwvfmVec', pmtwvfmVec', iboard', d)
  PROVE  LayoutInv'
<1>1. ASSUME NEW d, HeadsBefore(itrig', d) PROVE HeadsBefore(itrig, d)'
  BY <1>1 DEF HeadsBefore, Triggers, Off
<1>2. ASSUME NEW d, LayoutOf(fltwvfmVec', pmtwvfmVec', iboard', d)
      PROVE  LayoutOf(fltwvfmVec, pmtwvfmVec, iboard, d)'
  BY <1>2 DEF LayoutOf, Blocks, FlashesLie, BlocksLie, Triggers, Expected
<1>3. HasAll' = HasAll
  BY DEF HasAll
<1> QED BY <1>1, <1>2, <1>3 DEF LayoutInv

(* Every step of the decoder keeps the layout.                             *)
LEMMA LayoutKept ==
  ASSUME SimulationInv, DecodeInv, LayoutInv, Next
  PROVE  LayoutInv'
<1> DEFINE N == Triggers
           P == PMTPerBoard
<1>0. /\ P \in Nat /\ NBoards \in Nat /\ TimingBoard \in Nat \ {0} /\ TimingBoard = NBoards - 1
      /\ Boards = 0 .. TimingBoard
  BY DecoderAssumption, MonPulseAssumption DEF TimingBoard, Boards
<1>1. /\ fltwvfmVec \in Seq(AllWaveforms) /\ pmtwvfmVec \in Seq(AllWaveforms)
      /\ iboard \in Nat /\ itrig \in Nat \ {0}
  BY <1>0 DEF DecodeInv
<1>2. readout.frags # <<>> => IsReadout(readout)
  BY ReadoutsAssumption DEF DecodeInv
<1>3. IsReadout(readout) => N \in Nat
  BY TriggersLieAt DEF Triggers
<1>5. CASE UNCHANGED <<stage, decoderVars>>
  BY LayoutStays, <1>5 DEF LayoutInv, decoderVars, products, HasLists
<1>6. CASE NoFragments \/ NoFrameShift
  <2>1. UNCHANGED <<fConfig, readout>> /\ (readout.frags = <<>> \/ stage' = "thrown")
    BY <1>6 DEF NoFragments, NoFrameShift
  <2>2. ~HasLists'
    BY <2>1 DEF HasLists
  <2> QED BY LayoutStays, <2>1, <2>2
<1>7. CASE GetFragments
  <2>1. /\ stage = "fragments" /\ readout.frags # <<>> /\ iboard' = 0 /\ itrig' = 1
        /\ UNCHANGED <<fConfig, readout, products>>
    BY <1>7 DEF GetFragments
  <2>2. fltwvfmVec' = <<>> /\ pmtwvfmVec' = <<>>
    BY <2>1 DEF DecodeInv, HasLists, products
  <2>3. IsReadout(readout) /\ N \in Nat
    BY <1>2, <1>3, <2>1
  <2>4. HeadsBefore(1, 0)
    BY <2>3, NoneBefore
  <2>5. LayoutOf(<<>>, <<>>, 0, 0)
    <3>1. Len(<<>>) = 0 /\ 0 * N + 0 = 0 /\ 0 * P = 0 /\ 1 .. 0 = {}
      BY <1>0, <2>3
    <3>2. Blocks(0, <<>>) = 0
      BY <1>0, <3>1 DEF Blocks
    <3>3. FlashesLie(<<>>)
      <4>1. \A b \in Nat : b * N \in Nat
        BY <2>3
      <4>2. \A b \in Nat : \A n \in 1 .. N : ~(b * N + n <= 0)
        <5> SUFFICES ASSUME NEW b \in Nat, NEW n \in 1 .. N PROVE ~(b * N + n <= 0)
          OBVIOUS
        <5> DEFINE a == b * N
        <5>1. a \in Nat
          BY <4>1
        <5> HIDE DEF a
        <5>2. ~(a + n <= 0)
          BY <5>1
        <5> QED BY <5>2 DEF a
      <4> QED BY <3>1, <4>2 DEF FlashesLie
    <3>4. BlocksLie(<<>>, <<>>)
      BY <3>1 DEF BlocksLie
    <3> QED BY <3>1, <3>2, <3>3, <3>4 DEF LayoutOf
  <2> QED BY LayoutStays, <2>1, <2>2, <2>4, <2>5
<1>8. CASE SkipExtension
  <2>1. /\ stage = "decode" /\ iboard \in Boards /\ itrig <= Len(Frags) /\ TimedLen(Frags[itrig]) < NominalLength
        /\ itrig' = itrig + 1 /\ UNCHANGED <<stage, fConfig, readout, iboard, products>>
    BY <1>8 DEF SkipExtension, Decoding
  <2>2. readout.frags # <<>> /\ HasLists /\ Listed
    BY <2>1 DEF DecodeInv, HasLists
  <2>3. ASSUME HasAll PROVE \E d : HeadsBefore(itrig', d) /\ LayoutOf(fltwvfmVec', pmtwvfmVec', iboard', d)
    <3>1. Complete(Frags) /\ IsReadout(readout)
      BY <1>2, <2>1, <2>2, <2>3, CompleteBoard DEF Frags
    <3>2. PICK d : HeadsBefore(itrig, d) /\ LayoutOf(fltwvfmVec, pmtwvfmVec, iboard, d)
      BY <2>2, <2>3 DEF LayoutInv
    <3>3. itrig \in 1 .. Len(Frags)
      <4>1. Frags \in Seq(Frag)
        BY <3>1 DEF Complete
      <4>2. Len(Frags) \in Nat
        <5> HIDE DEF Frag
        <5> QED BY <4>1
      <4> QED BY <1>1, <2>1, <4>2
    <3>4. ~(Frags[itrig].len >= NominalLength)
      <4>1. TimedLen(Frags[itrig]) = Frags[itrig].len
        BY <3>1, <3>3, HeadsBegin
      <4>2. Frags[itrig].len \in Nat /\ NominalLength \in Nat
        <5>1. Frags[itrig] \in Frag
          <6>1. Frags \in Seq(Frag)
            BY <3>1 DEF Complete
          <6> HIDE DEF Frag
          <6> QED BY <3>3, <6>1
        <5> QED BY <5>1, DecoderAssumption DEF Frag
      <4> QED BY <2>1, <4>1, <4>2
    <3>5. HeadsBefore(itrig + 1, d)
      BY <3>1, <3>2, <3>3, <3>4, HeadStep
    <3> QED BY <2>1, <3>2, <3>5 DEF products
  <2> QED BY LayoutStays, <2>1, <2>3
<1>9. CASE DecodeTrigger
  <2>1. /\ HasLists /\ Listed /\ iboard \in Boards /\ itrig \in 1 .. Len(Frags) /\ NominalLength <= Frags[itrig].len
        /\ Own \in Seq(AllWaveforms) /\ Flash \in AllWaveforms
        /\ fltwvfmVec' = Append(fltwvfmVec, Flash)
        /\ pmtwvfmVec' = IF iboard = TimingBoard THEN pmtwvfmVec ELSE pmtwvfmVec \o Own
    BY <1>9, DecodedIsOwn
  <2>2. itrig' = itrig + 1 /\ UNCHANGED <<fConfig, readout, iboard>>
    BY <1>9 DEF DecodeTrigger
  <2>3. ASSUME HasAll PROVE \E d : HeadsBefore(itrig', d) /\ LayoutOf(fltwvfmVec', pmtwvfmVec', iboard', d)
    <3>1. Complete(Frags) /\ IsReadout(readout) /\ N \in Nat
      BY <1>2, <1>3, <2>1, <2>3, CompleteBoard DEF Frags, HasLists
    <3>2. PICK d : HeadsBefore(itrig, d) /\ LayoutOf(fltwvfmVec, pmtwvfmVec, iboard, d)
      BY <2>1, <2>3 DEF LayoutInv
    <3>3. Frags[itrig].len >= NominalLength
      <4>1. Frags[itrig].len \in Nat /\ NominalLength \in Nat
        <5>1. Frags[itrig] \in Frag
          <6>1. Frags \in Seq(Frag)
            BY <3>1 DEF Complete
          <6> HIDE DEF Frag
          <6> QED BY <2>1, <6>1
        <5> QED BY <5>1, DecoderAssumption DEF Frag
      <4> QED BY <2>1, <4>1
    <3>4. d \in 0 .. N - 1 /\ Off[d] + 1 = itrig /\ HeadsBefore(itrig + 1, d + 1)
      BY <2>1, <3>1, <3>2, <3>3, HeadStep
    <3>5. Flash.channel = iboard /\ Flash.samples = Expected(d + 1)
      <4>1. d + 1 \in 1 .. Len(readout.triggers) /\ (d + 1) - 1 = d
        BY <3>1, <3>4 DEF Triggers
      <4>2. Combined(Frags, Off[(d + 1) - 1] + 1) = Expected(d + 1)
        BY <2>1, <2>3, <3>1, <4>1, CombinedAreKept DEF Frags, Expected
      <4> QED BY <3>4, <4>1, <4>2 DEF Flash
    <3>6. IsBlock(Own, Flash)
      <4>1. Len(Own) = P
        BY <1>0 DEF Own
      <4>2. \A c \in 1 .. P : Own[c].channel = iboard * P + c - 1 /\ Own[c].samples = Combined(Frags, itrig)
        BY DEF Own
      <4> QED BY <4>1, <4>2 DEF IsBlock, Flash
    <3>7. LayoutOf(Append(fltwvfmVec, Flash), IF iboard = TimingBoard THEN pmtwvfmVec ELSE pmtwvfmVec \o Own,
                   iboard, d + 1)
      <4>1. iboard \in Nat /\ iboard <= TimingBoard /\ TimingBoard \in Nat
        BY <1>0, <1>1, <2>1
      <4> QED BY <1>0, <1>1, <2>1, <3>1, <3>2, <3>4, <3>5, <3>6, <4>1, FlashAdded
    <3> QED BY <2>1, <2>2, <3>4, <3>7
  <2> QED BY LayoutStays, <2>2, <2>3
<1>10. CASE NextBoard
  <2>1. /\ stage = "decode" /\ iboard \in Boards /\ itrig > Len(Frags) /\ iboard' = iboard + 1 /\ itrig' = 1
        /\ UNCHANGED <<fConfig, readout, products>>
    BY <1>10 DEF NextBoard, Decoding
  <2>2. readout.frags # <<>> /\ HasLists /\ Listed
    BY <2>1 DEF DecodeInv, HasLists
  <2>3. ASSUME HasAll PROVE \E d : HeadsBefore(itrig', d) /\ LayoutOf(fltwvfmVec', pmtwvfmVec', iboard', d)
    <3>1. Complete(Frags) /\ IsReadout(readout) /\ N \in Nat
      BY <1>2, <1>3, <2>1, <2>2, <2>3, CompleteBoard DEF Frags
    <3>2. PICK d : HeadsBefore(itrig, d) /\ LayoutOf(fltwvfmVec, pmtwvfmVec, iboard, d)
      BY <2>2, <2>3 DEF LayoutInv
    <3>3. d = N
      BY <1>1, <2>1, <3>1, <3>2, AllBefore
    <3>4. HeadsBefore(1, 0)
      BY <3>1, NoneBefore
    <3>5. LayoutOf(fltwvfmVec, pmtwvfmVec, iboard + 1, 0)
      <4>1. /\ Len(fltwvfmVec) = iboard * N + N /\ Len(pmtwvfmVec) = Blocks(iboard, fltwvfmVec) * P
            /\ FlashesLie(fltwvfmVec) /\ BlocksLie(fltwvfmVec, pmtwvfmVec)
        BY <3>2, <3>3 DEF LayoutOf
      <4>2. (iboard + 1) * N + 0 = iboard * N + N
        BY <1>1, <3>1
      <4>3. Blocks(iboard + 1, fltwvfmVec) = Blocks(iboard, fltwvfmVec)
        <5>1. CASE iboard + 1 < TimingBoard
          BY <1>0, <1>1, <5>1 DEF Blocks
        <5>2. CASE iboard + 1 = TimingBoard
          <6>1. Blocks(iboard, fltwvfmVec) = Len(fltwvfmVec) /\ Blocks(iboard + 1, fltwvfmVec) = TimingBoard * N
            BY <1>0, <1>1, <5>2 DEF Blocks
          <6>2. TimingBoard * N = iboard * N + N
            BY <1>1, <3>1, <5>2
          <6> QED BY <4>1, <6>1, <6>2
        <5>3. CASE iboard = TimingBoard
          BY <1>0, <1>1, <5>3 DEF Blocks
        <5> QED BY <1>0, <1>1, <2>1, <5>1, <5>2, <5>3
      <4> QED BY <4>1, <4>2, <4>3 DEF LayoutOf
    <3> QED BY <2>1, <3>4, <3>5 DEF products
  <2> QED BY LayoutStays, <2>1, <2>3
<1>11. CASE PutWaveforms
  <2>1. /\ stage = "flashes" /\ UNCHANGED <<fConfig, readout, iboard, itrig, products>>
    BY <1>11 DEF PutWaveforms
  <2> QED BY LayoutStays, <2>1 DEF LayoutInv, products, HasLists
<1>12. CASE EmptyPulse \/ ConstructMonPulse \/ SliceWaveforms
  <2>1. UNCHANGED <<fConfig, readout>> /\ fWaveforms # <<>>
    BY <1>12 DEF EmptyPulse, ConstructMonPulse, SliceWaveforms, SimulationInv
  <2>2. ~HasLists'
    BY <2>1 DEF DecodeInv, HasLists
  <2> QED BY LayoutStays, <2>1, <2>2
<1> QED BY <1>5, <1>6, <1>7, <1>8, <1>9, <1>10, <1>11, <1>12
        DEF Next, Decode, DecoderNext, ConstructFlash, Ended, vars, decoderVars

(* What the decoder has made when it is done.                              *)
LEMMA LayoutWhenDecoded ==
  ASSUME DecodeInv, LayoutInv, AfterDecoding, HasAll
  PROVE  /\ IsReadout(readout) /\ Triggers \in Nat
         /\ Len(fltwvfmVec) = NBoards * Triggers
         /\ Len(pmtwvfmVec) = (TimingBoard * Triggers) * PMTPerBoard
         /\ FlashesLie(fltwvfmVec) /\ BlocksLie(fltwvfmVec, pmtwvfmVec)
         /\ DOMAIN fltwvfmVec = 1 .. Len(fltwvfmVec) /\ DOMAIN pmtwvfmVec = 1 .. Len(pmtwvfmVec)
         /\ NBoards \in Nat /\ TimingBoard \in Nat \ {0} /\ TimingBoard = NBoards - 1 /\ PMTPerBoard \in Nat
         /\ Boards = 0 .. TimingBoard
<1>1. /\ HasLists /\ IsReadout(readout) /\ iboard = NBoards /\ itrig = 1
  BY ReadoutsAssumption DEF DecodeInv, AfterDecoding, HasLists
<1>2. Triggers \in Nat
  BY <1>1, TriggersLieAt DEF Triggers
<1>3. /\ NBoards \in Nat /\ TimingBoard \in Nat \ {0} /\ TimingBoard = NBoards - 1 /\ PMTPerBoard \in Nat
      /\ Boards = 0 .. TimingBoard
  BY DecoderAssumption, MonPulseAssumption DEF TimingBoard, Boards
<1>4. PICK d : HeadsBefore(1, d) /\ LayoutOf(fltwvfmVec, pmtwvfmVec, NBoards, d)
  BY <1>1 DEF LayoutInv
<1>5. d = 0
  BY <1>1, <1>4, NoneBefore
<1>6. Blocks(NBoards, fltwvfmVec) = TimingBoard * Triggers
  BY <1>3 DEF Blocks
<1>7. NBoards * Triggers + 0 = NBoards * Triggers
  BY <1>2, <1>3
<1>8. fltwvfmVec \in Seq(AllWaveforms) /\ pmtwvfmVec \in Seq(AllWaveforms)
  BY DEF DecodeInv
<1>9. DOMAIN fltwvfmVec = 1 .. Len(fltwvfmVec) /\ DOMAIN pmtwvfmVec = 1 .. Len(pmtwvfmVec)
  BY <1>8
<1> QED BY <1>1, <1>2, <1>3, <1>4, <1>5, <1>6, <1>7, <1>9 DEF LayoutOf

(* The samples of a channel's waveforms.                                   *)
Samples(wfms, ch) ==
  LET own == Selected(wfms, {i \in DOMAIN wfms : wfms[i].channel = ch})
  IN [n \in DOMAIN own |-> own[n].samples]

SamplesAt(wfms, f, n) == [k \in 1 .. n |-> wfms[f[k]].samples]

(* The samples of a channel, from the places of its waveforms.             *)
LEMMA SamplesAtPlaces ==
  ASSUME NEW V, NEW s \in Seq(V), NEW n \in Nat, NEW f \in [1 .. n -> DOMAIN s], Ascending(f), NEW ch,
         \A k \in 1 .. n : s[f[k]].channel = ch,
         \A i \in DOMAIN s : s[i].channel = ch => \E k \in 1 .. n : i = f[k]
  PROVE  Samples(s, ch) = SamplesAt(s, f, n)
<1> DEFINE I == {i \in DOMAIN s : s[i].channel = ch}
           own == Selected(s, I)
<1>1. I = {f[k] : k \in 1 .. n}
  OBVIOUS
<1>2. own = [k \in 1 .. n |-> s[f[k]]]
  BY <1>1, SelectedAre
<1>3. Samples(s, ch) = [k \in DOMAIN own |-> own[k].samples]
  BY DEF Samples
<1> HIDE DEF own
<1> QED BY <1>2, <1>3 DEF SamplesAt

(* Every place of the vectors is that of one board, trigger and channel.   *)
LEMMA FlashPlaces ==
  ASSUME DecodeInv, LayoutInv, AfterDecoding, HasAll, NEW b \in Boards
  PROVE  Samples(fltwvfmVec, b) = [n \in 1 .. Triggers |-> Expected(n)]
<1> DEFINE N == Triggers
           flt == fltwvfmVec
           f == [n \in 1 .. N |-> b * N + n]
<1>1. /\ N \in Nat /\ Len(flt) = NBoards * N /\ FlashesLie(flt) /\ DOMAIN flt = 1 .. Len(flt)
      /\ NBoards \in Nat /\ b \in Nat /\ b < NBoards
  BY LayoutWhenDecoded
<1>2. flt \in Seq(AllWaveforms)
  BY DEF DecodeInv
<1>3. b * N \in Nat /\ NBoards * N \in Nat /\ b * N + N <= NBoards * N
  BY <1>1, Multiples
<1> DEFINE a == b * N
           l == NBoards * N
<1>4. \A n \in 1 .. N : a + n \in 1 .. l /\ a + n <= l /\ a + n \in Int
  <2> HIDE DEF a, l
  <2>1. a \in Nat /\ l \in Nat /\ a + N <= l
    BY <1>3 DEF a, l
  <2> QED BY <1>1, <2>1
<1>5. f \in [1 .. N -> DOMAIN flt]
  BY <1>1, <1>4
<1>6. Ascending(f)
  <2> HIDE DEF a
  <2>1. a \in Nat /\ f = [n \in 1 .. N |-> a + n]
    BY <1>3 DEF a
  <2>2. \A j, k \in 1 .. N : j < k => a + j < a + k
    BY <1>1, <2>1
  <2> QED BY <2>1, <2>2 DEF Ascending
<1>7. \A n \in 1 .. N : flt[f[n]].channel = b /\ flt[f[n]].samples = Expected(n)
  BY <1>1, <1>4 DEF FlashesLie
<1>8. ASSUME NEW i \in DOMAIN flt, flt[i].channel = b PROVE \E n \in 1 .. N : i = f[n]
  <2>1. i \in 1 .. NBoards * N
    BY <1>1
  <2>2. PICK x \in 0 .. NBoards - 1 : \E n \in 1 .. N : i = x * N + n
    BY <1>1, <2>1, PlaceExists
  <2>3. PICK n \in 1 .. N : i = x * N + n
    BY <2>2
  <2>4. x \in Nat /\ x * N + n <= Len(flt)
    BY <1>1, <2>1, <2>3
  <2>5. flt[i].channel = x
    BY <1>1, <2>3, <2>4 DEF FlashesLie
  <2> QED BY <1>8, <2>3, <2>5
<1> HIDE DEF f
<1>9. Samples(flt, b) = SamplesAt(flt, f, N)
  <2>1. \A n \in 1 .. N : flt[f[n]].channel = b
    BY <1>7
  <2>2. \A i \in DOMAIN flt : flt[i].channel = b => \E n \in 1 .. N : i = f[n]
    BY <1>8
  <2> QED BY <1>1, <1>2, <1>5, <1>6, <2>1, <2>2, SamplesAtPlaces
<1> QED BY <1>7, <1>9 DEF SamplesAt

(* The waveform of a channel of a board and a trigger is at its place in   *)
(* the block.                                                              *)
LEMMA BlockPlace ==
  ASSUME DecodeInv, LayoutInv, AfterDecoding, HasAll, NEW b \in 0 .. TimingBoard - 1,
         NEW n \in 1 .. Triggers, NEW c \in 1 .. PMTPerBoard
  PROVE  /\ b * Triggers \in Nat /\ (b * Triggers + n - 1) * PMTPerBoard \in Nat
         /\ (b * Triggers + n - 1) * PMTPerBoard + c \in 1 .. Len(pmtwvfmVec)
         /\ pmtwvfmVec[(b * Triggers + n - 1) * PMTPerBoard + c].channel = b * PMTPerBoard + c - 1
         /\ pmtwvfmVec[(b * Triggers + n - 1) * PMTPerBoard + c].samples = Expected(n)
<1> DEFINE N == Triggers
           P == PMTPerBoard
           g == b * N + n
           T == TimingBoard * N
<1>1. /\ N \in Nat /\ P \in Nat /\ TimingBoard \in Nat /\ b \in Nat /\ b < TimingBoard
      /\ Len(fltwvfmVec) = NBoards * N /\ NBoards = TimingBoard + 1 /\ Len(pmtwvfmVec) = T * P
      /\ FlashesLie(fltwvfmVec) /\ BlocksLie(fltwvfmVec, pmtwvfmVec)
  BY LayoutWhenDecoded
<1>2. b * N \in Nat /\ T \in Nat /\ b * N + N <= T /\ NBoards * N = T + N
  <2>1. b * N \in Nat /\ T \in Nat /\ b * N + N <= T
    BY <1>1, Multiples
  <2>2. (TimingBoard + 1) * N = TimingBoard * N + N
    BY <1>1
  <2> QED BY <1>1, <2>1, <2>2
<1>3. g \in 1 .. T /\ g \in 1 .. Len(fltwvfmVec) /\ g <= Len(fltwvfmVec) /\ g - 1 \in Nat /\ g - 1 < T
  <2> DEFINE a == b * N
  <2>1. a \in Nat /\ a + N <= T /\ T \in Nat /\ g = a + n /\ Len(fltwvfmVec) = T + N
    BY <1>1, <1>2
  <2> HIDE DEF a, T, g
  <2> QED BY <1>1, <2>1
<1>4. fltwvfmVec[g].channel = b /\ fltwvfmVec[g].samples = Expected(n)
  BY <1>1, <1>3 DEF FlashesLie
<1> HIDE DEF g
<1>5. (g - 1) * P \in Nat /\ T * P \in Nat /\ (g - 1) * P + P <= T * P
  <2> HIDE DEF T
  <2> QED BY <1>1, <1>2, <1>3, Multiples
<1>6. (g - 1) * P + c \in 1 .. Len(pmtwvfmVec) /\ (g - 1) * P + c <= Len(pmtwvfmVec)
  <2> DEFINE u == (g - 1) * P
             v == T * P
  <2>1. u \in Nat /\ v \in Nat /\ u + P <= v /\ Len(pmtwvfmVec) = v
    BY <1>1, <1>5
  <2> HIDE DEF u, v
  <2>2. u + c \in 1 .. v /\ u + c <= v
    BY <1>1, <2>1
  <2> QED BY <2>1, <2>2 DEF u
<1>7. /\ pmtwvfmVec[(g - 1) * P + c].channel = b * P + c - 1
      /\ pmtwvfmVec[(g - 1) * P + c].samples = Expected(n)
  BY <1>1, <1>3, <1>4, <1>6 DEF BlocksLie
<1> QED BY <1>2, <1>5, <1>6, <1>7 DEF g

(* With nothing lost, the waveforms of a channel are those of the triggers *)
(* in turn.                                                                *)
LEMMA ChannelPlaces ==
  ASSUME DecodeInv, LayoutInv, AfterDecoding, HasAll, NEW b \in 0 .. TimingBoard - 1,
         NEW c \in 1 .. PMTPerBoard
  PROVE  Samples(pmtwvfmVec, b * PMTPerBoard + c - 1) = [n \in 1 .. Triggers |-> Expected(n)]
<1> DEFINE N == Triggers
           P == PMTPerBoard
           T == TimingBoard * N
           pmt == pmtwvfmVec
           f == [n \in 1 .. N |-> (b * N + n - 1) * P + c]
           ch == b * P + c - 1
<1>1. /\ N \in Nat /\ P \in Nat /\ TimingBoard \in Nat /\ b \in Nat
      /\ Len(pmt) = T * P /\ DOMAIN pmt = 1 .. Len(pmt)
  BY LayoutWhenDecoded
<1>2. pmt \in Seq(AllWaveforms)
  BY DEF DecodeInv
<1>3. ASSUME NEW n \in 1 .. N
      PROVE  /\ f[n] \in DOMAIN pmt /\ pmt[f[n]].channel = ch /\ pmt[f[n]].samples = Expected(n)
  BY <1>1, BlockPlace
<1>4. f \in [1 .. N -> DOMAIN pmt]
  <2>1. \A n \in 1 .. N : (b * N + n - 1) * P + c \in DOMAIN pmt
    BY <1>3
  <2> QED BY <2>1
<1>5. Ascending(f)
  <2> SUFFICES ASSUME NEW j \in 1 .. N, NEW k \in 1 .. N, j < k PROVE f[j] < f[k]
    BY DEF Ascending
  <2> DEFINE x == b * N + j - 1
             y == b * N + k - 1
  <2>1. x \in Nat /\ y \in Nat /\ x < y /\ P # 0
    <3> DEFINE a == b * N
    <3>1. a \in Nat
      BY <1>1
    <3> HIDE DEF a
    <3>2. a + j - 1 \in Nat /\ a + k - 1 \in Nat /\ a + j - 1 < a + k - 1
      BY <1>1, <3>1
    <3>3. P # 0
      OBVIOUS
    <3> QED BY <3>2, <3>3 DEF a
  <2> HIDE DEF x, y
  <2>2. x * P \in Nat /\ y * P \in Nat /\ x * P + P <= y * P
    BY <1>1, <2>1, Multiples
  <2> DEFINE u == x * P
             v == y * P
  <2>3. u \in Nat /\ v \in Nat /\ u + P <= v
    BY <2>2
  <2> HIDE DEF u, v
  <2>4. u + c < v + c
    BY <1>1, <2>1, <2>3
  <2> QED BY <2>4 DEF u, v, x, y
<1>6. ASSUME NEW i \in DOMAIN pmt, pmt[i].channel = ch PROVE \E n \in 1 .. N : i = f[n]
  <2>0. T \in Nat
    BY <1>1
  <2>1. i \in 1 .. T * P
    BY <1>1
  <2>2. PICK x \in 0 .. T - 1 : \E k \in 1 .. P : i = x * P + k
    <3> HIDE DEF T
    <3> QED BY <1>1, <2>0, <2>1, PlaceExists
  <2>3. PICK k \in 1 .. P : i = x * P + k
    BY <2>2
  <2>4. x + 1 \in 1 .. TimingBoard * N
    <3>1. x + 1 \in 1 .. T
      <4> HIDE DEF T
      <4> QED BY <2>0
    <3> QED BY <3>1
  <2>5. PICK y \in 0 .. TimingBoard - 1 : \E n \in 1 .. N : x + 1 = y * N + n
    BY <1>1, <2>4, PlaceExists
  <2>6. PICK n \in 1 .. N : x + 1 = y * N + n
    BY <2>5
  <2>7. x = y * N + n - 1
    <3> DEFINE a == y * N
    <3>1. a \in Nat
      BY <1>1
    <3>2. x + 1 = a + n
      BY <2>6
    <3> HIDE DEF a
    <3>3. x \in Int
      <4> HIDE DEF T
      <4> QED BY <2>0
    <3>4. x = a + n - 1
      BY <3>1, <3>2, <3>3
    <3> QED BY <3>4 DEF a
  <2>8. pmt[i].channel = y * P + k - 1
    BY <2>3, <2>7, BlockPlace
  <2>9. y * P + k = b * P + c
    <3> DEFINE u == y * P
               v == b * P
    <3>1. u \in Nat /\ v \in Nat /\ u + k - 1 = v + c - 1
      <4>1. u \in Nat /\ v \in Nat
        BY <1>1
      <4>2. u + k - 1 = v + c - 1
        BY <1>6, <2>8
      <4> QED BY <4>1, <4>2
    <3> HIDE DEF u, v
    <3>2. u + k = v + c
      BY <3>1
    <3> QED BY <3>2 DEF u, v
  <2>10. y = b /\ k = c
    <3>1. y \in Nat /\ b \in Nat /\ P \in Nat
      BY <1>1
    <3> QED BY <2>9, <3>1, OnePlace
  <2> QED BY <2>3, <2>7, <2>10
<1> HIDE DEF f, ch
<1>7. Samples(pmt, ch) = SamplesAt(pmt, f, N)
  <2>1. \A n \in 1 .. N : pmt[f[n]].channel = ch
    BY <1>3
  <2>2. \A i \in DOMAIN pmt : pmt[i].channel = ch => \E n \in 1 .. N : i = f[n]
    BY <1>6
  <2> QED BY <1>1, <1>2, <1>4, <1>5, <2>1, <2>2, SamplesAtPlaces
<1> QED BY <1>3, <1>7 DEF ch, SamplesAt

(* With nothing lost, the waveforms lie in blocks by trigger, board after  *)
(* board.                                                                  *)
LEMMA LayoutInvHolds == Spec => []LayoutInv
<1>1. Init => LayoutInv
  BY DEF Init, LayoutInv, HasLists
<1>2. SimulationInv /\ DecodeInv /\ LayoutInv /\ [Next]_vars => LayoutInv'
  <2>1. CASE UNCHANGED vars /\ LayoutInv
    BY <2>1, LayoutStays DEF vars, decoderVars, products, LayoutInv, HasLists
  <2> QED BY <2>1, LayoutKept
<1> QED BY <1>1, <1>2, SimulationInvHolds, DecodeInvHolds, PTL DEF Spec

(* Whatever fragments are lost, the waveforms are of one trigger each; if  *)
(* none is lost, they are those of the triggers, on every channel.         *)
THEOREM WaveformsAreOfTriggers == Spec => []WaveformsOfTriggers
<1>1. DecodeInv /\ LayoutInv => WaveformsOfTriggers
  <2> SUFFICES ASSUME DecodeInv, LayoutInv PROVE WaveformsOfTriggers
    OBVIOUS
  <2>1. \A w \in Decoded : OfOneTrigger(w)
    BY SamplesOfOneTrigger
  <2>2. ASSUME AfterDecoding, HasAll, NEW b \in Boards
        PROVE  LET expected == [n \in DOMAIN readout.triggers |->
                                  TimesOf(readout.triggers[n], Kept(readout.triggers[n]))]
               IN /\ Samples(fltwvfmVec, b) = expected
                  /\ b # TimingBoard =>
                       \A c \in 0 .. PMTPerBoard - 1 : Samples(pmtwvfmVec, b * PMTPerBoard + c) = expected
    <3>1. DOMAIN readout.triggers = 1 .. Triggers
      <4>1. IsReadout(readout)
        BY <2>2, LayoutWhenDecoded
      <4> QED BY <4>1, TriggersLieAt DEF Triggers
    <3>2. Samples(fltwvfmVec, b) = [n \in 1 .. Triggers |-> Expected(n)]
      BY <2>2, FlashPlaces
    <3>3. ASSUME b # TimingBoard, NEW c \in 0 .. PMTPerBoard - 1
          PROVE  Samples(pmtwvfmVec, b * PMTPerBoard + c) = [n \in 1 .. Triggers |-> Expected(n)]
      <4>1. /\ b \in 0 .. TimingBoard - 1 /\ c + 1 \in 1 .. PMTPerBoard /\ b \in Nat /\ PMTPerBoard \in Nat
        BY <2>2, <3>3, LayoutWhenDecoded
      <4>2. b * PMTPerBoard + (c + 1) - 1 = b * PMTPerBoard + c
        <5> DEFINE a == b * PMTPerBoard
        <5>1. a \in Nat
          BY <4>1
        <5> HIDE DEF a
        <5>2. a + (c + 1) - 1 = a + c
          BY <5>1
        <5> QED BY <5>2 DEF a
      <4>3. Samples(pmtwvfmVec, b * PMTPerBoard + (c + 1) - 1) = [n \in 1 .. Triggers |-> Expected(n)]
        BY <2>2, <4>1, ChannelPlaces
      <4> QED BY <4>2, <4>3
    <3> QED BY <3>1, <3>2, <3>3 DEF Expected
  <2> QED BY <2>1, <2>2 DEF WaveformsOfTriggers, Samples
<1> QED BY <1>1, DecodeInvHolds, LayoutInvHolds, PTL

-----------------------------------------------------------------------------
(* The pulses of the flashes, one after the other, whatever is read beyond *)
(* the waveforms.                                                          *)
FlashPulse(n) == {DataMonPulse(Levels, n - 1, beyond) : beyond \in BOOLEAN}
FlashPulses   == UNION {FlashPulse(n) : n \in Nat}
FlashInv ==
  /\ stage \in {"fragments", "decode"} => MonPulses = <<>>
  /\ AfterDecoding =>
       /\ MonPulses \in Seq(FlashPulses)
       /\ \A n \in 1 .. Len(MonPulses) :
            n - 1 < NumFlash(pmtwvfmVec) /\ MonPulses[n] \in FlashPulse(n)

(* A step that does not touch them keeps the invariant.                    *)
LEMMA FlashInvStays ==
  ASSUME FlashInv, UNCHANGED <<readout, pmtwvfmVec, MonPulses>>,
         AfterDecoding' => AfterDecoding,
         stage' \in {"fragments", "decode"} => stage \in {"fragments", "decode"}
  PROVE  FlashInv'
<1>1. \A n : FlashPulse(n)' = FlashPulse(n)
  BY DEF FlashPulse, Levels, LevelsOf, Level
<1>2. FlashPulses' = FlashPulses
  BY <1>1 DEF FlashPulses
<1> QED BY <1>1, <1>2 DEF FlashInv

(* The flashes' pulses are those of the waveforms that stepping through    *)
(* the vector finds.                                                       *)
LEMMA FlashInvHolds == Spec => []FlashInv
<1>1. Init => FlashInv
  BY DEF Init, FlashInv, AfterDecoding
<1>2. SimulationInv /\ DecodeInv /\ FlashInv /\ [Next]_vars => FlashInv'
  <2> SUFFICES ASSUME SimulationInv, DecodeInv, FlashInv, [Next]_vars PROVE FlashInv'
    OBVIOUS
  <2>1. CASE UNCHANGED vars
    BY <2>1, FlashInvStays DEF vars, decoderVars, products, pulseVars, AfterDecoding
  <2>2. CASE Decode
    <3>1. stage \in {"fragments", "decode"} /\ UNCHANGED MonPulses
      BY <2>2 DEF Decode, DecoderNext, NoFragments, NoFrameShift, GetFragments, SkipExtension,
                  DecodeTrigger, NextBoard, Decoding, pulseVars
    <3>2. MonPulses' = <<>>
      BY <3>1 DEF FlashInv
    <3>3. <<>> \in Seq(FlashPulses') /\ 1 .. Len(<<>>) = {}
      OBVIOUS
    <3> QED BY <3>2, <3>3 DEF FlashInv
  <2>3. CASE ConstructFlash
    <3> DEFINE k == Len(MonPulses)
    <3>1. /\ stage = "flashes" /\ k < NumFlash(pmtwvfmVec) /\ UNCHANGED decoderVars
          /\ \E beyond \in BOOLEAN : MonPulses' = Append(MonPulses, DataMonPulse(Levels, k, beyond))
      BY <2>3 DEF ConstructFlash
    <3>2. AfterDecoding
      BY <3>1 DEF AfterDecoding, DecodeInv
    <3>3. MonPulses \in Seq(FlashPulses) /\ k \in Nat
      BY <3>2 DEF FlashInv
    <3>4. PICK pulse \in FlashPulse(k + 1) : MonPulses' = Append(MonPulses, pulse)
      <4>1. k + 1 - 1 = k
        BY <3>3
      <4> QED BY <3>1, <4>1 DEF FlashPulse
    <3>5. pulse \in FlashPulses
      BY <3>3 DEF FlashPulses
    <3>6. /\ MonPulses' \in Seq(FlashPulses) /\ Len(MonPulses') = k + 1 /\ MonPulses'[k + 1] = pulse
          /\ \A n \in 1 .. k : MonPulses'[n] = MonPulses[n]
      <4> HIDE DEF FlashPulses
      <4> QED BY <3>3, <3>4, <3>5, AppendProperties
    <3>7. \A n : FlashPulse(n)' = FlashPulse(n)
      BY <3>1 DEF FlashPulse, Levels, LevelsOf, Level, decoderVars, products
    <3>8. FlashPulses' = FlashPulses
      BY <3>7 DEF FlashPulses
    <3>9. stage' = "flashes" /\ pmtwvfmVec' = pmtwvfmVec
      BY <3>1 DEF decoderVars, products
    <3>10. ASSUME NEW n \in 1 .. k + 1
           PROVE  n - 1 < NumFlash(pmtwvfmVec) /\ MonPulses'[n] \in FlashPulse(n)
      <4>1. CASE n = k + 1
        <5>1. n - 1 = k
          BY <3>3, <4>1
        <5> QED BY <3>1, <3>4, <3>6, <4>1, <5>1
      <4>2. CASE n \in 1 .. k
        BY <3>2, <3>6, <4>2 DEF FlashInv
      <4> QED BY <3>3, <4>1, <4>2
    <3> HIDE DEF k, FlashInv
    <3>11. /\ MonPulses' \in Seq(FlashPulses') /\ NumFlash(pmtwvfmVec') = NumFlash(pmtwvfmVec)
           /\ \A n \in 1 .. Len(MonPulses') :
                n - 1 < NumFlash(pmtwvfmVec') /\ MonPulses'[n] \in FlashPulse(n)'
      BY <3>6, <3>7, <3>8, <3>9, <3>10
    <3> QED BY <3>9, <3>11 DEF FlashInv
  <2>4. CASE PutWaveforms
    <3>1. stage = "flashes" /\ stage' = "done" /\ UNCHANGED <<readout, pmtwvfmVec, MonPulses>>
      BY <2>4 DEF PutWaveforms, products, pulseVars
    <3>2. AfterDecoding
      BY <3>1 DEF AfterDecoding, DecodeInv
    <3> QED BY <3>1, <3>2, FlashInvStays
  <2>5. CASE EmptyPulse \/ ConstructMonPulse \/ SliceWaveforms
    <3>1. /\ stage \in {"digitized", "slice"} /\ stage' \in {"slice", "done", "null_read"}
          /\ UNCHANGED readout
      BY <2>5 DEF EmptyPulse, ConstructMonPulse, SliceWaveforms
    <3>2. readout'.frags = <<>>
      <4>1. fWaveforms # <<>>
        BY <3>1 DEF SimulationInv
      <4> QED BY <3>1, <4>1 DEF DecodeInv
    <3> QED BY <3>1, <3>2 DEF FlashInv, AfterDecoding
  <2>6. CASE Ended
    BY <2>1, <2>6 DEF Ended
  <2> QED BY <2>1, <2>2, <2>3, <2>4, <2>5, <2>6 DEF Next
<1> QED BY <1>1, <1>2, SimulationInvHolds, DecodeInvHolds, PTL DEF Spec

(* As many flashes as triggers, and where their waveforms are.             *)
LEMMA Quotient ==
  ASSUME NEW n \in Nat, NEW q \in Nat \ {0}
  PROVE  (n * q) \div q = n
<1> DEFINE a == n * q
           d == a \div q
<1>1. a \in Nat
  OBVIOUS
<1>2. d \in Int /\ d * q <= a /\ a < d * q + q
  <2> HIDE DEF a
  <2> QED BY <1>1
<1> HIDE DEF d
<1>3. ~(d < n)
  <2> SUFFICES ASSUME d < n PROVE FALSE
    OBVIOUS
  <2> DEFINE k == n - d - 1
  <2>1. k \in Nat /\ n = d + 1 + k
    BY <1>2
  <2> HIDE DEF k
  <2>2. n * q = d * q + q + k * q
    BY <1>2, <2>1
  <2>3. k * q \in Nat /\ d * q \in Int
    BY <1>2, <2>1
  <2> QED BY <1>2, <2>2, <2>3
<1>4. ~(n < d)
  <2> SUFFICES ASSUME n < d PROVE FALSE
    OBVIOUS
  <2> DEFINE k == d - n - 1
  <2>1. k \in Nat /\ d = n + 1 + k
    BY <1>2
  <2> HIDE DEF k
  <2>2. d * q = n * q + q + k * q
    BY <1>2, <2>1
  <2>3. k * q \in Nat /\ n * q \in Nat
    BY <1>2, <2>1
  <2> QED BY <1>2, <2>2, <2>3
<1> QED BY <1>2, <1>3, <1>4 DEF d

(* With nothing lost, the number of flashes is that of the triggers.       *)
LEMMA FlashesCounted ==
  ASSUME DecodeInv, LayoutInv, AfterDecoding, HasAll
  PROVE  /\ NumFlash(pmtwvfmVec) = Triggers /\ NumFlash(Levels) = Triggers
         /\ TotalCAENBoards = TimingBoard /\ PMTPerBoard \in Nat \ {0}
<1> DEFINE N == Triggers
           P == PMTPerBoard
           T == TimingBoard
<1>1. N \in Nat /\ T \in Nat \ {0} /\ Len(pmtwvfmVec) = (T * N) * P
      /\ DOMAIN pmtwvfmVec = 1 .. Len(pmtwvfmVec)
  BY LayoutWhenDecoded
<1>2. TotalCAENBoards = T
  BY DecoderAssumption DEF TimingBoard
<1>3. P \in Nat \ {0}
  <2>1. P \in Nat /\ P % 2 = 1 /\ 0 % 2 = 0
    BY MonPulseAssumption
  <2> QED BY <2>1
<1>4. T * P \in Nat \ {0}
  BY <1>1, <1>3
<1>5. (T * N) * P = N * (T * P)
  BY <1>1, <1>3
<1>6. NumFlash(pmtwvfmVec) = N
  <2>1. NumFlash(pmtwvfmVec) = (N * (T * P)) \div (T * P)
    BY <1>1, <1>2, <1>5 DEF NumFlash
  <2> DEFINE q == T * P
  <2> HIDE DEF q
  <2>2. (N * q) \div q = N
    <3>1. q \in Nat \ {0}
      BY <1>4 DEF q
    <3> QED BY <1>1, <3>1, Quotient
  <2> QED BY <2>1, <2>2 DEF q
<1>7. Len(Levels) = Len(pmtwvfmVec)
  BY <1>1, LayoutWhenDecoded DEF Levels
<1> QED BY <1>2, <1>3, <1>6, <1>7 DEF NumFlash

(* The light of a trigger in a channel of a board.                         *)
Light(n, x) == [i \in DOMAIN Expected(n) |-> Level(x[1] * PMTPerBoard + x[2], Expected(n)[i])]
Channels == (0 .. TimingBoard - 1) \X (0 .. PMTPerBoard - 1)

(* Stepping through the vector finds a channel's light of the trigger.     *)
LEMMA LightOfChannel ==
  ASSUME DecodeInv, LayoutInv, AfterDecoding, HasAll, NEW n \in 1 .. Triggers, NEW x \in Channels
  PROVE  Levels[1 + WaveIndex(x[2], n - 1, x[1], Triggers)] = Light(n, x)
<1> DEFINE b == x[1]
           c == x[2] + 1
           N == Triggers
           P == PMTPerBoard
           place == (b * N + n - 1) * P + c
<1>1. N \in Nat /\ P \in Nat /\ TimingBoard \in Nat
  BY LayoutWhenDecoded
<1>2. b \in 0 .. TimingBoard - 1 /\ b \in Nat /\ x[2] \in Nat /\ c \in 1 .. P
  BY <1>1 DEF Channels
<1>3. /\ place \in 1 .. Len(pmtwvfmVec) /\ pmtwvfmVec[place].channel = b * P + c - 1
      /\ pmtwvfmVec[place].samples = Expected(n)
  <2> HIDE DEF b, c
  <2> QED BY <1>2, BlockPlace
<1>4. 1 + WaveIndex(x[2], n - 1, b, N) = place
  <2> DEFINE a == b * N
  <2> HIDE DEF a
  <2>1. a \in Nat /\ n \in Nat
    BY <1>1, <1>2 DEF a
  <2>2. (a + n - 1) * P = a * P + (n - 1) * P
    BY <1>1, <2>1
  <2>3. b * P * N = a * P
    BY <1>1, <1>2 DEF a
  <2>4. a * P \in Nat /\ (n - 1) * P \in Nat
    BY <1>1, <2>1
  <2>5. WaveIndex(x[2], n - 1, b, N) = x[2] + (n - 1) * P + a * P
    BY <2>3 DEF WaveIndex
  <2> DEFINE u == a * P
             v == (n - 1) * P
             w == x[2]
  <2>6. u \in Nat /\ v \in Nat /\ w \in Nat
    BY <1>2, <2>4
  <2> HIDE DEF u, v, w
  <2>7. 1 + (w + v + u) = u + v + (w + 1)
    BY <2>6
  <2> QED BY <2>2, <2>5, <2>7 DEF u, v, w, a
<1> HIDE DEF place
<1>5. Levels[place] = LevelsOf(pmtwvfmVec[place])
  BY <1>3, LayoutWhenDecoded DEF Levels
<1>6. b * P + c - 1 = b * P + x[2]
  <2> DEFINE a == b * P
             w == x[2]
  <2>1. a \in Nat /\ w \in Nat
    BY <1>1, <1>2
  <2> HIDE DEF a, w
  <2>2. a + (w + 1) - 1 = a + w
    BY <2>1
  <2> QED BY <2>2 DEF a, w
<1> QED BY <1>3, <1>4, <1>5, <1>6 DEF LevelsOf, Light

(* What a trigger recorded is a sequence of times.                         *)
LEMMA ExpectedTyped ==
  ASSUME IsReadout(readout), NEW n \in 1 .. Triggers
  PROVE  /\ Expected(n) \in Seq(Int) /\ Len(Expected(n)) \in Nat
         /\ DOMAIN Expected(n) = 1 .. Len(Expected(n))
<1> DEFINE t == readout.triggers[n]
           K == Kept(t)
           parts == [k \in 1 .. K |-> SamplesOf(t[k])]
<1>1. IsTrigger(t) /\ Len(t) \in Nat \ {0}
  BY TriggersLieAt DEF Triggers
<1>2. t \in Seq(Piece) /\ K \in 1 .. Len(t)
  <2> HIDE DEF t
  <2>1. t \in Seq(Piece)
    BY <1>1 DEF IsTrigger, Piece
  <2> QED BY <1>1, <2>1, KeptExists
<1>3. Expected(n) = FlattenSeq(parts)
  BY DEF Expected, TimesOf
<1> HIDE DEF t, K
<1>4. ASSUME NEW k \in 1 .. K PROVE SamplesOf(t[k]) \in Seq(Int)
  <2>1. t[k] \in Piece
    <3> HIDE DEF Piece
    <3> QED BY <1>1, <1>2
  <2>2. t[k].end \in Nat /\ t[k].len \in Nat
    BY <2>1 DEF Piece
  <2> QED BY <2>2, SamplesOfFragment
<1>5. parts \in Seq(Seq(Int))
  <2>1. K \in Nat
    BY <1>1, <1>2
  <2>2. parts \in [1 .. K -> Seq(Int)]
    BY <1>4
  <2> QED BY <2>1, <2>2
<1> HIDE DEF parts
<1>6. FlattenSeq(parts) \in Seq(Int)
  BY <1>5, Flattened
<1> QED BY <1>3, <1>6

(* The groups of a board's channels are finitely many.                     *)
LEMMA BoardGroupsAreFinite ==
  ASSUME TotalCAENBoards = TimingBoard, TimingBoard \in Nat, PMTPerBoard \in Nat \ {0}
  PROVE  IsFiniteSet(BoardGroups) /\ \A g \in BoardGroups : g \subseteq Channels
<1> DEFINE T == TimingBoard
           P == PMTPerBoard
<1>1. IsFiniteSet(Channels)
  <2>1. IsFiniteSet(0 .. T - 1) /\ IsFiniteSet(0 .. P - 1)
    BY FS_Interval
  <2> QED BY <2>1, FS_Product DEF Channels
<1>2. \A g \in BoardGroups : g \subseteq Channels
  <2> SUFFICES ASSUME NEW g \in BoardGroups PROVE g \subseteq Channels
    OBVIOUS
  <2>1. CASE \E b \in 0 .. T - 1 : g = {<<b, P - 1>>}
    <3>1. PICK b \in 0 .. T - 1 : g = {<<b, P - 1>>}
      BY <2>1
    <3>2. P - 1 \in 0 .. P - 1
      OBVIOUS
    <3> QED BY <3>1, <3>2 DEF Channels
  <2>2. CASE \E b \in 0 .. T - 1, c \in {k \in 0 .. P - 2 : k % 2 = 0} : g = {<<b, c>>, <<b, c + 1>>}
    <3>1. PICK b \in 0 .. T - 1, c \in {k \in 0 .. P - 2 : k % 2 = 0} : g = {<<b, c>>, <<b, c + 1>>}
      BY <2>2
    <3>2. c \in 0 .. P - 1 /\ c + 1 \in 0 .. P - 1
      OBVIOUS
    <3> QED BY <3>1, <3>2 DEF Channels
  <2> QED BY <2>1, <2>2 DEF BoardGroups
<1>3. BoardGroups \subseteq SUBSET Channels
  BY <1>2
<1>4. IsFiniteSet(SUBSET Channels)
  BY <1>1, FS_SUBSET
<1>5. IsFiniteSet(BoardGroups)
  BY <1>3, <1>4, FS_Subset
<1> QED BY <1>2, <1>5

(* The pulse of a flash, whatever lies beyond the waveforms.               *)
LEMMA FlashPulseCounts ==
  ASSUME DecodeInv, LayoutInv, AfterDecoding, HasAll, NEW n \in 1 .. Triggers,
         NEW pulse \in FlashPulse(n)
  PROVE  /\ Len(pulse) = Len(Expected(n))
         /\ Counted(pulse, BoardGroups, [x \in Channels |-> Light(n, x)])
<1> DEFINE W == [x \in Channels |-> Light(n, x)]
           G == BoardGroups
           Wfm(x) == Levels[1 + WaveIndex(x[2], n - 1, x[1], NumFlash(Levels))]
           size == Len(Wfm(<<0, 0>>))
           e == Len(Expected(n))
<1>1. PICK beyond \in BOOLEAN : pulse = DataMonPulse(Levels, n - 1, beyond)
  BY DEF FlashPulse
<1> DEFINE On(x) == ConstructBinaryResponse(Wfm(x))
                      \cup (IF beyond THEN Len(Wfm(x)) + 1 .. size ELSE {})
           response == [g \in G |-> UNION {On(x) : x \in g}]
<1>2. pulse = [i \in 1 .. size |-> Cardinality({g \in G : i \in response[g]})]
  BY <1>1 DEF DataMonPulse, SumOfGroups
<1>3. /\ IsReadout(readout) /\ TimingBoard \in Nat \ {0} /\ PMTPerBoard \in Nat \ {0}
      /\ NumFlash(Levels) = Triggers /\ TotalCAENBoards = TimingBoard
  BY LayoutWhenDecoded, FlashesCounted
<1>4. IsFiniteSet(G) /\ \A g \in G : g \subseteq Channels
  BY <1>3, BoardGroupsAreFinite
<1>5. \A x \in Channels : Wfm(x) = W[x]
  BY <1>3, LightOfChannel
<1>6. e \in Nat /\ \A x \in Channels : Len(W[x]) = e
  BY <1>3, ExpectedTyped DEF Light
<1>7. size = e
  <2>1. <<0, 0>> \in Channels
    BY <1>3 DEF Channels
  <2> HIDE DEF W, Wfm, e
  <2> QED BY <1>5, <1>6, <2>1
<1> HIDE DEF W, Wfm, size, e, G
<1>8. \A g \in G : \A x \in g : On(x) = ConstructBinaryResponse(W[x])
  <2> SUFFICES ASSUME NEW g \in G, NEW x \in g PROVE On(x) = ConstructBinaryResponse(W[x])
    OBVIOUS
  <2>1. x \in Channels /\ Wfm(x) = W[x] /\ Len(Wfm(x)) + 1 .. size = {}
    BY <1>4, <1>5, <1>6, <1>7
  <2> QED BY <2>1
<1>9. ASSUME NEW i \in 1 .. size
      PROVE  {g \in G : i \in response[g]}
               = {g \in G : \E x \in g : i \in ConstructBinaryResponse(W[x])}
  <2> HIDE DEF On
  <2>1. \A g \in G : i \in response[g] <=> \E x \in g : i \in On(x)
    OBVIOUS
  <2> HIDE DEF response
  <2> QED BY <1>8, <2>1
<1> HIDE DEF response
<1>10. pulse = PulseOf(G, W, e)
  BY <1>2, <1>7, <1>9 DEF PulseOf
<1>11. \A g \in G : \A x \in g : Len(W[x]) = e
  BY <1>4, <1>6
<1>12. Counted(PulseOf(G, W, e), G, W)
  BY <1>4, <1>6, <1>11, GroupsAreCounted
<1>13. Len(pulse) = e
  BY <1>6, <1>10 DEF PulseOf
<1> QED BY <1>10, <1>12, <1>13 DEF e, G, W

(* With nothing lost, flash by flash and whatever is read beyond the       *)
(* waveforms: as many flashes as triggers, and the pulse of a flash counts *)
(* the pairs of channels that the light of its trigger brought below       *)
(* threshold, on every board.                                              *)
THEOREM FlashesAreTriggers == Spec => []FlashIsTrigger
<1>1. DecodeInv /\ LayoutInv /\ FlashInv => FlashIsTrigger
  <2> SUFFICES ASSUME DecodeInv, LayoutInv, FlashInv, AfterDecoding, HasAll
               PROVE  /\ NumFlash(pmtwvfmVec) = Len(readout.triggers)
                      /\ \A n \in DOMAIN MonPulses :
                           LET times == Expected(n)
                               True(x) == [i \in DOMAIN times |->
                                             Level(x[1] * PMTPerBoard + x[2], times[i])]
                           IN /\ Len(MonPulses[n]) = Len(times)
                              /\ CountsPairs(MonPulses[n], BoardGroups, True)
    BY DEF FlashIsTrigger, Expected
  <2>1. /\ NumFlash(pmtwvfmVec) = Triggers /\ Triggers \in Nat
        /\ TotalCAENBoards = TimingBoard /\ TimingBoard \in Nat /\ PMTPerBoard \in Nat \ {0}
    BY FlashesCounted, LayoutWhenDecoded
  <2>2. DOMAIN MonPulses = 1 .. Len(MonPulses) /\ Len(MonPulses) \in Nat
    BY DEF FlashInv
  <2>3. ASSUME NEW n \in DOMAIN MonPulses
        PROVE  LET times == Expected(n)
                   True(x) == [i \in DOMAIN times |-> Level(x[1] * PMTPerBoard + x[2], times[i])]
               IN /\ Len(MonPulses[n]) = Len(times)
                  /\ CountsPairs(MonPulses[n], BoardGroups, True)
    <3> DEFINE pulse == MonPulses[n]
               W == [x \in Channels |-> Light(n, x)]
               CrossedIn(g, i) == \E x \in g : Crossed(W[x], i)
               CrossedAt(g, i) == \E x \in g : Crossed(Light(n, x), i)
    <3>1. n \in 1 .. Triggers /\ pulse \in FlashPulse(n)
      <4>1. n \in 1 .. Len(MonPulses) /\ n - 1 < Triggers /\ pulse \in FlashPulse(n)
        BY <2>1, <2>2 DEF FlashInv
      <4> HIDE DEF pulse
      <4> QED BY <2>1, <2>2, <4>1
    <3>2. Len(pulse) = Len(Expected(n)) /\ Counted(pulse, BoardGroups, W)
      BY <3>1, FlashPulseCounts
    <3>3. \A g \in BoardGroups : g \subseteq Channels
      BY <2>1, BoardGroupsAreFinite
    <3>4. \A g \in BoardGroups : \A i : CrossedIn(g, i) <=> CrossedAt(g, i)
      <4> SUFFICES ASSUME NEW g \in BoardGroups, NEW i PROVE CrossedIn(g, i) <=> CrossedAt(g, i)
        OBVIOUS
      <4>1. \A x \in g : W[x] = Light(n, x)
        BY <3>3
      <4> HIDE DEF W
      <4> QED BY <4>1
    <3> HIDE DEF pulse, W, CrossedIn, CrossedAt
    <3>5. ASSUME NEW i \in 2 .. Len(pulse) - 1
          PROVE  /\ pulse[i] <= Cardinality({g \in BoardGroups :
                      \E k \in 2 .. i : i - k < MonSamples /\ CrossedAt(g, k)})
                 /\ Cardinality({g \in BoardGroups : CrossedAt(g, i)}) <= pulse[i] + pulse[i - 1]
      <4>1. /\ pulse[i] <= Cardinality({g \in BoardGroups :
                      \E k \in 2 .. i : i - k < MonSamples /\ CrossedIn(g, k)})
            /\ Cardinality({g \in BoardGroups : CrossedIn(g, i)}) <= pulse[i] + pulse[i - 1]
        BY <3>2 DEF Counted, CountsPairs, CrossedIn
      <4>2. /\ {g \in BoardGroups : \E k \in 2 .. i : i - k < MonSamples /\ CrossedIn(g, k)}
                 = {g \in BoardGroups : \E k \in 2 .. i : i - k < MonSamples /\ CrossedAt(g, k)}
            /\ {g \in BoardGroups : CrossedIn(g, i)} = {g \in BoardGroups : CrossedAt(g, i)}
        BY <3>4
      <4> QED BY <4>1, <4>2
    <3> QED BY <3>2, <3>5 DEF CountsPairs, CrossedAt, Light, pulse
  <2> QED BY <2>1, <2>3 DEF Triggers
<1> QED BY <1>1, DecodeInvHolds, LayoutInvHolds, FlashInvHolds, PTL
=============================================================================
