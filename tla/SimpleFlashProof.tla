-------------------------- MODULE SimpleFlashProof --------------------------
(***************************************************************************)
(* Proofs about SimpleFlashAlgo, for every event and all parameters that   *)
(* Configure accepts. The windows of the flashes are disjoint: a window is *)
(* cut for the flash that the loop meets last among those it runs into,    *)
(* and the invariant (ClaimsOrdered) says why that is the nearest: of two  *)
(* flashes the later claimed is either beyond the veto of the earlier or   *)
(* wholly before it, so the flashes within one veto time of a start were   *)
(* claimed from the farthest to the nearest. Every candidate is accounted  *)
(* for and a flash is made of its own hits: the bins hold what the hits    *)
(* put into them (BinsInv), and a candidate given up was in the way of a   *)
(* claim (ClaimedInv).                                                     *)
(***************************************************************************)
EXTENDS SimpleFlash, FoldLemmas

Periods == [first : Nat, second : Int, peak : Nat]

(* How the claim q lies to an earlier claim p.                             *)
Beyond(q, p)      == p.first + veto_ctr <= q.first
EndsBefore(q, p)  == q.first < p.first /\ EndOf(q) <= p.first

ClaimsOrdered ==
  \A i, j \in DOMAIN flash_period_v : i < j =>
    \/ Beyond(flash_period_v[j], flash_period_v[i])
    \/ EndsBefore(flash_period_v[j], flash_period_v[i])

FlashInv ==
  /\ fConfig \in Configs /\ candidates \subseteq Nat
  /\ flash_period_v \in Seq(Periods)
  /\ \A j \in DOMAIN flash_period_v : flash_period_v[j].second <= veto_ctr
  /\ ClaimsOrdered

(* The constants are natural numbers.                                      *)
LEMMA ParametersAreNaturals ==
  /\ veto_ctr \in Nat /\ integral_ctr \in Nat /\ precount \in Nat /\ time_dif_ctr \in Nat
  /\ min_time_before_ctr \in Nat /\ integral_ctr <= veto_ctr
BY FlashAssumption DEF FlashAssumption, Counts

(* Rounding down to a bin keeps the order of times.                        *)
LEMMA BinsInOrder ==
  ASSUME NEW a \in Int, NEW b \in Int, a <= b
  PROVE  /\ a \div Resolution \in Int /\ b \div Resolution \in Int
         /\ a \div Resolution <= b \div Resolution /\ (0 <= a => 0 <= a \div Resolution)
<1>1. Resolution \in Nat \ {0}
  BY FlashAssumption DEF FlashAssumption
<1> QED BY <1>1

(* An event has a number of bins, and each of its hits is in one of them.  *)
LEMMA BinsAreCounted ==
  ASSUME NEW c \in Configs, NEW H \in Events(c)
  PROVE  NBins(H) \in Nat \ {0} /\ \A h \in H : IndexOf(H, h) \in 0 .. NBins(H) - 1
<1>1. CASE H = {}
  BY <1>1 DEF NBins
<1>2. CASE H # {}
  <2> DEFINE T == {h.time : h \in H}
  <2>1. IsFiniteSet(H) /\ \A h \in H : h.time \in Int
    BY EventsAssumption DEF EventsAssumption
  <2>2. IsFiniteSet(T) /\ T # {} /\ \A t \in T : t \in Int
    <3> DEFINE g == [h \in H |-> h.time]
    <3>1. g \in Surjection(H, T)
      BY DEF Surjection
    <3>2. IsFiniteSet(T)
      <4> HIDE DEF g, T
      <4> QED BY <2>1, <3>1, FS_Surjection
    <3> QED BY <1>2, <2>1, <3>2
  <2>3. \E f \in T, l \in T : \A t \in T : f <= t /\ t <= l
    <3> HIDE DEF T
    <3> QED BY <2>2, HasFirstAndLast
  <2>4. PICK f \in T, l \in T : \A t \in T : f <= t /\ t <= l
    BY <2>3
  <2>5. FirstTime(H) \in T /\ \A h \in H : FirstTime(H) <= h.time
    <3>1. f \in T /\ \A h \in H : f <= h.time
      BY <2>4
    <3> QED BY <3>1 DEF FirstTime
  <2>6. LastTime(H) \in T /\ \A h \in H : h.time <= LastTime(H)
    <3>1. l \in T /\ \A h \in H : h.time <= l
      BY <2>4
    <3> QED BY <3>1 DEF LastTime
  <2>7. Margin * Resolution \in Nat
    <3>1. Resolution \in Nat /\ Margin \in Nat
      BY FlashAssumption DEF FlashAssumption
    <3> QED BY <3>1
  <2> DEFINE m    == Margin * Resolution
             span == LastTime(H) + m - MinTime(H)
  <2>8. FirstTime(H) \in Int /\ LastTime(H) \in Int /\ MinTime(H) = FirstTime(H) - m
    BY <2>2, <2>5, <2>6 DEF MinTime
  <2>9. span \in Int /\ \A h \in H : LET t == h.time - MinTime(H)
                                     IN t \in Int /\ 0 <= t /\ t <= span
    <3> HIDE DEF m
    <3>1. m \in Nat
      BY <2>7 DEF m
    <3> QED BY <2>1, <2>5, <2>6, <2>8, <3>1
  <2>10. NBins(H) = (span \div Resolution) + 1
    BY <1>2 DEF NBins
  <2> HIDE DEF span
  <2>11. ASSUME NEW h \in H
         PROVE  /\ span \div Resolution \in Nat
                /\ IndexOf(H, h) \in 0 .. (span \div Resolution)
    <3> DEFINE t == h.time - MinTime(H)
    <3>1. t \in Int /\ 0 <= t /\ t <= span
      BY <2>9
    <3>2. IndexOf(H, h) = t \div Resolution
      BY DEF IndexOf
    <3> HIDE DEF t
    <3> QED BY <2>9, <3>1, <3>2, BinsInOrder
  <2>12. span \div Resolution \in Nat
    BY <1>2, <2>11
  <2> HIDE DEF m
  <2> QED BY <2>10, <2>11, <2>12
<1> QED BY <1>1, <1>2

(* The PE of some of the hits of an event are a sum over the event.        *)
LEMMA PEIsSum ==
  ASSUME NEW c \in Configs, NEW H \in Events(c), NEW S \in SUBSET H
  PROVE  /\ IsFiniteSet(S) /\ PEOf(S) \in Int
         /\ PEOf(S) = SumFunctionOnSet([h \in H |-> h.pe], S)
<1>1. IsFiniteSet(H) /\ \A h \in H : h.pe \in Int
  BY EventsAssumption DEF EventsAssumption
<1>2. IsFiniteSet(S)
  BY <1>1, FS_Subset
<1> DEFINE f == [h \in H |-> h.pe]
           g == [h \in S |-> h.pe]
<1>3. PEOf(S) = SumFunctionOnSet(g, S)
  BY DEF PEOf, SumFunction
<1>4. \A h \in S : f[h] \in Int /\ g[h] = f[h]
  BY <1>1
<1> HIDE DEF f, g
<1>5. SumFunctionOnSet(g, S) = SumFunctionOnSet(f, S)
  BY <1>2, <1>4, SumsAgree
<1>6. Int \in {Int, Nat} /\ \A h \in S : f[h] \in Int
  BY <1>4
<1>7. SumFunctionOnSet(f, S) \in Int
  BY <1>2, <1>6, SumType
<1> QED BY <1>2, <1>3, <1>5, <1>7 DEF f

(* A window that no claim forbids goes to the end of the claims, in order. *)
LEMMA ClaimKeepsOrder ==
  ASSUME FlashInv, NEW start \in Nat, NEW pe, NEW n \in Windows(start), NEW idx \in Nat,
         \A j \in DOMAIN flash_period_v : ~Skips(start, pe, flash_period_v[j]),
         flash_period_v' = Append(flash_period_v, [first |-> start, second |-> n, peak |-> idx])
  PROVE  /\ flash_period_v' \in Seq(Periods)
         /\ \A j \in DOMAIN flash_period_v' : flash_period_v'[j].second <= veto_ctr
         /\ ClaimsOrdered'
<1> DEFINE fp == flash_period_v
           p == [first |-> start, second |-> n, peak |-> idx]
<1>1. fp \in Seq(Periods) /\ \A j \in DOMAIN fp : fp[j] \in Periods
  BY DEF FlashInv
<1>2. n \in Int /\ n <= veto_ctr
  <2>1. CASE Ahead(start) = {}
    BY <2>1, ParametersAreNaturals DEF Windows
  <2>2. CASE Ahead(start) # {}
    <3>1. PICK j \in LastClaimed(start) : n = fp[j].first - start - time_dif_ctr
      BY <2>2 DEF Windows
    <3>2. j \in DOMAIN fp /\ fp[j].first < start + veto_ctr
      BY <3>1 DEF LastClaimed, Ahead, RunsInto
    <3>3. fp[j].first \in Nat
      BY <1>1, <3>2 DEF Periods
    <3> QED BY <3>1, <3>2, <3>3, ParametersAreNaturals
  <2> QED BY <2>1, <2>2
<1>3. p \in Periods /\ p.first = start /\ EndOf(p) = start + n
  BY <1>2 DEF Periods, EndOf
<1>4. ASSUME NEW i \in DOMAIN fp PROVE Beyond(p, fp[i]) \/ EndsBefore(p, fp[i])
  <2>1. fp[i].first \in Nat
    BY <1>1 DEF Periods
  <2>2. ~InVeto(start, fp[i]) /\ (RunsInto(start, fp[i]) => LeavesRoom(start, pe, fp[i]))
    BY DEF Skips
  <2>3. CASE fp[i].first + veto_ctr <= start
    BY <1>3, <2>3 DEF Beyond
  <2>4. CASE start < fp[i].first /\ ~RunsInto(start, fp[i])
    <3>1. start + veto_ctr <= fp[i].first
      BY <2>1, <2>4, ParametersAreNaturals DEF RunsInto
    <3> QED BY <1>2, <1>3, <2>1, <2>4, <3>1, ParametersAreNaturals DEF EndsBefore
  <2>5. CASE start < fp[i].first /\ RunsInto(start, fp[i])
    <3>1. i \in Ahead(start)
      BY <2>5 DEF Ahead
    <3>2. PICK j \in LastClaimed(start) : n = fp[j].first - start - time_dif_ctr
      BY <3>1 DEF Windows
    <3>3. j \in DOMAIN fp /\ RunsInto(start, fp[j]) /\ i <= j
      BY <3>1, <3>2 DEF LastClaimed, Ahead
    <3>4. fp[j].first \in Nat /\ fp[j].second \in Int
      BY <1>1, <3>3 DEF Periods
    <3>5. fp[j].first <= fp[i].first
      <4>1. CASE i = j
        BY <2>1, <4>1
      <4>2. CASE i < j
        <5>1. Beyond(fp[j], fp[i]) \/ EndsBefore(fp[j], fp[i])
          BY <3>3, <4>2 DEF FlashInv, ClaimsOrdered
        <5>2. fp[j].first < fp[i].first + veto_ctr
          BY <2>1, <2>5, <3>3, <3>4, ParametersAreNaturals DEF RunsInto
        <5> QED BY <2>1, <3>4, <5>1, <5>2, ParametersAreNaturals DEF Beyond, EndsBefore
      <4>3. i \in Nat /\ j \in Nat
        BY <1>1, <3>3
      <4> QED BY <3>3, <4>1, <4>2, <4>3
    <3>6. start + n <= fp[i].first
      BY <2>1, <3>2, <3>4, <3>5, ParametersAreNaturals
    <3> QED BY <1>3, <2>5, <3>6 DEF EndsBefore
  <2> QED BY <2>1, <2>2, <2>3, <2>4, <2>5, ParametersAreNaturals DEF InVeto
<1>5. /\ fp' \in Seq(Periods) /\ DOMAIN fp' = 1 .. Len(fp) + 1 /\ DOMAIN fp = 1 .. Len(fp)
      /\ \A j \in DOMAIN fp : fp'[j] = fp[j]
      /\ fp'[Len(fp) + 1] = p
  BY <1>1, <1>3
<1>6. \A j \in DOMAIN fp' : fp'[j].second <= veto_ctr
  BY <1>2, <1>5 DEF FlashInv
<1>7. ClaimsOrdered'
  <2> SUFFICES ASSUME NEW i \in DOMAIN fp', NEW j \in DOMAIN fp', i < j
               PROVE  Beyond(fp'[j], fp'[i]) \/ EndsBefore(fp'[j], fp'[i])
    BY DEF ClaimsOrdered, Beyond, EndsBefore, EndOf
  <2>1. Len(fp) \in Nat /\ i \in DOMAIN fp
    BY <1>1, <1>5
  <2>2. CASE j \in DOMAIN fp
    <3>1. Beyond(fp[j], fp[i]) \/ EndsBefore(fp[j], fp[i])
      BY <2>1, <2>2 DEF FlashInv, ClaimsOrdered
    <3> QED BY <1>5, <2>1, <2>2, <3>1
  <2>3. CASE j = Len(fp) + 1
    BY <1>4, <1>5, <2>1, <2>3
  <2> QED BY <1>5, <2>1, <2>2, <2>3
<1> QED BY <1>5, <1>6, <1>7

(* Every step keeps the claims in order.                                   *)
LEMMA FlashStep == FlashInv /\ [Next]_flashVars => FlashInv'
<1> SUFFICES ASSUME FlashInv, [Next]_flashVars PROVE FlashInv'
  OBVIOUS
<1>1. CASE FillBins
  <2>1. fConfig' \in Configs /\ flash_period_v' = <<>>
    BY <1>1 DEF FillBins, FlashInv
  <2>2. PICK i \in Instances, H \in Events(fConfig) :
           pesum' = [k \in 0 .. NBins(H) - 1 |->
                       PEOf({h \in UsableHits(i, H) : IndexOf(H, h) = k})]
    BY <1>1 DEF FillBins
  <2>3. NBins(H) \in Nat
    BY BinsAreCounted DEF FlashInv
  <2>4. candidates' \subseteq DOMAIN pesum'
    BY <1>1 DEF FillBins
  <2>5. DOMAIN pesum' = 0 .. NBins(H) - 1
    BY <2>2
  <2>6. candidates' \subseteq Nat
    BY <2>3, <2>4, <2>5
  <2> QED BY <2>1, <2>6 DEF FlashInv, ClaimsOrdered
<1>2. CASE Claim
  <2>1. PICK idx \in candidates : LookAt(idx)
    BY <1>2 DEF Claim
  <2>2. idx \in Nat /\ StartOf(idx) \in Nat
    BY ParametersAreNaturals DEF FlashInv, StartOf
  <2>3. fConfig' \in Configs /\ candidates' \subseteq Nat
    BY <2>1 DEF LookAt, FlashInv
  <2>4. CASE UNCHANGED flash_period_v
    BY <2>3, <2>4 DEF FlashInv, ClaimsOrdered, Beyond, EndsBefore, EndOf
  <2>5. CASE /\ \A j \in DOMAIN flash_period_v :
                  ~Skips(StartOf(idx), pesum[idx], flash_period_v[j])
             /\ \E n \in Windows(StartOf(idx)) :
                  flash_period_v' = Append(flash_period_v,
                    [first |-> StartOf(idx), second |-> n, peak |-> idx])
    BY <2>2, <2>3, <2>5, ClaimKeepsOrder DEF FlashInv
  <2> QED BY <2>1, <2>4, <2>5 DEF LookAt
<1>3. CASE Construct
  BY <1>3 DEF Construct, FlashInv, ClaimsOrdered, Beyond, EndsBefore, EndOf
<1>4. CASE UNCHANGED flashVars
  BY <1>4 DEF flashVars, FlashInv, ClaimsOrdered, Beyond, EndsBefore, EndOf
<1> QED BY <1>1, <1>2, <1>3, <1>4 DEF Next

(* Windows in order are disjoint: one that is beyond another's veto is     *)
(* beyond its end too.                                                     *)
LEMMA OrderedAreDisjoint == FlashInv => WindowsDisjoint
<1> SUFFICES ASSUME FlashInv, NEW i \in DOMAIN flash_period_v, NEW j \in DOMAIN flash_period_v,
                    i < j
             PROVE  \/ EndOf(flash_period_v[i]) <= flash_period_v[j].first
                    \/ EndOf(flash_period_v[j]) <= flash_period_v[i].first
  <2>1. \A i \in DOMAIN flash_period_v : i \in Nat
    BY DEF FlashInv
  <2> QED BY <2>1 DEF WindowsDisjoint
<1>1. flash_period_v[i] \in Periods /\ flash_period_v[j] \in Periods
  BY DEF FlashInv
<1>2. flash_period_v[i].second <= veto_ctr
  BY DEF FlashInv
<1>3. \/ Beyond(flash_period_v[j], flash_period_v[i])
      \/ EndsBefore(flash_period_v[j], flash_period_v[i])
  BY DEF FlashInv, ClaimsOrdered
<1> QED BY <1>1, <1>2, <1>3, ParametersAreNaturals DEF Beyond, EndsBefore, EndOf, Periods

(* No two flashes share a bin: for all parameters that Configure accepts   *)
(* and all sequences of events, the windows RecoFlash claims are disjoint. *)
THEOREM FlashesAreDisjoint == Spec => []WindowsDisjoint
<1>1. Init => FlashInv
  BY DEF Init, FlashInv, ClaimsOrdered
<1> QED BY <1>1, FlashStep, OrderedAreDisjoint, PTL DEF Spec
-----------------------------------------------------------------------------
(* The bins of the call: hits, PE by channel, and the sum of PE.           *)
InBin(k)     == {h \in UsableHits(fInstance, hits) : IndexOf(hits, h) = k}
OnChannel(S, c) == {h \in S : h.channel = c}

Empty == bins = <<>> /\ pesum = <<>> /\ candidates = {} /\ flash_period_v = <<>> /\ flashes = {}

BinsFilled ==
  /\ hits \in Events(fConfig)
  /\ pesum = [k \in 0 .. NBins(hits) - 1 |-> PEOf(InBin(k))]
  /\ DOMAIN pesum \subseteq DOMAIN bins
  /\ \A k \in DOMAIN bins :
       /\ bins[k].hitidx = InBin(k)
       /\ bins[k].pespec = [c \in UNION {Channels[i] : i \in Instances} |->
                              PEOf(OnChannel(InBin(k), c))]

BinsInv ==
  /\ fConfig \in Configs /\ fInstance \in Instances
  /\ \E n \in Nat : DOMAIN bins = 0 .. n - 1
  /\ Empty \/ BinsFilled

(* RecoFlash clears the bins it shares with earlier calls before it fills  *)
(* them, so they hold the hits of this call and no others.                 *)
LEMMA FillingFills == BinsInv /\ FillBins => BinsInv'
<1> SUFFICES ASSUME BinsInv, FillBins PROVE BinsInv'
  OBVIOUS
<1>1. PICK i \in Instances, H \in Events(fConfig) :
        LET In(k) == {h \in UsableHits(i, H) : IndexOf(H, h) = k}
        IN /\ fInstance' = i /\ hits' = H
           /\ pesum' = [k \in 0 .. NBins(H) - 1 |-> PEOf(In(k))]
           /\ bins' = LET cleared == Clear(NBins(H))
                      IN [k \in DOMAIN cleared |-> AddHits(cleared[k], In(k))]
  BY DEF FillBins
<1> DEFINE In(k) == {h \in UsableHits(i, H) : IndexOf(H, h) = k}
           N == NBins(H)
           All == UNION {Channels[j] : j \in Instances}
<1>2. fConfig \in Configs /\ fConfig' = fConfig
  BY DEF FillBins, BinsInv
<1>3. \A k : In(k)  = InBin(k)'
  BY <1>1 DEF InBin
<1>4. N \in Nat /\ \A k : In(k) \in SUBSET H
  BY <1>2, BinsAreCounted DEF UsableHits
<1>5. Size(N) \in Nat /\ N <= Size(N)
  <2>1. PICK n \in Nat : DOMAIN bins = 0 .. n - 1
    BY DEF BinsInv
  <2>2. Cardinality(DOMAIN bins) \in Nat
    BY <2>1, FS_Interval, FS_CardinalityType
  <2> HIDE DEF N
  <2> QED BY <1>4, <2>2 DEF Size
<1>6. bins' = [k \in 0 .. Size(N) - 1 |-> AddHits(EmptyBin, In(k))]
  <2>1. DOMAIN Clear(N) = 0 .. Size(N) - 1 /\ \A k \in 0 .. Size(N) - 1 : Clear(N)[k] = EmptyBin
    BY DEF Clear
  <2> QED BY <1>1, <2>1
<1>7. ASSUME NEW k \in 0 .. Size(N) - 1
      PROVE  /\ bins'[k].hitidx = In(k)
             /\ bins'[k].pespec = [c \in All |-> PEOf(OnChannel(In(k), c))]
  <2>1. \A c \in All : OnChannel(In(k), c) \in SUBSET H
    BY <1>4 DEF OnChannel
  <2>2. \A c \in All : 0 + PEOf(OnChannel(In(k), c)) = PEOf(OnChannel(In(k), c))
    <3> SUFFICES ASSUME NEW c \in All PROVE PEOf(OnChannel(In(k), c)) \in Int
      OBVIOUS
    <3> QED BY <1>2, <2>1, PEIsSum
  <2>3. bins'[k] = AddHits(EmptyBin, In(k))
    BY <1>6
  <2>4. bins'[k].hitidx = In(k)
    BY <2>3 DEF AddHits, EmptyBin
  <2>5. bins'[k].pespec = [c \in All |-> 0 + PEOf(OnChannel(In(k), c))]
    <3>1. EmptyBin.pespec = [c \in All |-> 0]
      BY DEF EmptyBin
    <3> QED BY <2>3, <3>1 DEF AddHits, OnChannel
  <2> QED BY <2>2, <2>4, <2>5
<1>8. DOMAIN bins' = 0 .. Size(N) - 1 /\ DOMAIN pesum' = 0 .. N - 1
  BY <1>1, <1>6
<1>9. BinsFilled'
  <2>1. hits' \in Events(fConfig') /\ DOMAIN pesum' \subseteq DOMAIN bins'
    BY <1>1, <1>2, <1>4, <1>5, <1>8
  <2>2. pesum' = [k \in 0 .. NBins(hits') - 1 |-> PEOf(InBin(k)')]
    BY <1>1, <1>3
  <2>3. \A k \in DOMAIN bins' : /\ bins'[k].hitidx = InBin(k)'
                                /\ bins'[k].pespec = [c \in All |-> PEOf(OnChannel(InBin(k)', c))]
    <3> SUFFICES ASSUME NEW k \in 0 .. Size(N) - 1
                 PROVE  /\ bins'[k].hitidx = InBin(k)'
                        /\ bins'[k].pespec = [c \in All |-> PEOf(OnChannel(InBin(k)', c))]
      BY <1>8
    <3>1. In(k) = InBin(k)'
      BY <1>3
    <3> HIDE DEF In, All, N
    <3> QED BY <1>7, <3>1
  <2> QED BY <2>1, <2>2, <2>3 DEF BinsFilled, OnChannel, PEOf, NBins
<1> QED BY <1>1, <1>2, <1>5, <1>8, <1>9 DEF BinsInv

(* Every step keeps what the bins are known to hold.                       *)
LEMMA BinsStep == BinsInv /\ [Next]_flashVars => BinsInv'
<1> SUFFICES ASSUME BinsInv, [Next]_flashVars PROVE BinsInv'
  OBVIOUS
<1> USE DEF BinsInv, Empty, BinsFilled, InBin, OnChannel
<1>1. CASE FillBins
  BY <1>1, FillingFills
<1>2. CASE Claim
  <2>1. PICK idx \in candidates : LookAt(idx)
    BY <1>2 DEF Claim
  <2>2. BinsFilled
    OBVIOUS
  <2> QED BY SMTT(30), <2>1, <2>2 DEF LookAt
<1>3. CASE Construct
  BY <1>3 DEF Construct
<1>4. CASE UNCHANGED flashVars
  BY <1>4 DEF flashVars
<1> QED BY <1>1, <1>2, <1>3, <1>4 DEF Next

-----------------------------------------------------------------------------
(* What is known of a claim: it starts before a bin of the call, reaches   *)
(* the threshold, is no dimmer than what is still to come, and is cut only *)
(* for an earlier one.                                                     *)
Bright(p) ==
  /\ p.peak \in DOMAIN pesum /\ p.first = StartOf(p.peak)
  /\ PEThreshold <= PEInWindow(p.first, p.second)
  /\ \A k \in candidates : pesum[k] <= pesum[p.peak]

CutFor(p, q) ==
  /\ EndOf(p) + time_dif_ctr = q.first /\ q.first < p.first + veto_ctr
  /\ LeavesRoom(p.first, pesum[p.peak], q) /\ pesum[p.peak] <= pesum[q.peak]

AccountedFor(idx) ==
  \/ PEInWindow(StartOf(idx), integral_ctr) < PEThreshold
  \/ \E j \in DOMAIN flash_period_v :
       LET p == flash_period_v[j]
       IN \/ p.peak = idx
          \/ /\ pesum[idx] <= pesum[p.peak]
             /\ InVeto(StartOf(idx), p) \/ RunsInto(StartOf(idx), p)

ClaimedInv ==
  /\ stage \in {"idle", "claim"} /\ candidates \subseteq DOMAIN pesum
  /\ \A j \in DOMAIN flash_period_v :
       /\ Bright(flash_period_v[j])
       /\ \/ flash_period_v[j].second = integral_ctr
          \/ \E i \in 1 .. j - 1 : CutFor(flash_period_v[j], flash_period_v[i])
  /\ \A idx \in DOMAIN pesum : IsCandidate(idx) /\ idx \notin candidates => AccountedFor(idx)
  /\ \A f \in flashes : \E j \in DOMAIN flash_period_v : f = FlashOf(flash_period_v[j])

(* The PE of a bin is an integer, and so is that of a window.              *)
LEMMA PEAreIntegers ==
  ASSUME BinsInv
  PROVE  /\ \A k \in DOMAIN pesum : k \in Nat /\ pesum[k] \in Int
         /\ \A start, n : PEInWindow(start, n) \in Int
         /\ IsFiniteSet(DOMAIN pesum) /\ IsFiniteSet(DOMAIN bins)
<1>1. PICK size \in Nat : DOMAIN bins = 0 .. size - 1
  BY DEF BinsInv
<1>2. IsFiniteSet(DOMAIN bins) /\ DOMAIN pesum \subseteq DOMAIN bins
  <2>1. DOMAIN pesum \subseteq DOMAIN bins
    BY DEF BinsInv, BinsFilled, Empty
  <2> QED BY <1>1, <2>1, FS_Interval
<1>3. IsFiniteSet(DOMAIN pesum)
  BY <1>2, FS_Subset
<1>4. \A k \in DOMAIN pesum : pesum[k] \in Int
  <2> SUFFICES ASSUME BinsFilled, NEW k \in DOMAIN pesum PROVE pesum[k] \in Int
    BY DEF BinsInv, Empty
  <2>1. InBin(k) \in SUBSET hits /\ fConfig \in Configs
    BY DEF InBin, UsableHits, BinsInv
  <2>2. PEOf(InBin(k)) \in Int
    BY <2>1, PEIsSum DEF BinsFilled
  <2> QED BY <2>2 DEF BinsFilled
<1>5. ASSUME NEW start, NEW n PROVE PEInWindow(start, n) \in Int
  <2> DEFINE W == {k \in DOMAIN pesum : start <= k /\ k < start + n}
  <2>1. IsFiniteSet(W) /\ \A k \in W : pesum[k] \in Int
    BY <1>3, <1>4, FS_Subset
  <2>2. Int \in {Int, Nat}
    OBVIOUS
  <2> HIDE DEF W
  <2>3. SumFunctionOnSet(pesum, W) \in Int
    BY <2>1, <2>2, SumType
  <2> QED BY <2>3 DEF PEInWindow, W
<1>6. \A k \in DOMAIN pesum : k \in Nat
  BY <1>1, <1>2
<1> QED BY <1>2, <1>3, <1>4, <1>5, <1>6

(* What the turn of the loop over a candidate leaves alone.                *)
LEMMA LookingKeeps ==
  ASSUME NEW idx, LookAt(idx)
  PROVE  /\ pesum' = pesum /\ bins' = bins /\ stage' = stage /\ flashes' = flashes
         /\ candidates' = candidates \ {idx}
         /\ \A s, n : PEInWindow(s, n)' = PEInWindow(s, n)
         /\ \A k : IsCandidate(k)' = IsCandidate(k)
         /\ \A p : FlashOf(p)' = FlashOf(p)
BY DEF LookAt, PEInWindow, IsCandidate, FlashOf, BinsIn

(* A candidate that the loop passes over gives way to an earlier claim, or *)
(* is too dim.                                                             *)
LEMMA PassedOver ==
  ASSUME BinsInv, ClaimedInv, NEW idx \in candidates,
         \/ \E j \in DOMAIN flash_period_v : Skips(StartOf(idx), pesum[idx], flash_period_v[j])
         \/ {n \in Windows(StartOf(idx)) : PEThreshold <= PEInWindow(StartOf(idx), n)} = {}
  PROVE  AccountedFor(idx)
<1> DEFINE start == StartOf(idx)
<1>1. CASE \E j \in DOMAIN flash_period_v : InVeto(start, flash_period_v[j]) \/ RunsInto(start, flash_period_v[j])
  BY <1>1 DEF AccountedFor, ClaimedInv, Bright
<1>2. CASE \E j \in DOMAIN flash_period_v : Skips(start, pesum[idx], flash_period_v[j])
  BY <1>1, <1>2 DEF Skips
<1>3. CASE {n \in Windows(start) : PEThreshold <= PEInWindow(start, n)} = {}
  <2>1. CASE Ahead(start) = {}
    <3>1. ~ (PEThreshold <= PEInWindow(start, integral_ctr))
      BY <1>3, <2>1 DEF Windows
    <3>2. PEThreshold \in Int /\ PEInWindow(start, integral_ctr) \in Int
      BY PEAreIntegers, FlashAssumption DEF FlashAssumption, Counts
    <3> QED BY <3>1, <3>2 DEF AccountedFor
  <2>2. CASE Ahead(start) # {}
    BY <1>1, <2>2 DEF Ahead
  <2> QED BY <2>1, <2>2
<1> QED BY <1>2, <1>3

(* A window that is claimed is full, or cut for an earlier claim ahead.    *)
LEMMA ClaimIsCut ==
  ASSUME FlashInv, BinsInv, ClaimedInv, NEW idx \in candidates,
         \A j \in DOMAIN flash_period_v : ~Skips(StartOf(idx), pesum[idx], flash_period_v[j]),
         NEW n \in Windows(StartOf(idx)), NEW p,
         p = [first |-> StartOf(idx), second |-> n, peak |-> idx]
  PROVE  p.second = integral_ctr \/ \E i \in DOMAIN flash_period_v : CutFor(p, flash_period_v[i])
<1>1. CASE Ahead(StartOf(idx)) = {}
  BY <1>1 DEF Windows
<1>2. CASE Ahead(StartOf(idx)) # {}
  <2>1. PICK j \in LastClaimed(StartOf(idx)) : n = flash_period_v[j].first - StartOf(idx) - time_dif_ctr
    BY <1>2 DEF Windows
  <2>2. j \in DOMAIN flash_period_v /\ RunsInto(StartOf(idx), flash_period_v[j])
    BY <2>1 DEF LastClaimed, Ahead
  <2>3. flash_period_v[j].first \in Nat
    <3>1. flash_period_v[j] \in Periods
      BY <2>2 DEF FlashInv
    <3> QED BY <3>1 DEF Periods
  <2>4. StartOf(idx) \in Nat
    BY ParametersAreNaturals DEF FlashInv, StartOf
  <2>5. EndOf(p) + time_dif_ctr = flash_period_v[j].first
    BY <2>1, <2>3, <2>4, ParametersAreNaturals DEF EndOf
  <2>6. LeavesRoom(StartOf(idx), pesum[idx], flash_period_v[j])
    BY <2>2 DEF Skips
  <2>7. pesum[idx] <= pesum[flash_period_v[j].peak]
    BY <2>2 DEF ClaimedInv, Bright
  <2> QED BY <2>2, <2>5, <2>6, <2>7 DEF CutFor, RunsInto
<1> QED BY <1>1, <1>2

(* A turn of the loop keeps what is known of the claims.                   *)
LEMMA ClaimStep ==
  ASSUME FlashInv, BinsInv, ClaimedInv, Claim
  PROVE  ClaimedInv'
<1>1. PICK idx \in candidates : (\A k \in candidates : ComesFirst(idx, k)) /\ LookAt(idx)
  BY DEF Claim
<1> DEFINE fp    == flash_period_v
           start == StartOf(idx)
           skip  == \E j \in DOMAIN fp : Skips(start, pesum[idx], fp[j])
           reach == {n \in Windows(start) : PEThreshold <= PEInWindow(start, n)}
<1>2. /\ pesum' = pesum /\ bins' = bins /\ stage' = stage /\ flashes' = flashes
      /\ candidates' = candidates \ {idx}
      /\ \A s, n : PEInWindow(s, n)' = PEInWindow(s, n)
      /\ \A k : IsCandidate(k)' = IsCandidate(k)
      /\ \A p : FlashOf(p)' = FlashOf(p)
  BY <1>1, LookingKeeps
<1>3. idx \in DOMAIN pesum /\ \A k \in candidates : k \in DOMAIN pesum /\ pesum[k] <= pesum[idx]
  <2>1. candidates \subseteq DOMAIN pesum
    BY DEF ClaimedInv
  <2> QED BY <1>1, <2>1, PEAreIntegers DEF ComesFirst
<1>4. /\ \A p : Bright(p) => Bright(p)'
      /\ \A p, q : CutFor(p, q)' = CutFor(p, q)
  BY <1>2 DEF Bright, CutFor
<1>5. stage' \in {"idle", "claim"} /\ candidates' \subseteq DOMAIN pesum'
  BY <1>2 DEF ClaimedInv
<1>6. ASSUME \A j \in DOMAIN fp : j \in DOMAIN fp' /\ fp'[j] = fp[j]
      PROVE  /\ \A k \in DOMAIN pesum : AccountedFor(k) => AccountedFor(k)'
             /\ \A f \in flashes' : \E j \in DOMAIN fp' : f = FlashOf(fp'[j])
             /\ \A j \in DOMAIN fp :
                  /\ Bright(fp'[j])
                  /\ fp'[j].second = integral_ctr \/ \E i \in 1 .. j - 1 : CutFor(fp'[j], fp'[i])
  <2>1. \A k \in DOMAIN pesum : AccountedFor(k) => AccountedFor(k)'
    BY <1>2, <1>6 DEF AccountedFor
  <2>2. \A f \in flashes' : \E j \in DOMAIN fp' : f = FlashOf(fp'[j])
    BY <1>2, <1>6 DEF ClaimedInv
  <2>3. ASSUME NEW j \in DOMAIN fp
        PROVE  /\ Bright(fp'[j])
               /\ fp'[j].second = integral_ctr \/ \E i \in 1 .. j - 1 : CutFor(fp'[j], fp'[i])
    <3>1. Bright(fp[j]) /\ fp'[j] = fp[j]
      BY <1>6 DEF ClaimedInv
    <3>2. DOMAIN fp = 1 .. Len(fp) /\ Len(fp) \in Nat
      BY DEF FlashInv
    <3>3. \A i \in 1 .. j - 1 : fp'[i] = fp[i]
      BY <1>6, <3>2
    <3>4. fp[j].second = integral_ctr \/ \E i \in 1 .. j - 1 : CutFor(fp[j], fp[i])
      BY DEF ClaimedInv
    <3> QED BY <3>1, <3>3, <3>4
  <2> QED BY <2>1, <2>2, <2>3
<1>7. CASE (skip \/ reach = {}) /\ UNCHANGED fp
  <2>1. AccountedFor(idx)
    BY <1>7, PassedOver
  <2>2. \A k \in DOMAIN pesum' : IsCandidate(k)' /\ k \notin candidates' => AccountedFor(k)'
    BY <1>2, <1>3, <1>6, <1>7, <2>1 DEF ClaimedInv
  <2> QED BY <1>2, <1>4, <1>5, <1>6, <1>7, <2>2 DEF ClaimedInv
<1>8. CASE ~skip /\ \E n \in reach :
              fp' = Append(fp, [first |-> start, second |-> n, peak |-> idx])
  <2>1. PICK n \in reach : fp' = Append(fp, [first |-> start, second |-> n, peak |-> idx])
    BY <1>8
  <2> DEFINE p == [first |-> start, second |-> n, peak |-> idx]
             L == Len(fp)
  <2>2. /\ L \in Nat /\ DOMAIN fp = 1 .. L /\ DOMAIN fp' = 1 .. L + 1 /\ fp'[L + 1] = p
        /\ \A j \in DOMAIN fp : j \in DOMAIN fp' /\ fp'[j] = fp[j]
    <3>1. fp \in Seq(Periods)
      BY DEF FlashInv
    <3> QED BY <2>1, <3>1
  <2>3. p.second = integral_ctr \/ \E i \in DOMAIN fp : CutFor(p, fp[i])
    BY <1>8, <2>1, ClaimIsCut
  <2>4. Bright(p)
    BY <1>3, <2>1 DEF Bright
  <2>5. AccountedFor(idx)'
    BY <2>2 DEF AccountedFor
  <2>6. \A k \in DOMAIN pesum' : IsCandidate(k)' /\ k \notin candidates' => AccountedFor(k)'
    BY <1>2, <1>6, <2>2, <2>5 DEF ClaimedInv
  <2>7. ASSUME NEW j \in DOMAIN fp'
        PROVE  /\ Bright(fp'[j])
               /\ fp'[j].second = integral_ctr \/ \E i \in 1 .. j - 1 : CutFor(fp'[j], fp'[i])
    <3>1. CASE j \in DOMAIN fp
      BY <1>6, <2>2, <3>1
    <3>2. CASE j = L + 1
      <4>1. fp'[j] = p /\ 1 .. j - 1 = DOMAIN fp
        BY <2>2, <3>2
      <4> HIDE DEF p
      <4> QED BY <2>2, <2>3, <2>4, <4>1
    <3> QED BY <2>2, <3>1, <3>2
  <2> HIDE DEF p
  <2> QED BY <1>2, <1>4, <1>5, <1>6, <2>2, <2>6, <2>7 DEF ClaimedInv
<1> QED BY <1>1, <1>7, <1>8 DEF LookAt

(* Every step keeps what is known of the claims against the candidates.    *)
LEMMA ClaimedStep == FlashInv /\ BinsInv /\ ClaimedInv /\ [Next]_flashVars => ClaimedInv'
<1> SUFFICES ASSUME FlashInv, BinsInv, ClaimedInv, [Next]_flashVars PROVE ClaimedInv'
  OBVIOUS
<1>1. CASE FillBins
  <2>1. /\ flash_period_v' = <<>> /\ flashes' = {} /\ stage' = "claim"
        /\ candidates' = {k \in DOMAIN pesum' : IsCandidate(k)'}
    BY <1>1 DEF FillBins
  <2> QED BY <2>1 DEF ClaimedInv
<1>2. CASE Claim
  BY <1>2, ClaimStep
<1>3. CASE UNCHANGED <<fInstance, bins, pesum, candidates, flash_period_v>>
           /\ stage' \in {"idle", "claim"}
           /\ \A f \in flashes' : \E j \in DOMAIN flash_period_v : f = FlashOf(flash_period_v[j])
  <2>1. \A p, q : Bright(p)' = Bright(p) /\ CutFor(p, q)' = CutFor(p, q) /\ FlashOf(p)' = FlashOf(p)
    BY <1>3 DEF Bright, CutFor, PEInWindow, FlashOf, BinsIn
  <2>2. \A k : IsCandidate(k)' = IsCandidate(k) /\ AccountedFor(k)' = AccountedFor(k)
    BY <1>3 DEF IsCandidate, AccountedFor, PEInWindow
  <2> QED BY <1>3, <2>1, <2>2 DEF ClaimedInv
<1>4. CASE Construct
  BY <1>3, <1>4 DEF Construct
<1>5. CASE UNCHANGED flashVars
  BY <1>3, <1>5 DEF flashVars, ClaimedInv
<1> QED BY <1>1, <1>2, <1>4, <1>5 DEF Next

(* So the inductive invariants of the flash finder hold throughout.        *)
LEMMA SpecClaims == Spec => [](FlashInv /\ BinsInv /\ ClaimedInv)
<1>1. Init => FlashInv /\ BinsInv /\ ClaimedInv
  <2> SUFFICES ASSUME Init PROVE FlashInv /\ BinsInv /\ ClaimedInv
    OBVIOUS
  <2>1. DOMAIN bins = 0 .. 0 - 1
    BY DEF Init
  <2> QED BY <2>1 DEF Init, FlashInv, ClaimsOrdered, BinsInv, Empty, ClaimedInv
<1>2. FlashInv /\ BinsInv /\ ClaimedInv /\ [Next]_flashVars => (FlashInv /\ BinsInv /\ ClaimedInv)'
  BY FlashStep, BinsStep, ClaimedStep
<1> QED BY <1>1, <1>2, PTL DEF Spec

(* A candidate is never lost for a dimmer one, nor without a flash less    *)
(* than the veto time away: the loop looks at the brightest first.         *)
THEOREM CandidatesAreAccounted == Spec => []CandidatesAccounted
<1>1. ClaimedInv => CandidatesAccounted
  BY DEF ClaimedInv, CandidatesAccounted, AccountedFor
<1> QED BY <1>1, SpecClaims, PTL

(* The relations between the parameters that the comments of Configure and *)
(* the shipped configuration keep: the integration and the veto time are   *)
(* set equal, and a window of the shortest length allowed before another   *)
(* flash, less the time difference, still reaches past the peak.           *)
AsShipped ==
  /\ 0 < integral_ctr /\ veto_ctr <= integral_ctr + time_dif_ctr + 1
  /\ precount + time_dif_ctr < min_time_before_ctr

(* A window is as long as its claim says: full, or cut short of a flash    *)
(* claimed before it, that is no dimmer, behind its own peak.              *)
THEOREM WindowsAreAsClaimed == ASSUME AsShipped PROVE Spec => []WindowsAsClaimed
<1>1. FlashInv /\ BinsInv /\ ClaimedInv => WindowsAsClaimed
  <2> SUFFICES ASSUME FlashInv, BinsInv, ClaimedInv PROVE WindowsAsClaimed
    OBVIOUS
  <2>1. ASSUME NEW j \in DOMAIN flash_period_v
        PROVE  /\ flash_period_v[j] \in Periods /\ flash_period_v[j].peak \in DOMAIN pesum
               /\ flash_period_v[j].first \in 0 .. flash_period_v[j].peak
               /\ flash_period_v[j].peak <= flash_period_v[j].first + precount
    <3>1. flash_period_v[j] \in Periods /\ Bright(flash_period_v[j])
      BY DEF FlashInv, ClaimedInv
    <3> QED BY <3>1, ParametersAreNaturals DEF Periods, Bright, StartOf
  <2>2. ASSUME NEW j \in DOMAIN flash_period_v,
               NEW i \in 1 .. j - 1, CutFor(flash_period_v[j], flash_period_v[i])
        PROVE  LET p == flash_period_v[j]
                   q == flash_period_v[i]
               IN /\ p.second \in 1 .. integral_ctr /\ EndOf(p) + time_dif_ctr = q.first
                  /\ MinPECoincRepeated <= pesum[p.peak] /\ pesum[p.peak] <= pesum[q.peak]
                  /\ p.peak < EndOf(p)
    <3> DEFINE p == flash_period_v[j]
               q == flash_period_v[i]
    <3>1. i \in DOMAIN flash_period_v
      <4>1. flash_period_v \in Seq(Periods)
        BY DEF FlashInv
      <4> QED BY <4>1
    <3>2. p.first \in Nat /\ p.second \in Int /\ p.peak \in Nat /\ q.first \in Nat
      BY <2>1, <3>1 DEF Periods
    <3>3. p.peak <= p.first + precount
      BY <2>1
    <3>4. /\ p.first + p.second + time_dif_ctr = q.first /\ q.first < p.first + veto_ctr
          /\ p.first + min_time_before_ctr <= q.first /\ p.first + time_dif_ctr < q.first
          /\ MinPECoincRepeated <= pesum[p.peak] /\ pesum[p.peak] <= pesum[q.peak]
      BY <2>2 DEF CutFor, LeavesRoom, EndOf
    <3> HIDE DEF p, q
    <3>5. p.second \in 1 .. integral_ctr /\ p.peak < p.first + p.second
      BY <3>2, <3>3, <3>4, ParametersAreNaturals DEF AsShipped
    <3> QED BY <3>4, <3>5 DEF p, q, EndOf
  <2>3. integral_ctr \in 1 .. integral_ctr
    BY ParametersAreNaturals DEF AsShipped
  <2>4. FlashTypeOK
    <3>1. DOMAIN pesum \subseteq DOMAIN bins
      BY DEF BinsInv, BinsFilled, Empty
    <3>2. \A j \in DOMAIN flash_period_v : flash_period_v[j].second \in 1 .. integral_ctr
      BY <2>2, <2>3 DEF ClaimedInv
    <3> QED BY <2>1, <3>1, <3>2 DEF FlashTypeOK, ClaimedInv
  <2>5. ShortenedBeforeBrighter
    BY <2>2 DEF ShortenedBeforeBrighter, ClaimedInv
  <2> QED BY <2>4, <2>5 DEF WindowsAsClaimed
<1> QED BY <1>1, SpecClaims, PTL

-----------------------------------------------------------------------------
(* The hits of the bins of a window.                                       *)
HitsIn(p) == {h \in UsableHits(fInstance, hits) :
                p.first <= IndexOf(hits, h) /\ IndexOf(hits, h) < EndOf(p)}

(* Every hit is in a bin that the call counts.                             *)
LEMMA HitsAreInBins ==
  ASSUME BinsInv, BinsFilled, NEW p
  PROVE  /\ \A h \in HitsIn(p) : IndexOf(hits, h) \in DOMAIN pesum /\ h \in hits
         /\ UNION {InBin(k) : k \in BinsIn(p)} = HitsIn(p)
         /\ UNION {InBin(k) : k \in {k \in DOMAIN pesum : p.first <= k /\ k < EndOf(p)}} = HitsIn(p)
<1>1. \A h \in hits : IndexOf(hits, h) \in DOMAIN pesum
  <2>1. fConfig \in Configs /\ hits \in Events(fConfig)
    BY DEF BinsInv, BinsFilled
  <2>2. \A h \in hits : IndexOf(hits, h) \in 0 .. NBins(hits) - 1
    BY <2>1, BinsAreCounted
  <2> QED BY <2>2 DEF BinsFilled
<1>2. \A h \in HitsIn(p) : IndexOf(hits, h) \in DOMAIN pesum /\ h \in hits
  BY <1>1 DEF HitsIn, UsableHits
<1>3. DOMAIN pesum \subseteq DOMAIN bins
  BY DEF BinsFilled
<1> QED BY <1>2, <1>3 DEF HitsIn, InBin, BinsIn, EndOf

(* A sum over bins of sums over some of their hits is one over those hits. *)
LEMMA SumOverBins ==
  ASSUME BinsInv, BinsFilled, NEW D \in SUBSET DOMAIN bins, NEW F,
         \A k \in D : F[k] \in SUBSET InBin(k), NEW s, \A k \in D : s[k] = PEOf(F[k])
  PROVE  SumFunctionOnSet(s, D) = PEOf(UNION {F[k] : k \in D})
<1> DEFINE pe == [h \in hits |-> h.pe]
           t  == [k \in D |-> SumFunctionOnSet(pe, F[k])]
<1>1. fConfig \in Configs /\ hits \in Events(fConfig)
  BY DEF BinsInv, BinsFilled
<1>2. \A h \in hits : pe[h] \in Int
  BY <1>1, EventsAssumption DEF EventsAssumption
<1>3. IsFiniteSet(D)
  BY PEAreIntegers, FS_Subset
<1>4. ASSUME NEW k \in D
      PROVE  /\ F[k] \in SUBSET hits /\ IsFiniteSet(F[k]) /\ PEOf(F[k]) \in Int
             /\ s[k] = t[k] /\ t[k] \in Int
  <2>1. F[k] \in SUBSET hits
    BY DEF InBin, UsableHits
  <2>2. IsFiniteSet(F[k]) /\ PEOf(F[k]) \in Int /\ PEOf(F[k]) = SumFunctionOnSet(pe, F[k])
    BY <1>1, <2>1, PEIsSum
  <2> QED BY <2>1, <2>2
<1>5. \A k, l \in D : k # l => F[k] \cap F[l] = {}
  BY DEF InBin
<1>6. UNION {F[k] : k \in D} \in SUBSET hits
  BY <1>4
<1>7. PEOf(UNION {F[k] : k \in D}) = SumFunctionOnSet(pe, UNION {F[k] : k \in D})
  BY <1>1, <1>6, PEIsSum
<1>8. SumFunctionOnSet(s, D) = SumFunctionOnSet(t, D)
  <2>1. \A k \in D : t[k] \in Int /\ s[k] = t[k]
    BY <1>4
  <2> HIDE DEF t
  <2> QED BY <1>3, <2>1, SumsAgree
<1>9. SumFunctionOnSet(t, D) = SumFunctionOnSet(pe, UNION {F[k] : k \in D})
  <2>1. \A k \in D : IsFiniteSet(F[k]) /\ \A h \in F[k] : pe[h] \in Int
    BY <1>2, <1>4
  <2> HIDE DEF pe
  <2> QED BY <1>3, <1>5, <2>1, SumOfFibers
<1> QED BY <1>7, <1>8, <1>9

(* The flash of a window has its hits and their PE.                        *)
LEMMA FlashHasItsHits ==
  ASSUME BinsInv, BinsFilled, NEW p, Bright(p), NEW f, f = FlashOf(p)
  PROVE  /\ f.asshit_idx = HitsIn(p) /\ f.period = p
         /\ \A c \in DOMAIN f.channel_pe : f.channel_pe[c] = PEOf(OnChannel(f.asshit_idx, c))
         /\ PEThreshold <= PEOf(f.asshit_idx)
<1> DEFINE B == BinsIn(p)
           W == {k \in DOMAIN pesum : p.first <= k /\ k < p.first + p.second}
<1>1. B \in SUBSET DOMAIN bins /\ W \in SUBSET DOMAIN bins
  BY DEF BinsIn, BinsFilled
<1>2. f.asshit_idx = HitsIn(p) /\ f.period = p
  <2>1. \A k \in B : bins[k].hitidx = InBin(k)
    BY <1>1 DEF BinsFilled
  <2>2. f.asshit_idx = UNION {bins[k].hitidx : k \in B}
    BY DEF FlashOf
  <2>3. f.asshit_idx = UNION {InBin(k) : k \in B}
    BY <2>1, <2>2
  <2>4. f.period = p
    BY DEF FlashOf
  <2> QED BY <2>3, <2>4, HitsAreInBins
<1>3. DOMAIN f.channel_pe = Channels[fInstance]
  BY DEF FlashOf
<1>4. ASSUME NEW c \in Channels[fInstance]
      PROVE  f.channel_pe[c] = PEOf(OnChannel(f.asshit_idx, c))
  <2> DEFINE F == [k \in B |-> OnChannel(InBin(k), c)]
             s == [k \in B |-> bins[k].pespec[c]]
  <2>1. f.channel_pe[c] = SumFunctionOnSet(s, B)
    BY DEF FlashOf
  <2>2. c \in UNION {Channels[i] : i \in Instances}
    BY DEF BinsInv
  <2>3. \A k \in B : F[k] \in SUBSET InBin(k) /\ s[k] = PEOf(F[k])
    BY <1>1, <2>2 DEF BinsFilled, OnChannel
  <2>4. UNION {F[k] : k \in B} = OnChannel(UNION {InBin(k) : k \in B}, c)
    BY DEF OnChannel
  <2>5. UNION {InBin(k) : k \in B} = f.asshit_idx
    BY <1>2, HitsAreInBins
  <2>6. SumFunctionOnSet(s, B) = PEOf(UNION {F[k] : k \in B})
    <3> HIDE DEF F, s, B
    <3> QED BY ZenonT(60), <1>1, <2>3, SumOverBins
  <2> QED BY <2>1, <2>4, <2>5, <2>6
<1>5. PEThreshold <= PEOf(f.asshit_idx)
  <2> DEFINE F == [k \in W |-> InBin(k)]
  <2>1. \A k \in W : F[k] \in SUBSET InBin(k) /\ pesum[k] = PEOf(F[k])
    BY DEF BinsFilled
  <2>2. UNION {F[k] : k \in W} = HitsIn(p)
    BY HitsAreInBins DEF EndOf
  <2>3. PEInWindow(p.first, p.second) = SumFunctionOnSet(pesum, W)
    BY DEF PEInWindow
  <2>4. SumFunctionOnSet(pesum, W) = PEOf(UNION {F[k] : k \in W})
    <3> HIDE DEF F, W
    <3> QED BY <1>1, <2>1, SumOverBins
  <2> QED BY <1>2, <2>2, <2>3, <2>4 DEF Bright
<1> QED BY <1>2, <1>3, <1>4, <1>5

(* A flash has exactly the hits of this call in its window on this         *)
(* instance's channels, and their PE, though the bins are shared with      *)
(* other instances and earlier events.                                     *)
THEOREM FlashesHaveTheirHits == Spec => []FlashOfItsHits
<1>1. BinsInv /\ ClaimedInv => FlashOfItsHits
  <2> SUFFICES ASSUME BinsInv, ClaimedInv, NEW f \in flashes
               PROVE  /\ f.asshit_idx = HitsIn(f.period)
                      /\ \A c \in DOMAIN f.channel_pe :
                           f.channel_pe[c] = PEOf(OnChannel(f.asshit_idx, c))
                      /\ PEThreshold <= PEOf(f.asshit_idx)
    BY DEF FlashOfItsHits, HitsIn, OnChannel
  <2>1. PICK j \in DOMAIN flash_period_v : f = FlashOf(flash_period_v[j])
    BY DEF ClaimedInv
  <2>2. BinsFilled /\ Bright(flash_period_v[j])
    BY DEF BinsInv, Empty, ClaimedInv
  <2> QED BY <2>1, <2>2, FlashHasItsHits
<1> QED BY <1>1, SpecClaims, PTL
=============================================================================
