------------------------------ MODULE CRTProof ------------------------------
(***************************************************************************)
(* What the CRT chain keeps, for every geometry, thresholds, windows and   *)
(* number of events: each deposit is read out once, boards rest as long as *)
(* the dead time says, strip hits have the time that counts from the       *)
(* reference, hits that overlap in time and place are clustered, blobs and *)
(* tracks leave out a space point only for something better, the veto's    *)
(* flags are those of pairs of readouts in the window, an event's frames   *)
(* are its own, the products are of their types, and two deposits that     *)
(* cross become a space point.                                             *)
(*                                                                         *)
(* The invariant has a part for each of the chain's steps.  ChainTyped is  *)
(* about the inputs and the frames; SimInv about CreateData, which looks   *)
(* at a tagger's strips in the order of time, so that when a strip starts  *)
(* a trigger every board read out before has rested or was followed by a   *)
(* coincidence on another board (Ready); ChargeInv about the charges it    *)
(* adds; HitsTyped and HitsTimed about the strip hits; ClusterInv about    *)
(* the hits that are no longer unused; ProductInv about what clusters,     *)
(* space points and objects are made of; BlobInv and TrackInv about the    *)
(* objects.  For these two, the producers' sort and choice are followed    *)
(* step by step, on the numbers of the candidates.  VetoInv is about the   *)
(* clusters' hits and the flags, FrameInv about the record that FrameShift *)
(* unpacked; CrossInv about the pairs of strips that CreateData has looked *)
(* at, which are read out when their trigger is over.                      *)
(***************************************************************************)
EXTENDS CRTChain, FoldLemmas

(* Where the chain stands: what comes before the strip hits, and after.    *)
Simulating == {"fill", "trigger"}
Reading    == {"timing", "unpack", "shift", "read"}
Early == Simulating \cup Reading \cup {"hits"}
Late  == {"points", "blobs", "tracks", "done"}

FramesTyped ==
  /\ IsTiming(timing)
  /\ tdc \in [TdcChannels -> Seq(Int)] /\ hlts \in Seq([code : Int, time : Int])
  /\ frameInfo.default.time \in Int

(* The strips of a tagger.                                                 *)
IsStrip(s, t) ==
  /\ s.mac5 \in FEBs /\ TaggerOf[s.mac5] = t /\ TimeOf(s) \in Nat /\ s.sipm_coinc \in BOOLEAN
  /\ s.sipm0.adc \in Nat /\ s.sipm1.adc \in Nat

ChainTyped ==
  /\ fConfig \in Configs
  /\ stage \in Simulating => fConfig.mc
  /\ stage \in Reading => ~fConfig.mc
  /\ FramesTyped
  /\ DOMAIN fTaggers = Taggers /\ \A t \in Taggers : \A s \in fTaggers[t] : IsStrip(s, t)
  /\ IsEvent(febData)

-----------------------------------------------------------------------------
TriggerSpan == DeadTime - TaggerPlaneCoincidenceWindow

FromStrips(f) ==
  /\ f.mac5 \in FEBs /\ f.unixs = 0 /\ f.ts \in Nat
  /\ f.ides \in Seq(fTaggers[TaggerOf[f.mac5]]) /\ IsInjective(f.ides)
  /\ \A s \in ToSet(f.ides) : s.mac5 = f.mac5

EndedBy(f, from, to) ==
  \E s \in fTaggers[TaggerOf[f.mac5]] :
    s.sipm_coinc /\ s.mac5 # f.mac5 /\ from <= TimeOf(s) /\ TimeOf(s) <= to

Rested(f, g) ==
  f.mac5 = g.mac5 /\ f.ts <= g.ts /\ g.ts - f.ts <= TriggerSpan => EndedBy(f, f.ts, g.ts)

(* Readouts that are made of the strips there are, each of strips of its   *)
(* own, and those of one board far enough apart.                           *)
Made(F) ==
  /\ F \in Seq(ToSet(F))
  /\ \A k \in DOMAIN F : FromStrips(F[k])
  /\ \A k, l \in DOMAIN F : k # l => ToSet(F[k].ides) \cap ToSet(F[l].ides) = {}
  /\ \A k, l \in DOMAIN F : k # l => Rested(F[k], F[l])

OfTagger(F) == {k \in DOMAIN F : TaggerOf[F[k].mac5] = tagger}

(* The boards are ready for a trigger at the time t.                       *)
Ready(F, t) ==
  \A k \in OfTagger(F) :
    F[k].ts <= t /\ (t - F[k].ts <= TriggerSpan => EndedBy(F[k], F[k].ts, t))

TriggerInv ==
  /\ tagger \in Taggers /\ todo \subseteq fTaggers[tagger]
  /\ trigger_ts1 \in Nat /\ first_trigger \in BOOLEAN
  /\ trigger.strips \in Seq(fTaggers[tagger]) /\ IsInjective(trigger.strips)
  /\ trigger.mac5s = {s.mac5 : s \in ToSet(trigger.strips)}
  /\ \A s \in ToSet(trigger.strips) :
       /\ s \notin todo
       /\ trigger_ts1 <= TimeOf(s) /\ InWindow(s)
       /\ \A u \in todo : TimeOf(s) <= TimeOf(u)
  /\ \A u \in todo : trigger_ts1 <= TimeOf(u)
  /\ \A k \in DOMAIN febData : TaggerOf[febData[k].mac5] <= tagger
  /\ first_trigger => OfTagger(febData) = {}
  /\ \A k \in OfTagger(febData) :
       ToSet(febData[k].ides) \cap (todo \cup ToSet(trigger.strips)) = {}
  /\ Ready(febData, trigger_ts1)

SimInv ==
  fConfig.mc =>
    /\ stage = "fill" => febData = <<>>
    /\ Made(febData)
    /\ stage = "trigger" => TriggerInv

-----------------------------------------------------------------------------
HitsTyped ==
  /\ stage \in Early => stripHits = {}
  /\ IsFiniteSet(stripHits)
  /\ \A h \in stripHits :
       h.strip \in Strips /\ h.feb \in DOMAIN febData /\ h.ts0 \in Int /\ h.ts1 \in Int

HitsTimed ==
  fConfig.ReferenceTs0 =>
    \A h \in stripHits : h.ts0 = Absolute(febData[h.feb]) - Reference

-----------------------------------------------------------------------------
Close(g, h) ==
  /\ CheckOverlap(Near, g.strip, h.strip)
  /\ ClusterTime(g) <= ClusterTime(h)
  /\ ClusterTime(h) - ClusterTime(g) < CoincidenceTimeRequirement

Together(g, h) == \E c \in clusters : {g, h} \subseteq c
Parted(g, h) ==
  \E e \in stripHits :
    /\ TaggerOfHit(e) = TaggerOfHit(g) /\ ClusterTime(e) < ClusterTime(g)
    /\ ClusterTime(g) < ClusterTime(e) + CoincidenceTimeRequirement
    /\ ClusterTime(e) + CoincidenceTimeRequirement <= ClusterTime(h)

ClusterInv ==
  /\ unused \subseteq stripHits
  /\ stage \in Late => unused = {}
  /\ stage \in Late \cup {"clusters"} =>
       \A g, h \in stripHits :
         Close(g, h) /\ ~(g \in unused /\ h \in unused) => Together(g, h) \/ Parted(g, h)

-----------------------------------------------------------------------------
(* The geometry: a strip is of a board of its tagger, strips that overlap  *)
(* are of one tagger.                                                      *)
LEMMA Geometry ==
  /\ FEBs \subseteq Nat /\ IsFiniteSet(FEBs) /\ \A f \in FEBs : TaggerOf[f] \in Taggers
  /\ Taggers \subseteq Nat /\ IsFiniteSet(Taggers) /\ \A s \in Strips : ModuleOf[s] \in FEBs
<1>1. ModuleOf \in [Strips -> Nat] /\ TaggerOf \in [FEBs -> Nat] /\ IsFiniteSet(Strips)
  BY GeometryAssumption
<1>2. IsFiniteSet(FEBs)
  BY <1>1, ImageOf DEF FEBs
<1>3. IsFiniteSet(Taggers)
  BY <1>2, ImageOf DEF Taggers
<1> QED BY <1>1, <1>2, <1>3 DEF FEBs, Taggers

(* Readouts of two lists, one after the other.                             *)
LEMMA Joined ==
  ASSUME NEW F, NEW P, F \in Seq(ToSet(F)), P \in Seq(ToSet(P))
  PROVE  /\ F \o P \in Seq(ToSet(F \o P)) /\ DOMAIN F = 1 .. Len(F) /\ DOMAIN P = 1 .. Len(P)
         /\ Len(F) \in Nat /\ Len(P) \in Nat
         /\ DOMAIN (F \o P) = 1 .. Len(F) + Len(P)
         /\ \A k \in DOMAIN (F \o P) :
              \/ k \in DOMAIN F /\ (F \o P)[k] = F[k]
              \/ k - Len(F) \in DOMAIN P /\ (F \o P)[k] = P[k - Len(F)] /\ k \notin DOMAIN F
<1> DEFINE U == ToSet(F) \cup ToSet(P)
           J == F \o P
<1>1. F \in Seq(U) /\ P \in Seq(U)
  OBVIOUS
<1>2. DOMAIN F = 1 .. Len(F) /\ DOMAIN P = 1 .. Len(P) /\ Len(F) \in Nat /\ Len(P) \in Nat
  BY <1>1
<1> HIDE DEF U
<1>3. /\ J \in Seq(U) /\ Len(J) = Len(F) + Len(P)
      /\ \A k \in 1 .. Len(F) + Len(P) : J[k] = IF k <= Len(F) THEN F[k] ELSE P[k - Len(F)]
  BY <1>1, ConcatProperties
<1> HIDE DEF J
<1>4. DOMAIN J = 1 .. Len(J) /\ J \in [1 .. Len(J) -> U] /\ Len(J) \in Nat
  BY <1>3
<1>5. J \in [1 .. Len(J) -> ToSet(J)]
  BY <1>4 DEF ToSet
<1>6. J \in Seq(ToSet(J))
  BY <1>4, <1>5
<1>7. ASSUME NEW k \in DOMAIN J
      PROVE  \/ k \in DOMAIN F /\ J[k] = F[k]
             \/ k - Len(F) \in DOMAIN P /\ J[k] = P[k - Len(F)] /\ k \notin DOMAIN F
  <2>1. k \in 1 .. Len(F) + Len(P)
    BY <1>3, <1>4
  <2>2. CASE k <= Len(F)
    BY <1>2, <1>3, <2>1, <2>2
  <2>3. CASE ~(k <= Len(F))
    BY <1>2, <1>3, <2>1, <2>3
  <2> QED BY <2>2, <2>3
<1> QED BY <1>2, <1>3, <1>4, <1>6, <1>7 DEF J

(* What is picked out of a sequence without repetitions has none either.   *)
LEMMA PickedOnce ==
  ASSUME NEW S, NEW s \in Seq(S), IsInjective(s), NEW I, I \subseteq DOMAIN s
  PROVE  /\ Selected(s, I) \in Seq(S) /\ ToSet(Selected(s, I)) = {s[i] : i \in I}
         /\ IsInjective(Selected(s, I))
<1> DEFINE p == Selected(s, I)
<1>1. PICK o \in [DOMAIN p -> I] :
        /\ \A k \in DOMAIN o : p[k] = s[o[k]]
        /\ \A j, k \in DOMAIN o : j < k => o[j] < o[k]
  BY SelectedElements
<1>2. p \in Seq(S) /\ ToSet(p) = {s[i] : i \in I}
  BY SelectedElements
<1>3. DOMAIN s \subseteq Int /\ DOMAIN p \subseteq Int
  BY <1>2
<1> HIDE DEF p
<1>4. ASSUME NEW j \in DOMAIN p, NEW k \in DOMAIN p, p[j] = p[k] PROVE j = k
  <2>1. s[o[j]] = s[o[k]] /\ o[j] \in DOMAIN s /\ o[k] \in DOMAIN s
    BY <1>1, <1>4
  <2>2. o[j] = o[k]
    BY <2>1 DEF IsInjective
  <2>3. (j < k => o[j] < o[k]) /\ (k < j => o[k] < o[j])
    BY <1>1
  <2> QED BY <1>3, <2>1, <2>2, <2>3
<1>5. IsInjective(p)
  BY <1>4 DEF IsInjective
<1> QED BY <1>2, <1>5 DEF p

(* What ProcessStrips makes of a trigger: one readout of each board, of    *)
(* the trigger's strips on it, at the time of one of them.                 *)
LEMMA Processed ==
  ASSUME NEW T, NEW strips \in Seq(T), IsInjective(strips),
         \A s \in T : s.mac5 \in FEBs /\ TimeOf(s) \in Nat,
         NEW P, P = ProcessStrips(strips)
  PROVE  /\ P \in Seq(ToSet(P))
         /\ \A k \in DOMAIN P :
              /\ P[k].mac5 \in FEBs /\ P[k].unixs = 0
              /\ P[k].ides \in Seq(T) /\ IsInjective(P[k].ides)
              /\ ToSet(P[k].ides) = {s \in ToSet(strips) : s.mac5 = P[k].mac5}
              /\ \E s \in ToSet(P[k].ides) : P[k].ts = TimeOf(s)
         /\ \A k, l \in DOMAIN P : k # l => P[k].mac5 # P[l].mac5
<1> DEFINE M == {s.mac5 : s \in ToSet(strips)}
           macs == InOrder(M)
           At(mac) == {k \in DOMAIN strips : strips[k].mac5 = mac}
           Own(mac) == Selected(strips, At(mac))
<1>1. ToSet(strips) \subseteq T /\ DOMAIN strips = 1 .. Len(strips) /\ Len(strips) \in Nat
  BY DEF ToSet
<1>2. M \subseteq FEBs /\ IsFiniteSet(M) /\ \A m \in M : m \in Int
  <2>1. M \subseteq FEBs
    BY <1>1
  <2>2. \A m \in FEBs : m \in Int
    BY Geometry
  <2> HIDE DEF M
  <2> QED BY <2>1, <2>2, Geometry, FS_Subset
<1>3. macs \in [1 .. Cardinality(M) -> M] /\ Ascending(macs) /\ Cardinality(M) \in Nat
  <2> HIDE DEF M
  <2> QED BY <1>2, InOrderLists, FS_CardinalityType
<1>4. P = [k \in 1 .. Cardinality(M) |-> FEBOf(macs[k], strips)]
  <2> HIDE DEF M
  <2>1. DOMAIN macs = 1 .. Cardinality(M)
    BY <1>3
  <2> QED BY <2>1 DEF ProcessStrips, M
<1>5. ASSUME NEW mac \in M
      PROVE  LET f == FEBOf(mac, strips)
             IN /\ f.mac5 = mac /\ f.unixs = 0 /\ f.ides \in Seq(T) /\ IsInjective(f.ides)
                /\ ToSet(f.ides) = {s \in ToSet(strips) : s.mac5 = mac}
                /\ \E s \in ToSet(f.ides) : f.ts = TimeOf(s)
  <2>1. /\ Own(mac) \in Seq(T) /\ ToSet(Own(mac)) = {strips[i] : i \in At(mac)}
        /\ IsInjective(Own(mac))
    <3>1. PICK I : I = At(mac)
      OBVIOUS
    <3>2. I \subseteq DOMAIN strips /\ Own(mac) = Selected(strips, I)
      BY <3>1
    <3> HIDE DEF At, Own
    <3> QED BY <3>1, <3>2, PickedOnce
  <2>2. {strips[i] : i \in At(mac)} = {s \in ToSet(strips) : s.mac5 = mac}
    BY DEF ToSet
  <2>4. PICK t \in {TimeOf(s) : s \in ToSet(Own(mac))} : \A s \in ToSet(Own(mac)) : t <= TimeOf(s)
    <3>1. IsFiniteSet(ToSet(Own(mac)))
      <4>1. IsFiniteSet(DOMAIN Own(mac))
        BY <2>1, FS_Interval
      <4> HIDE DEF Own
      <4> QED BY <4>1, ImageOf DEF ToSet
    <3>2. ToSet(Own(mac)) # {} /\ \A s \in ToSet(Own(mac)) : TimeOf(s) \in Int
      <4>1. ToSet(Own(mac)) = {s \in ToSet(strips) : s.mac5 = mac}
        BY <2>1, <2>2
      <4>2. \E s \in ToSet(strips) : s.mac5 = mac
        OBVIOUS
      <4>3. \A s \in ToSet(strips) : TimeOf(s) \in Nat
        BY <1>1
      <4> HIDE DEF Own, M
      <4> QED BY <4>1, <4>2, <4>3
    <3> DEFINE W == {TimeOf(s) : s \in ToSet(Own(mac))}
               g == [s \in ToSet(Own(mac)) |-> TimeOf(s)]
    <3>3. IsFiniteSet(W)
      <4>1. W = {g[s] : s \in ToSet(Own(mac))}
        OBVIOUS
      <4> HIDE DEF g, W
      <4> QED BY <3>1, <4>1, ImageOf
    <3>4. W # {} /\ \A x \in W : x \in Int
      BY <3>2
    <3>5. \E x \in W : \A y \in W : x <= y
      <4> HIDE DEF W
      <4> QED BY <3>3, <3>4, HasFirstAndLast
    <3> QED BY <3>5
  <2>5. FEBOf(mac, strips).ts \in {TimeOf(s) : s \in ToSet(Own(mac))}
    <3> HIDE DEF Own
    <3>1. (CHOOSE x \in {TimeOf(s) : s \in ToSet(Own(mac))} : \A s \in ToSet(Own(mac)) : x <= TimeOf(s))
            \in {TimeOf(s) : s \in ToSet(Own(mac))}
      BY <2>4
    <3> QED BY <3>1 DEF FEBOf, Own
  <2>6. FEBOf(mac, strips).ides = Own(mac) /\ FEBOf(mac, strips).mac5 = mac
        /\ FEBOf(mac, strips).unixs = 0
    BY DEF FEBOf
  <2> HIDE DEF Own, At
  <2> QED BY <2>1, <2>2, <2>5, <2>6
<1> HIDE DEF M, macs
<1>6. \A k \in 1 .. Cardinality(M) : macs[k] \in M /\ macs[k] \in Int /\ P[k] = FEBOf(macs[k], strips)
  BY <1>2, <1>3, <1>4
<1>7. DOMAIN P = 1 .. Cardinality(M) /\ P \in Seq(ToSet(P))
  <2>1. P \in [1 .. Cardinality(M) -> ToSet(P)] /\ DOMAIN P = 1 .. Cardinality(M)
    BY <1>4 DEF ToSet
  <2> QED BY <1>3, <2>1
<1>8. ASSUME NEW k \in DOMAIN P, NEW l \in DOMAIN P, k # l PROVE P[k].mac5 # P[l].mac5
  <2>1. P[k].mac5 = macs[k] /\ P[l].mac5 = macs[l]
    BY <1>5, <1>6, <1>7
  <2>2. (k < l => macs[k] < macs[l]) /\ (l < k => macs[l] < macs[k])
    BY <1>3, <1>7 DEF Ascending
  <2>3. k \in Int /\ l \in Int /\ macs[k] \in Int /\ macs[l] \in Int
    BY <1>3, <1>6, <1>7
  <2> QED BY <1>8, <2>1, <2>2, <2>3
<1> QED BY <1>2, <1>5, <1>6, <1>7, <1>8, SMTT(30)

(* The end of a trigger: its readouts, if it is one of the tagger's, join  *)
(* those made before.                                                      *)
LEMMA FlushedMade ==
  ASSUME ChainTyped, Made(febData), TriggerInv
  PROVE  /\ Made(Flushed)
         /\ \A k \in DOMAIN Flushed : TaggerOf[Flushed[k].mac5] <= tagger
         /\ \A k \in OfTagger(Flushed) : ToSet(Flushed[k].ides) \cap todo = {}
         /\ \A k \in DOMAIN Flushed :
              \/ k \in DOMAIN febData /\ Flushed[k] = febData[k]
              \/ /\ TaggerTriggered(trigger) /\ Flushed[k].mac5 \in trigger.mac5s
                 /\ \E s \in ToSet(trigger.strips) : Flushed[k].ts = TimeOf(s)
<1>1. CASE ~TaggerTriggered(trigger)
  <2>1. Flushed = febData
    BY <1>1 DEF Flushed
  <2> QED BY <2>1 DEF TriggerInv, OfTagger
<1>2. CASE TaggerTriggered(trigger)
  <2> DEFINE T == fTaggers[tagger]
             strips == trigger.strips
             P == ProcessStrips(strips)
             J == febData \o P
  <2>1. Flushed = J
    BY <1>2 DEF Flushed
  <2>2. strips \in Seq(T) /\ IsInjective(strips) /\ tagger \in Taggers /\ todo \subseteq T
    BY DEF TriggerInv
  <2>3. \A s \in T : s.mac5 \in FEBs /\ TaggerOf[s.mac5] = tagger /\ TimeOf(s) \in Nat
    BY <2>2 DEF ChainTyped, IsStrip
  <2> HIDE DEF T
  <2>4. /\ P \in Seq(ToSet(P))
        /\ \A k \in DOMAIN P :
             /\ P[k].mac5 \in FEBs /\ P[k].unixs = 0
             /\ P[k].ides \in Seq(T) /\ IsInjective(P[k].ides)
             /\ ToSet(P[k].ides) = {s \in ToSet(strips) : s.mac5 = P[k].mac5}
             /\ \E s \in ToSet(P[k].ides) : P[k].ts = TimeOf(s)
        /\ \A k, l \in DOMAIN P : k # l => P[k].mac5 # P[l].mac5
    <3> HIDE DEF strips
    <3> QED BY <2>2, <2>3, Processed
  <2>5. ToSet(strips) \subseteq T
    BY <2>2 DEF ToSet
  <2>6. /\ febData \in Seq(ToSet(febData))
        /\ \A k \in DOMAIN febData : FromStrips(febData[k])
        /\ \A k, l \in DOMAIN febData : k # l => ToSet(febData[k].ides) \cap ToSet(febData[l].ides) = {}
        /\ \A k, l \in DOMAIN febData : k # l => Rested(febData[k], febData[l])
    BY DEF Made
  <2>7. /\ \A s \in ToSet(strips) : /\ s \notin todo /\ trigger_ts1 <= TimeOf(s)
        /\ \A k \in OfTagger(febData) : ToSet(febData[k].ides) \cap ToSet(strips) = {}
        /\ trigger.mac5s = {s.mac5 : s \in ToSet(strips)}
        /\ Ready(febData, trigger_ts1) /\ trigger_ts1 \in Nat
    BY DEF TriggerInv
  <2> HIDE DEF P, strips
  <2>8. /\ J \in Seq(ToSet(J)) /\ DOMAIN febData = 1 .. Len(febData) /\ Len(febData) \in Nat
        /\ DOMAIN J = 1 .. Len(febData) + Len(P)
        /\ \A k \in DOMAIN J :
             \/ k \in DOMAIN febData /\ J[k] = febData[k]
             \/ k - Len(febData) \in DOMAIN P /\ J[k] = P[k - Len(febData)] /\ k \notin DOMAIN febData
    BY <2>4, <2>6, Joined
  <2> DEFINE Old(k) == k \in DOMAIN febData /\ J[k] = febData[k]
             New(k) == k - Len(febData) \in DOMAIN P /\ J[k] = P[k - Len(febData)] /\ k \notin DOMAIN febData
  <2> HIDE DEF J
  (* What is known of a new readout. *)
  <2>9. ASSUME NEW k \in DOMAIN J, New(k)
        PROVE  /\ FromStrips(J[k]) /\ TaggerOf[J[k].mac5] = tagger /\ J[k].mac5 \in trigger.mac5s
               /\ ToSet(J[k].ides) \subseteq ToSet(strips)
               /\ \E s \in ToSet(strips) : J[k].ts = TimeOf(s)
               /\ trigger_ts1 <= J[k].ts
    <3>1. PICK f : f = J[k]
      OBVIOUS
    <3>2. /\ f.mac5 \in FEBs /\ f.unixs = 0 /\ f.ides \in Seq(T) /\ IsInjective(f.ides)
          /\ ToSet(f.ides) = {s \in ToSet(strips) : s.mac5 = f.mac5}
          /\ \E s \in ToSet(f.ides) : f.ts = TimeOf(s)
      BY <2>4, <2>9, <3>1
    <3>3. PICK s \in ToSet(strips) : f.ts = TimeOf(s) /\ s.mac5 = f.mac5
      BY <3>2
    <3>4. TaggerOf[f.mac5] = tagger /\ f.ts \in Nat /\ f.mac5 \in trigger.mac5s /\ trigger_ts1 <= f.ts
      BY <2>3, <2>5, <2>7, <3>3
    <3>5. FromStrips(f)
      BY <3>2, <3>4 DEF FromStrips, T
    <3> QED BY <3>1, <3>2, <3>3, <3>4, <3>5
  <2>10. ASSUME NEW k \in DOMAIN J PROVE FromStrips(J[k])
    BY <2>6, <2>8, <2>9
  <2>11. ASSUME NEW k \in DOMAIN J, NEW l \in DOMAIN J, k # l
         PROVE  ToSet(J[k].ides) \cap ToSet(J[l].ides) = {}
    <3>1. ASSUME NEW a \in DOMAIN J, NEW b \in DOMAIN J, Old(a), New(b)
          PROVE  ToSet(J[a].ides) \cap ToSet(J[b].ides) = {}
      <4>1. ToSet(J[b].ides) \subseteq ToSet(strips) /\ TaggerOf[J[b].mac5] = tagger
        BY <2>9, <3>1
      <4>2. CASE TaggerOf[J[a].mac5] = tagger
        BY <2>7, <3>1, <4>1, <4>2 DEF OfTagger
      <4>3. CASE TaggerOf[J[a].mac5] # tagger
        <5>1. FromStrips(J[a]) /\ FromStrips(J[b])
          BY <2>10
        <5> QED BY <4>1, <4>3, <5>1 DEF FromStrips
      <4> QED BY <4>2, <4>3
    <3>2. CASE Old(k) /\ Old(l)
      BY <2>6, <2>11, <3>2
    <3>3. CASE New(k) /\ New(l)
      <4>1. k - Len(febData) # l - Len(febData)
        BY <2>8, <2>11
      <4>2. J[k].mac5 # J[l].mac5
        BY <2>4, <3>3, <4>1
      <4> QED BY <2>10, <4>2 DEF FromStrips
    <3> QED BY <2>8, <3>1, <3>2, <3>3
  <2>12. ASSUME NEW k \in DOMAIN J, NEW l \in DOMAIN J, k # l
         PROVE  Rested(J[k], J[l])
    <3>1. ASSUME NEW a \in DOMAIN J, NEW b \in DOMAIN J, Old(a), New(b)
          PROVE  Rested(J[a], J[b]) /\ Rested(J[b], J[a])
      <4>1. TaggerOf[J[b].mac5] = tagger /\ trigger_ts1 <= J[b].ts /\ FromStrips(J[a]) /\ FromStrips(J[b])
        BY <2>9, <2>10, <3>1
      <4>2. CASE J[a].mac5 # J[b].mac5
        BY <4>2 DEF Rested
      <4>3. CASE J[a].mac5 = J[b].mac5
        <5>1. a \in OfTagger(febData) /\ J[a] = febData[a]
          BY <3>1, <4>1, <4>3 DEF OfTagger
        <5>2. /\ J[a].ts <= trigger_ts1
              /\ trigger_ts1 - J[a].ts <= TriggerSpan => EndedBy(J[a], J[a].ts, trigger_ts1)
          BY <2>7, <5>1 DEF Ready
        <5>3. J[a].ts \in Nat /\ J[b].ts \in Nat /\ TriggerSpan \in Int
          BY <4>1, SimAssumption DEF FromStrips, TriggerSpan
        <5>4. ASSUME J[b].ts - J[a].ts <= TriggerSpan
              PROVE  EndedBy(J[a], J[a].ts, J[b].ts)
          <6>1. trigger_ts1 - J[a].ts <= TriggerSpan
            BY <2>7, <4>1, <5>3, <5>4
          <6>2. PICK s \in fTaggers[TaggerOf[J[a].mac5]] :
                  /\ s.sipm_coinc /\ s.mac5 # J[a].mac5
                  /\ J[a].ts <= TimeOf(s) /\ TimeOf(s) <= trigger_ts1
            BY <5>2, <6>1 DEF EndedBy
          <6>3. TimeOf(s) \in Nat
            BY <2>3, <4>1, <4>3, <6>2 DEF T
          <6>4. TimeOf(s) <= J[b].ts
            BY <2>7, <4>1, <5>3, <6>2, <6>3
          <6> QED BY <6>2, <6>4 DEF EndedBy
        <5>5. ASSUME J[b].ts <= J[a].ts, J[a].ts - J[b].ts <= TriggerSpan
              PROVE  EndedBy(J[b], J[b].ts, J[a].ts)
          <6>1. J[a].ts = J[b].ts
            BY <2>7, <4>1, <5>2, <5>3, <5>5
          <6>2. EndedBy(J[a], J[a].ts, J[b].ts)
            BY <5>3, <5>4, <5>5, <6>1
          <6> QED BY <4>3, <6>1, <6>2 DEF EndedBy
        <5> QED BY <4>3, <5>4, <5>5 DEF Rested
      <4> QED BY <4>2, <4>3
    <3>2. CASE Old(k) /\ Old(l)
      BY <2>6, <2>12, <3>2
    <3>3. CASE New(k) /\ New(l)
      <4>1. k - Len(febData) # l - Len(febData)
        BY <2>8, <2>12
      <4>2. J[k].mac5 # J[l].mac5
        BY <2>4, <3>3, <4>1
      <4> QED BY <4>2 DEF Rested
    <3> QED BY <2>8, <3>1, <3>2, <3>3
  <2>13. Made(J)
    BY <2>8, <2>10, <2>11, <2>12 DEF Made
  <2>14. ASSUME NEW k \in DOMAIN J PROVE TaggerOf[J[k].mac5] <= tagger
    <3>1. CASE Old(k)
      BY <3>1 DEF TriggerInv
    <3>2. CASE New(k)
      <4>1. tagger \in Nat
        BY <2>2, Geometry
      <4> QED BY <2>9, <3>2, <4>1
    <3> QED BY <2>8, <3>1, <3>2
  <2>15. ASSUME NEW k \in OfTagger(J) PROVE ToSet(J[k].ides) \cap todo = {}
    <3>1. k \in DOMAIN J
      BY DEF OfTagger
    <3>2. CASE Old(k)
      BY <3>1, <3>2 DEF OfTagger, TriggerInv
    <3>3. CASE New(k)
      BY <2>7, <2>9, <3>1, <3>3
    <3> QED BY <2>8, <3>1, <3>2, <3>3
  <2>16. ASSUME NEW k \in DOMAIN J
         PROVE  \/ k \in DOMAIN febData /\ J[k] = febData[k]
                \/ /\ J[k].mac5 \in trigger.mac5s
                   /\ \E s \in ToSet(trigger.strips) : J[k].ts = TimeOf(s)
    <3>1. CASE Old(k)
      BY <3>1
    <3>2. CASE New(k)
      BY <2>9, <3>2 DEF strips
    <3> QED BY <2>8, <3>1, <3>2
  <2> QED BY <1>2, <2>1, <2>13, <2>14, <2>15, <2>16
<1> QED BY <1>1, <1>2

(* What makes the boards ready for a trigger keeps them so for a later one.*)
LEMMA StaysReady ==
  ASSUME NEW F, NEW t \in Int, NEW u \in Int, t <= u, Ready(F, t), ChainTyped, Made(F)
  PROVE  Ready(F, u)
<1> SUFFICES ASSUME NEW k \in OfTagger(F)
             PROVE  F[k].ts <= u /\ (u - F[k].ts <= TriggerSpan => EndedBy(F[k], F[k].ts, u))
  BY DEF Ready
<1>1. F[k].ts <= t /\ (t - F[k].ts <= TriggerSpan => EndedBy(F[k], F[k].ts, t))
  BY DEF Ready
<1>2. FromStrips(F[k])
  BY DEF Made, OfTagger
<1>3. F[k].ts \in Nat /\ TriggerSpan \in Int /\ TaggerOf[F[k].mac5] \in Taggers
  <2>1. F[k].ts \in Nat /\ F[k].mac5 \in FEBs
    BY <1>2 DEF FromStrips
  <2>2. TriggerSpan \in Int
    BY SimAssumption DEF TriggerSpan
  <2> QED BY <2>1, <2>2, Geometry
<1>4. ASSUME u - F[k].ts <= TriggerSpan PROVE EndedBy(F[k], F[k].ts, u)
  <2>1. PICK s \in fTaggers[TaggerOf[F[k].mac5]] :
          s.sipm_coinc /\ s.mac5 # F[k].mac5 /\ F[k].ts <= TimeOf(s) /\ TimeOf(s) <= t
    BY <1>1, <1>3, <1>4 DEF EndedBy
  <2>2. TimeOf(s) \in Nat
    BY <1>3, <2>1 DEF ChainTyped, IsStrip
  <2>3. TimeOf(s) <= u
    BY <2>2, <2>1
  <2> QED BY <2>1, <2>3 DEF EndedBy
<1> QED BY <1>1, <1>3, <1>4

(* A strip that may start a trigger ends the last one: a board read out    *)
(* with it is either rested, or the strip is on another board.             *)
LEMMA FlushedReady ==
  ASSUME ChainTyped, Made(febData), TriggerInv, NEW s \in todo, CanStart(s), ~InWindow(s),
         \A v \in todo : TimeOf(s) <= TimeOf(v)
  PROVE  Ready(Flushed, TimeOf(s))
<1>1. s \in fTaggers[tagger] /\ tagger \in Taggers /\ s.mac5 \in FEBs /\ TaggerOf[s.mac5] = tagger
      /\ TimeOf(s) \in Nat /\ s.sipm_coinc
  BY DEF TriggerInv, ChainTyped, IsStrip, CanStart
<1>2. trigger_ts1 \in Nat /\ trigger_ts1 <= TimeOf(s) /\ Ready(febData, trigger_ts1)
  BY DEF TriggerInv
<1>3. Ready(febData, TimeOf(s))
  BY <1>1, <1>2, StaysReady
<1>4. \A k \in DOMAIN Flushed : FromStrips(Flushed[k])
  BY FlushedMade DEF Made
<1> SUFFICES ASSUME NEW k \in OfTagger(Flushed)
             PROVE  /\ Flushed[k].ts <= TimeOf(s)
                    /\ TimeOf(s) - Flushed[k].ts <= TriggerSpan => EndedBy(Flushed[k], Flushed[k].ts, TimeOf(s))
  BY DEF Ready
<1>5. PICK f : f = Flushed[k]
  OBVIOUS
<1>6. k \in DOMAIN Flushed /\ TaggerOf[f.mac5] = tagger /\ FromStrips(f)
  BY <1>4, <1>5 DEF OfTagger
<1>7. CASE k \in DOMAIN febData /\ f = febData[k]
  BY <1>3, <1>5, <1>6, <1>7 DEF Ready, OfTagger
<1>8. CASE /\ TaggerTriggered(trigger) /\ f.mac5 \in trigger.mac5s
           /\ \E r \in ToSet(trigger.strips) : f.ts = TimeOf(r)
  <2>1. PICK r \in ToSet(trigger.strips) : f.ts = TimeOf(r)
    BY <1>8
  <2>2. trigger_ts1 <= TimeOf(r) /\ InWindow(r) /\ TimeOf(r) <= TimeOf(s)
    BY <2>1 DEF TriggerInv
  <2>3. TimeOf(r) < trigger_ts1 + TaggerPlaneCoincidenceWindow /\ f.ts \in Nat
    BY <1>2, <1>6, <2>1, <2>2, SimAssumption DEF InWindow, FromStrips
  <2>4. ASSUME TimeOf(s) - f.ts <= TriggerSpan PROVE EndedBy(f, f.ts, TimeOf(s))
    <3>1. TimeOf(s) - trigger_ts1 <= DeadTime
      BY <1>1, <1>2, <2>1, <2>3, <2>4, SimAssumption DEF TriggerSpan
    <3>2. s.mac5 \notin trigger.mac5s
      BY <1>8, <3>1 DEF CanStart, IsInDeadTime
    <3>3. s.mac5 # f.mac5 /\ f.ts <= TimeOf(s) /\ TimeOf(s) <= TimeOf(s)
      BY <1>1, <1>8, <2>1, <2>2, <3>2
    <3> QED BY <1>1, <1>6, <3>3 DEF EndedBy
  <2> QED BY <1>5, <2>1, <2>2, <2>4
<1> QED BY <1>5, <1>6, <1>7, <1>8, FlushedMade
(* Where there is no readout, each is made as it should be.                *)
LEMMA NothingMade == febData = <<>> => Made(febData)
<1> SUFFICES ASSUME febData = <<>> PROVE Made(febData)
  OBVIOUS
<1>1. DOMAIN febData = {} /\ febData \in Seq(ToSet(febData))
  OBVIOUS
<1> QED BY <1>1 DEF Made

(* Readouts that are made stay so while the strips do.                     *)
LEMMA MadeStays ==
  ASSUME NEW F, Made(F), febData' = F, fTaggers' = fTaggers
  PROVE  Made(febData)'
<1>1. /\ F \in Seq(ToSet(F))
      /\ \A k \in DOMAIN F : FromStrips(F[k])
      /\ \A k, l \in DOMAIN F : k # l => ToSet(F[k].ides) \cap ToSet(F[l].ides) = {}
      /\ \A k, l \in DOMAIN F : k # l => Rested(F[k], F[l])
  BY DEF Made
<1>2. \A k \in DOMAIN febData' : FromStrips(febData[k])'
  BY <1>1 DEF FromStrips
<1>3. \A k, l \in DOMAIN febData' : k # l => Rested(febData[k], febData[l])'
  BY <1>1 DEF Rested, EndedBy
<1>4. febData' \in Seq(ToSet(febData'))
  BY <1>1
<1>5. \A k, l \in DOMAIN febData' : k # l => ToSet(febData'[k].ides) \cap ToSet(febData'[l].ides) = {}
  BY <1>1
<1> QED BY <1>2, <1>3, <1>4, <1>5 DEF Made

(* So does a tagger's readiness.                                           *)
LEMMA ReadyStays ==
  ASSUME NEW F, NEW t, Ready(F, t), febData' = F, trigger_ts1' = t, UNCHANGED <<fTaggers, tagger>>
  PROVE  Ready(febData, trigger_ts1)'
BY DEF Ready, OfTagger, EndedBy

(* A tagger starts with none of its strips in a readout.                   *)
LEMMA TaggerStarts ==
  ASSUME ChainTyped, NEW left, left \subseteq Taggers, left # {}, StartTagger(left),
         fTaggers' = fTaggers,
         \A k \in DOMAIN febData' : febData'[k].mac5 \in FEBs,
         \A k \in DOMAIN febData' : \A t \in left : TaggerOf[febData'[k].mac5] < t
  PROVE  TriggerInv'
<1> DEFINE first == CHOOSE t \in left : \A u \in left : t <= u
<1>1. tagger' = first /\ todo' = fTaggers[tagger'] /\ trigger_ts1' = 0 /\ first_trigger' = TRUE
      /\ trigger' = EmptyTrigger
  BY DEF StartTagger
<1>2. \E t \in left : \A u \in left : t <= u
  <2>1. IsFiniteSet(Taggers)
    BY Geometry
  <2>2. IsFiniteSet(left)
    BY <2>1, FS_Subset
  <2>3. \A t \in left : t \in Int
    BY Geometry
  <2>4. PICK t \in left, l \in left : \A u \in left : t <= u /\ u <= l
    BY <2>2, <2>3, HasFirstAndLast
  <2> QED BY <2>4
<1>3. first \in left
  BY <1>2
<1>4. tagger' \in left /\ tagger' \in Taggers /\ tagger' \in Nat
  BY <1>1, <1>3, Geometry
<1> HIDE DEF first
<1>5. trigger'.strips = <<>> /\ trigger'.mac5s = {} /\ ToSet(trigger'.strips) = {}
  BY <1>1 DEF EmptyTrigger, ToSet
<1>6. trigger'.strips \in Seq(fTaggers[tagger']) /\ IsInjective(trigger'.strips)
  BY <1>5 DEF IsInjective
<1>7. \A u \in todo' : TimeOf(u) \in Nat
  BY <1>1, <1>4 DEF ChainTyped, IsStrip
<1>8. \A k \in DOMAIN febData' : TaggerOf[febData'[k].mac5] < tagger'
  BY <1>4
<1>9. OfTagger(febData)' = {}
  BY <1>4, <1>8 DEF OfTagger
<1>10. Ready(febData, trigger_ts1)'
  BY <1>9 DEF Ready
<1>11. ASSUME NEW k \in DOMAIN febData' PROVE TaggerOf[febData'[k].mac5] <= tagger'
  <2>1. TaggerOf[febData'[k].mac5] \in Nat
    BY Geometry
  <2> QED BY <1>4, <1>8, <2>1
<1>12. ASSUME NEW u \in todo' PROVE trigger_ts1' <= TimeOf(u)
  BY <1>1, <1>7
<1>13. trigger_ts1' \in Nat /\ first_trigger' \in BOOLEAN /\ todo' \subseteq fTaggers'[tagger']
  BY <1>1
<1> QED BY <1>4, <1>5, <1>6, <1>9, <1>10, <1>11, <1>12, <1>13 DEF TriggerInv

(* A new element at the end of a sequence without repetitions.             *)
LEMMA AppendedOnce ==
  ASSUME NEW S, NEW s \in Seq(S), IsInjective(s), NEW e \in S, e \notin ToSet(s)
  PROVE  /\ Append(s, e) \in Seq(S) /\ IsInjective(Append(s, e))
         /\ ToSet(Append(s, e)) = ToSet(s) \cup {e}
<1> DEFINE n == Len(s)
           a == Append(s, e)
<1>1. n \in Nat /\ DOMAIN s = 1 .. n /\ DOMAIN a = 1 .. n + 1 /\ a \in Seq(S)
  OBVIOUS
<1>2. a[n + 1] = e /\ \A k \in 1 .. n : a[k] = s[k]
  OBVIOUS
<1> HIDE DEF a
<1>3. ToSet(a) = ToSet(s) \cup {e}
  <2>1. \A k \in 1 .. n + 1 : k = n + 1 \/ k \in 1 .. n
    BY <1>1
  <2>2. n + 1 \in 1 .. n + 1 /\ 1 .. n \subseteq 1 .. n + 1
    BY <1>1
  <2> HIDE DEF n
  <2> QED BY <1>1, <1>2, <2>1, <2>2 DEF ToSet
<1>4. ASSUME NEW j \in DOMAIN a, NEW k \in DOMAIN a, a[j] = a[k] PROVE j = k
  <2>1. \A i \in 1 .. n : s[i] # e
    BY <1>1 DEF ToSet
  <2> HIDE DEF n
  <2> QED BY <1>1, <1>2, <1>4, <2>1 DEF IsInjective
<1> QED BY <1>1, <1>3, <1>4 DEF IsInjective, a

(* A strip becomes part of the trigger it starts or joins, or is dropped.  *)
LEMMA StripLookedAt ==
  ASSUME ChainTyped, Made(febData), TriggerInv, NEW s \in NextStrips, todo' = todo \ {s},
         FirstTrigger(s) \/ JoinTrigger(s) \/ NewTrigger(s) \/ DropStrip(s),
         UNCHANGED <<fTaggers, tagger>>
  PROVE  TriggerInv' /\ Made(febData)'
<1> DEFINE T == fTaggers[tagger]
<1>1. /\ s \in todo /\ \A u \in todo : TimeOf(s) <= TimeOf(u)
      /\ tagger \in Taggers /\ todo \subseteq T
  BY DEF NextStrips, TriggerInv
<1>2. s \in T /\ s.mac5 \in FEBs /\ TimeOf(s) \in Nat /\ TaggerOf[s.mac5] = tagger
  BY <1>1 DEF ChainTyped, IsStrip
<1>3. /\ trigger_ts1 \in Nat /\ first_trigger \in BOOLEAN
      /\ trigger.strips \in Seq(T) /\ IsInjective(trigger.strips)
      /\ trigger.mac5s = {r.mac5 : r \in ToSet(trigger.strips)}
      /\ \A r \in ToSet(trigger.strips) :
           /\ r \notin todo /\ trigger_ts1 <= TimeOf(r) /\ InWindow(r)
           /\ \A u \in todo : TimeOf(r) <= TimeOf(u)
      /\ \A u \in todo : trigger_ts1 <= TimeOf(u)
      /\ \A k \in DOMAIN febData : TaggerOf[febData[k].mac5] <= tagger
      /\ first_trigger => OfTagger(febData) = {}
      /\ \A k \in OfTagger(febData) :
           ToSet(febData[k].ides) \cap (todo \cup ToSet(trigger.strips)) = {}
      /\ Ready(febData, trigger_ts1)
  BY DEF TriggerInv
<1>4. TaggerPlaneCoincidenceWindow \in Nat \ {0}
  BY SimAssumption
(* A trigger that s starts. *)
<1>5. ASSUME trigger' = AddStrip(EmptyTrigger, s)
      PROVE  /\ trigger'.strips \in Seq(T) /\ IsInjective(trigger'.strips)
             /\ ToSet(trigger'.strips) = {s} /\ trigger'.mac5s = {s.mac5}
  <2>1. trigger'.strips = <<s>> /\ trigger'.mac5s = {s.mac5}
    BY <1>5 DEF AddStrip, EmptyTrigger
  <2>2. s \in T
    BY <1>2
  <2> HIDE DEF T
  <2>3. <<s>> \in Seq(T) /\ Len(<<s>>) = 1 /\ <<s>>[1] = s
    BY <2>2
  <2>4. DOMAIN <<s>> = {1}
    OBVIOUS
  <2> QED BY <2>1, <2>3, <2>4 DEF IsInjective, ToSet
(* One that it joins. *)
<1>6. ASSUME trigger' = AddStrip(trigger, s)
      PROVE  /\ trigger'.strips \in Seq(T) /\ IsInjective(trigger'.strips)
             /\ ToSet(trigger'.strips) = ToSet(trigger.strips) \cup {s}
             /\ trigger'.mac5s = trigger.mac5s \cup {s.mac5}
  <2>1. trigger'.strips = Append(trigger.strips, s) /\ trigger'.mac5s = trigger.mac5s \cup {s.mac5}
    BY <1>6 DEF AddStrip
  <2>2. s \notin ToSet(trigger.strips)
    BY <1>1, <1>3
  <2> HIDE DEF T
  <2>3. PICK q : q = trigger.strips
    OBVIOUS
  <2>4. q \in Seq(T) /\ IsInjective(q) /\ s \in T /\ s \notin ToSet(q)
    BY <1>2, <1>3, <2>2, <2>3
  <2> QED BY <2>1, <2>3, <2>4, AppendedOnce
<1>7. CASE FirstTrigger(s)
  <2>1. /\ first_trigger' = FALSE /\ trigger_ts1' = TimeOf(s) /\ trigger' = AddStrip(EmptyTrigger, s)
        /\ febData' = febData /\ first_trigger
    BY <1>7 DEF FirstTrigger, First
  <2>2. OfTagger(febData) = {} /\ OfTagger(febData)' = {}
    BY <1>3, <2>1 DEF OfTagger
  <2>3. Ready(febData, trigger_ts1)'
    BY <2>2 DEF Ready
  <2>4. \A r \in ToSet(trigger'.strips) :
           /\ r \notin todo' /\ trigger_ts1' <= TimeOf(r) /\ InWindow(r)'
           /\ \A u \in todo' : TimeOf(r) <= TimeOf(u)
    BY <1>1, <1>2, <1>4, <1>5, <2>1 DEF InWindow
  <2>5. Made(febData)'
    BY <2>1, MadeStays
  <2>6. trigger'.mac5s = {r.mac5 : r \in ToSet(trigger'.strips)}
    BY <1>5, <2>1
  <2> QED BY <1>1, <1>2, <1>3, <1>5, <2>1, <2>2, <2>3, <2>4, <2>5, <2>6 DEF TriggerInv
<1>8. CASE JoinTrigger(s)
  <2>1. /\ UNCHANGED <<febData, trigger_ts1, first_trigger>> /\ trigger' = AddStrip(trigger, s)
        /\ InWindow(s)
    BY <1>8 DEF JoinTrigger
  <2>2. Ready(febData, trigger_ts1)'
    BY <1>3, <2>1, ReadyStays
  <2>3. OfTagger(febData)' = OfTagger(febData)
    BY <2>1 DEF OfTagger
  <2>4. \A r \in ToSet(trigger'.strips) :
           /\ r \notin todo' /\ trigger_ts1' <= TimeOf(r) /\ InWindow(r)'
           /\ \A u \in todo' : TimeOf(r) <= TimeOf(u)
    BY <1>1, <1>2, <1>3, <1>6, <2>1 DEF InWindow
  <2>5. Made(febData)'
    BY <2>1, MadeStays
  <2>6. trigger'.mac5s = {r.mac5 : r \in ToSet(trigger'.strips)}
    BY <1>3, <1>6, <2>1
  <2>7. \A k \in OfTagger(febData)' :
          ToSet(febData'[k].ides) \cap (todo' \cup ToSet(trigger'.strips)) = {}
    BY <1>1, <1>3, <1>6, <2>1, <2>3
  <2> QED BY <1>1, <1>3, <1>6, <2>1, <2>2, <2>3, <2>4, <2>5, <2>6, <2>7 DEF TriggerInv
<1>9. CASE NewTrigger(s)
  <2>1. /\ febData' = Flushed /\ trigger_ts1' = TimeOf(s) /\ trigger' = AddStrip(EmptyTrigger, s)
        /\ first_trigger' = FALSE /\ ~InWindow(s) /\ CanStart(s)
    BY <1>3, <1>9 DEF NewTrigger, First, CanStart
  <2>2. /\ Made(Flushed)
        /\ \A k \in DOMAIN Flushed : TaggerOf[Flushed[k].mac5] <= tagger
        /\ \A k \in OfTagger(Flushed) : ToSet(Flushed[k].ides) \cap todo = {}
    BY FlushedMade
  <2>3. Ready(Flushed, TimeOf(s))
    BY <1>1, <2>1, FlushedReady
  <2>4. Made(febData)' /\ Ready(febData, trigger_ts1)'
    BY <2>1, <2>2, <2>3, MadeStays, ReadyStays
  <2>5. \A r \in ToSet(trigger'.strips) :
           /\ r \notin todo' /\ trigger_ts1' <= TimeOf(r) /\ InWindow(r)'
           /\ \A u \in todo' : TimeOf(r) <= TimeOf(u)
    BY <1>1, <1>2, <1>4, <1>5, <2>1 DEF InWindow
  <2>6. trigger'.mac5s = {r.mac5 : r \in ToSet(trigger'.strips)}
    BY <1>5, <2>1
  <2>7. OfTagger(febData)' = OfTagger(Flushed)
    BY <2>1 DEF OfTagger
  <2>8. \A k \in OfTagger(febData)' :
          ToSet(febData'[k].ides) \cap (todo' \cup ToSet(trigger'.strips)) = {}
    BY <1>1, <1>5, <2>1, <2>2, <2>7
  <2>9. \A k \in DOMAIN febData' : TaggerOf[febData'[k].mac5] <= tagger'
    BY <2>1, <2>2
  <2> QED BY <1>1, <1>2, <1>3, <1>5, <2>1, <2>4, <2>5, <2>6, <2>8, <2>9 DEF TriggerInv
<1>10. CASE DropStrip(s)
  <2>1. UNCHANGED <<febData, trigger_ts1, first_trigger, trigger>>
    BY <1>10 DEF DropStrip
  <2>2. Ready(febData, trigger_ts1)' /\ Made(febData)'
    BY <1>3, <2>1, ReadyStays, MadeStays
  <2>3. OfTagger(febData)' = OfTagger(febData)
    BY <2>1 DEF OfTagger
  <2>4. \A r : InWindow(r)' = InWindow(r)
    BY <2>1 DEF InWindow
  <2> QED BY <1>1, <1>3, <2>1, <2>2, <2>3, <2>4 DEF TriggerInv
<1> QED BY <1>7, <1>8, <1>9, <1>10

(* The simulation keeps its readouts apart, and ready for the next one.    *)
LEMMA SimKept ==
  ASSUME ChainTyped, SimInv, Next
  PROVE  SimInv'
<1>1. (febData = <<>>)' => Made(febData)'
  BY NothingMade, PTL
<1>2. UNCHANGED fConfig
  BY DEF Next, Simulate, FillTaggers, NegativeTime, CreateData, LookAtStrip, EndTagger, eventVars,
         DecideFrames, ReadEvent, StripHits, ProduceStripHits, UnixTimestampsDiffer,
         Cluster, CreateCluster, ProduceSpacePoints, Veto, ProduceVeto, Objects, ProduceBlobs,
         ProduceTracks, NextEvent
<1> SUFFICES ASSUME fConfig.mc
             PROVE  /\ stage' = "fill" => febData' = <<>>
                    /\ Made(febData)'
                    /\ stage' = "trigger" => TriggerInv'
  BY <1>2 DEF SimInv
<1>3. (stage = "fill" => febData = <<>>) /\ Made(febData) /\ (stage = "trigger" => TriggerInv)
  BY DEF SimInv
<1>4. ASSUME NEW d, FillTaggers(d)
      PROVE  stage' = "fill" /\ febData' = <<>>
  BY <1>3, <1>4 DEF FillTaggers, eventVars
<1>5. ASSUME NEW d, NegativeTime(d)
      PROVE  stage' = "thrown" /\ UNCHANGED <<febData, fTaggers>>
  BY <1>5 DEF NegativeTime, simVars
<1>6. CASE CreateData
  <2>1. febData' = <<>> /\ fTaggers' = fTaggers /\ StartTagger(HitTaggers) /\ HitTaggers \subseteq Taggers
    BY <1>3, <1>6 DEF CreateData, HitTaggers
  <2>2. CASE HitTaggers = {}
    <3>1. stage' = "hits"
      BY <2>1, <2>2 DEF StartTagger
    <3> QED BY <1>1, <2>1, <3>1
  <2>3. CASE HitTaggers # {}
    <3>1. DOMAIN febData' = {}
      BY <2>1
    <3>2. TriggerInv'
      BY <2>1, <2>3, <3>1, TaggerStarts
    <3>3. stage' = "trigger"
      BY <2>1, <2>3 DEF StartTagger
    <3> QED BY <1>1, <2>1, <3>2, <3>3
  <2> QED BY <2>2, <2>3
<1>7. CASE LookAtStrip
  <2>1. stage' = "trigger" /\ TriggerInv
    BY <1>3, <1>7 DEF LookAtStrip
  <2>2. PICK s \in NextStrips :
          todo' = todo \ {s} /\ (FirstTrigger(s) \/ JoinTrigger(s) \/ NewTrigger(s) \/ DropStrip(s))
    BY <1>7 DEF LookAtStrip
  <2>3. UNCHANGED <<fTaggers, tagger>>
    BY <1>7 DEF LookAtStrip
  <2>4. TriggerInv' /\ Made(febData)'
    BY <1>3, <2>1, <2>2, <2>3, StripLookedAt
  <2> QED BY <2>1, <2>4
<1>8. CASE EndTagger
  <2>1. /\ TriggerInv /\ febData' = Flushed /\ StartTagger(Later(tagger)) /\ fTaggers' = fTaggers
        /\ Later(tagger) \subseteq Taggers /\ \A t \in Later(tagger) : tagger < t
    BY <1>3, <1>8 DEF EndTagger, Later, HitTaggers
  <2>2. Made(Flushed) /\ \A k \in DOMAIN Flushed : TaggerOf[Flushed[k].mac5] <= tagger
    BY <1>3, <2>1, FlushedMade
  <2>3. Made(febData)'
    BY <2>1, <2>2, MadeStays
  <2>4. CASE Later(tagger) = {}
    <3>1. stage' = "hits"
      BY <2>1, <2>4 DEF StartTagger
    <3> QED BY <2>3, <3>1
  <2>5. CASE Later(tagger) # {}
    <3>1. stage' = "trigger"
      BY <2>1, <2>5 DEF StartTagger
    <3>2. \A k \in DOMAIN febData' : febData'[k].mac5 \in FEBs
      BY <2>1, <2>2 DEF Made, FromStrips
    <3>3. ASSUME NEW k \in DOMAIN febData', NEW t \in Later(tagger)
          PROVE  TaggerOf[febData'[k].mac5] < t
      <4>1. TaggerOf[febData'[k].mac5] <= tagger /\ tagger < t
        BY <2>1, <2>2
      <4>2. TaggerOf[febData'[k].mac5] \in Nat /\ t \in Nat /\ tagger \in Nat
        BY <2>1, <3>2, Geometry DEF TriggerInv
      <4> QED BY <4>1, <4>2
    <3>4. TriggerInv'
      BY <2>1, <2>5, <3>2, <3>3, TaggerStarts
    <3> QED BY <2>3, <3>1, <3>4
  <2> QED BY <2>4, <2>5
<1>9. CASE DecideFrames
  <2>1. stage' \notin Simulating /\ UNCHANGED <<febData, fTaggers>>
    BY <1>9 DEF DecideFrames, ReadTiming, UnpackTiming, ShiftFrames, Simulating, simVars
  <2> QED BY <1>3, <2>1, MadeStays DEF Simulating
<1>10. CASE ReadEvent
  BY <1>10 DEF ReadEvent, ChainTyped, Reading
<1>11. CASE StripHits \/ Cluster \/ Veto \/ Objects
  <2>1. stage' \notin Simulating /\ UNCHANGED <<febData, fTaggers>>
    BY <1>11 DEF StripHits, ProduceStripHits, UnixTimestampsDiffer, Cluster, CreateCluster,
                 ProduceSpacePoints, Veto, ProduceVeto, Objects, ProduceBlobs, ProduceTracks,
                 Simulating, simVars
  <2> QED BY <1>3, <2>1, MadeStays DEF Simulating
<1>12. CASE NextEvent
  <2>1. febData' = <<>> /\ stage' = "fill"
    BY <1>2, <1>12 DEF NextEvent, ClearTaggers, FirstStage
  <2> QED BY <1>1, <2>1
<1>13. CASE Simulate
  BY <1>1, <1>3, <1>4, <1>5, <1>6, <1>7, <1>8, <1>13, MadeStays DEF Simulate
<1> QED BY <1>9, <1>10, <1>11, <1>12, <1>13 DEF Next

-----------------------------------------------------------------------------
(* The times of a TDC channel.                                             *)
LEMMA StampsTyped ==
  ASSUME IsTiming(timing), NEW ch
  PROVE  StampsOf(ch) \in Seq(Int)
<1> DEFINE R == [ch : Nat, time : Nat]
           I == {i \in DOMAIN timing.tdc : timing.tdc[i].ch = ch}
           own == Selected(timing.tdc, I)
<1>1. PICK s : s = timing.tdc
  OBVIOUS
<1>2. s \in Seq(R) /\ I \subseteq DOMAIN s /\ own = Selected(s, I)
  BY <1>1 DEF IsTiming
<1> HIDE DEF I, own
<1>3. own \in Seq(R)
  <2> HIDE DEF R
  <2> QED BY <1>2, SelectedElements
<1>4. StampsOf(ch) = [i \in DOMAIN own |-> own[i].time]
  BY DEF StampsOf, own, I
<1>5. DOMAIN own = 1 .. Len(own) /\ Len(own) \in Nat /\ \A i \in DOMAIN own : own[i] \in R
  <2> HIDE DEF R
  <2> QED BY <1>3
<1>6. \A i \in DOMAIN own : own[i].time \in Int
  BY <1>5
<1> QED BY <1>4, <1>5, <1>6

(* The entries of a word, one for each of its bits.                        *)
WordEntries(w) == {[code |-> b, time |-> w.time * PtbTick] : b \in w.bits}
UnmaskedOf(seqs, zeros) ==
  /\ DOMAIN seqs = DOMAIN timing.ptb
  /\ \A k \in DOMAIN seqs : ToSet(seqs[k]) = WordEntries(timing.ptb[k])
  /\ \A k \in DOMAIN zeros : zeros[k] = [code |-> 0, time |-> 0]
  /\ Unmasked = FlattenSeq(seqs) \o zeros

(* The entries are those of the words that were sent, word after word;     *)
(* then there are zeros.                                                   *)
LEMMA UnmaskedParts ==
  ASSUME IsTiming(timing)
  PROVE  \E seqs \in Seq(Seq([code : Int, time : Int])), zeros \in Seq([code : Int, time : Int]) :
           UnmaskedOf(seqs, zeros)
<1> DEFINE R == [code : Int, time : Int]
           Entries(w) == LET bits == InOrder(w.bits)
                         IN [i \in DOMAIN bits |-> [code |-> bits[i], time |-> w.time * PtbTick]]
           idle == {k \in DOMAIN timing.ptb : timing.ptb[k].bits = {}}
           seqs == [k \in DOMAIN timing.ptb |-> Entries(timing.ptb[k])]
           zeros == [k \in 1 .. Cardinality(idle) |-> [code |-> 0, time |-> 0]]
<1>1. /\ DOMAIN timing.ptb = 1 .. Len(timing.ptb) /\ Len(timing.ptb) \in Nat
      /\ \A k \in DOMAIN timing.ptb :
           timing.ptb[k].bits \in SUBSET (0 .. 31) /\ timing.ptb[k].time \in Nat
  <2> DEFINE Word == [bits : SUBSET (0 .. 31), time : Nat]
  <2>1. timing.ptb \in Seq(Word)
    BY DEF IsTiming
  <2>2. /\ DOMAIN timing.ptb = 1 .. Len(timing.ptb) /\ Len(timing.ptb) \in Nat
        /\ \A k \in DOMAIN timing.ptb : timing.ptb[k] \in Word
    <3> HIDE DEF Word
    <3> QED BY <2>1
  <2> QED BY <2>2
<1>2. ASSUME NEW k \in DOMAIN timing.ptb
      PROVE  /\ Entries(timing.ptb[k]) \in Seq(R)
             /\ ToSet(Entries(timing.ptb[k])) = WordEntries(timing.ptb[k])
  <2>1. PICK B \in SUBSET (0 .. 31) : \E t \in Nat : B = timing.ptb[k].bits /\ t = timing.ptb[k].time
    BY <1>1
  <2>2. PICK t \in Nat : B = timing.ptb[k].bits /\ t = timing.ptb[k].time
    BY <2>1
  <2>3. IsFiniteSet(B) /\ (\A b \in B : b \in Int) /\ t * PtbTick \in Int
    <3>1. 0 \in Int /\ 31 \in Int
      OBVIOUS
    <3>2. IsFiniteSet(0 .. 31)
      BY <3>1, FS_Interval
    <3>3. IsFiniteSet(B)
      BY <3>2, FS_Subset
    <3>4. PtbTick \in Nat
      BY FrameShiftAssumption
    <3> QED BY <3>3, <3>4
  <2>4. InOrder(B) \in Seq(B) /\ ToSet(InOrder(B)) = B
    BY <2>3, InOrderLists
  <2>5. DOMAIN InOrder(B) = 1 .. Len(InOrder(B)) /\ Len(InOrder(B)) \in Nat
        /\ \A i \in DOMAIN InOrder(B) : InOrder(B)[i] \in Int
    <3>1. \A i \in DOMAIN InOrder(B) : InOrder(B)[i] \in B
      BY <2>4
    <3>2. \A i \in DOMAIN InOrder(B) : InOrder(B)[i] \in Int
      BY <2>3, <3>1
    <3>3. DOMAIN InOrder(B) = 1 .. Len(InOrder(B)) /\ Len(InOrder(B)) \in Nat
      BY <2>4
    <3> QED BY <3>2, <3>3
  <2>6. Entries(timing.ptb[k]) = [i \in DOMAIN InOrder(B) |-> [code |-> InOrder(B)[i], time |-> t * PtbTick]]
    BY <2>2
  <2>8. \A i \in DOMAIN InOrder(B) : [code |-> InOrder(B)[i], time |-> t * PtbTick] \in R
    BY <2>3, <2>5
  <2>9. {[code |-> InOrder(B)[i], time |-> t * PtbTick] : i \in DOMAIN InOrder(B)}
          = {[code |-> b, time |-> t * PtbTick] : b \in B}
    BY <2>4 DEF ToSet
  <2> HIDE DEF R, Entries
  <2>10. Entries(timing.ptb[k]) \in Seq(R)
    BY <2>5, <2>6, <2>8
  <2>11. ToSet(Entries(timing.ptb[k])) = {[code |-> InOrder(B)[i], time |-> t * PtbTick] : i \in DOMAIN InOrder(B)}
    BY <2>6 DEF ToSet
  <2> QED BY <2>2, <2>9, <2>10, <2>11 DEF WordEntries
<1>3. Cardinality(idle) \in Nat
  <2>1. idle \subseteq 1 .. Len(timing.ptb)
    BY <1>1
  <2>2. IsFiniteSet(1 .. Len(timing.ptb))
    BY <1>1, FS_Interval
  <2>3. IsFiniteSet(idle)
    BY <2>1, <2>2, FS_Subset
  <2> QED BY <2>3, FS_CardinalityType
<1>4. zeros \in Seq(R)
  <2> HIDE DEF idle
  <2>1. [code |-> 0, time |-> 0] \in R
    OBVIOUS
  <2> HIDE DEF R
  <2> QED BY <1>3, <2>1
<1>5. Unmasked = FlattenSeq(seqs) \o zeros /\ \A k \in DOMAIN zeros : zeros[k] = [code |-> 0, time |-> 0]
  BY DEF Unmasked
<1> HIDE DEF zeros, Entries
<1>6. seqs \in Seq(Seq(R))
  <2> HIDE DEF R
  <2> QED BY <1>1, <1>2
<1>7. DOMAIN seqs = DOMAIN timing.ptb /\ \A k \in DOMAIN seqs : ToSet(seqs[k]) = WordEntries(timing.ptb[k])
  BY <1>2
<1> HIDE DEF seqs, R
<1>8. UnmaskedOf(seqs, zeros)
  BY <1>5, <1>7 DEF UnmaskedOf
<1> QED BY <1>4, <1>6, <1>8 DEF R

(* These are codes with times.                                             *)
LEMMA UnmaskedTyped ==
  ASSUME IsTiming(timing)
  PROVE  Unmasked \in Seq([code : Int, time : Int])
<1> DEFINE R == [code : Int, time : Int]
<1>1. PICK seqs \in Seq(Seq(R)), zeros \in Seq(R) : UnmaskedOf(seqs, zeros)
  BY UnmaskedParts
<1> HIDE DEF R
<1>2. FlattenSeq(seqs) \in Seq(R)
  BY Flattened
<1>3. FlattenSeq(seqs) \o zeros \in Seq(R)
  BY <1>2, ConcatProperties
<1>4. Unmasked = FlattenSeq(seqs) \o zeros
  BY <1>1 DEF UnmaskedOf
<1>5. Unmasked \in Seq(R)
  BY <1>3, <1>4
<1> QED BY <1>5 DEF R

(* There is a first of the times closest to a reference.                   *)
LEMMA ClosestIs ==
  ASSUME NEW times \in Seq(Int), times # <<>>, NEW ref \in Int
  PROVE  /\ ClosestIndex(times, ref) \in DOMAIN times
         /\ \A j \in DOMAIN times :
              TimeDistance(times[ClosestIndex(times, ref)], ref) <= TimeDistance(times[j], ref)
<1> DEFINE I == DOMAIN times
           D == [i \in I |-> TimeDistance(times[i], ref)]
           W == {D[i] : i \in I}
<1>1. I = 1 .. Len(times) /\ Len(times) \in Nat /\ I # {} /\ \A i \in I : times[i] \in Int
  <2>1. I = 1 .. Len(times) /\ Len(times) \in Nat /\ \A i \in I : times[i] \in Int
    OBVIOUS
  <2>2. Len(times) # 0
    BY EmptySeq
  <2>3. 1 \in I
    BY <2>1, <2>2
  <2> QED BY <2>1, <2>3
<1>2. \A i \in I : D[i] \in Int
  BY <1>1 DEF TimeDistance
<1>3. IsFiniteSet(I)
  BY <1>1, FS_Interval
<1> HIDE DEF D, I
<1>4. PICK w \in W, x \in W : \A y \in W : w <= y /\ y <= x
  <2>1. IsFiniteSet(W)
    BY <1>3, ImageOf
  <2>2. W # {} /\ \A y \in W : y \in Int
    BY <1>1, <1>2
  <2> HIDE DEF W
  <2> QED BY <2>1, <2>2, HasFirstAndLast
<1> DEFINE J == {i \in I : D[i] = w}
<1>5. IsFiniteSet(J) /\ J # {} /\ \A i \in J : i \in Int
  BY <1>1, <1>3, <1>4, FS_Subset
<1>6. PICK i \in J, l \in J : \A j \in J : i <= j /\ j <= l
  <2> HIDE DEF J
  <2> QED BY <1>5, HasFirstAndLast
<1>7. i \in I /\ \A j \in I : D[i] < D[j] \/ (D[i] = D[j] /\ i <= j)
  <2>1. i \in I /\ D[i] = w /\ w \in Int /\ \A j \in I : w <= D[j]
    BY <1>2, <1>4, <1>6
  <2>2. ASSUME NEW j \in I, D[j] = w PROVE i <= j
    BY <1>6, <2>2
  <2> QED BY <1>2, <2>1, <2>2
<1>8. \A j \in I : D[j] = TimeDistance(times[j], ref)
  BY DEF D
<1>9. /\ ClosestIndex(times, ref) \in I
      /\ \A j \in I : \/ D[ClosestIndex(times, ref)] < D[j]
                      \/ D[ClosestIndex(times, ref)] = D[j] /\ ClosestIndex(times, ref) <= j
  BY <1>7, <1>8 DEF ClosestIndex, I
<1>10. PICK c : c = ClosestIndex(times, ref)
  OBVIOUS
<1>11. c \in I /\ \A j \in I : D[c] <= D[j]
  <2>1. c \in I /\ \A j \in I : D[c] < D[j] \/ D[c] = D[j]
    BY <1>9, <1>10
  <2> QED BY <1>2, <2>1
<1>12. \A j \in I : TimeDistance(times[c], ref) <= TimeDistance(times[j], ref)
  BY <1>8, <1>11
<1> QED BY <1>10, <1>11, <1>12 DEF I

(* Where frames are asked for, they are numbers.                           *)
LEMMA ShiftedTyped ==
  ASSUME FramesTyped
  PROVE  Shifted.default.time \in Int
<1>1. \A ch \in TdcChannels : tdc[ch] \in Seq(Int)
  BY DEF FramesTyped
<1>2. ASSUME NEW ch \in TdcChannels, NEW ref \in Int PROVE FindClosest(tdc[ch], ref) \in Int
  <2>1. PICK times \in Seq(Int) : times = tdc[ch]
    BY <1>1
  <2>2. CASE times = <<>>
    BY <2>1, <2>2 DEF FindClosest, Unset
  <2>3. CASE times # <<>>
    <3>1. ClosestIndex(times, ref) \in DOMAIN times
      BY <2>3, ClosestIs
    <3> QED BY <2>1, <2>3, <3>1 DEF FindClosest
  <2> QED BY <2>2, <2>3
<1>3. TdcEtrig \in Int
  <2>1. RawTs \in Int /\ 4 \in TdcChannels
    BY FrameShiftAssumption DEF RawTs, FramesTyped, IsTiming, TdcChannels
  <2> QED BY <1>2, <2>1 DEF TdcEtrig
<1>4. TdcTime(2) \in Int
  BY <1>2, <1>3 DEF TdcTime, TdcChannels
<1>5. ASSUME NEW code PROVE HltTime(code) \in Int
  <2> DEFINE own == {i \in DOMAIN hlts : hlts[i].code = code}
             R == [code : Int, time : Int]
  <2>1. hlts \in Seq(R)
    BY DEF FramesTyped
  <2>2. DOMAIN hlts = 1 .. Len(hlts) /\ Len(hlts) \in Nat /\ \A i \in DOMAIN hlts : hlts[i] \in R
    <3> HIDE DEF R
    <3> QED BY <2>1
  <2>3. CASE own = {}
    BY <2>3 DEF HltTime, Unset
  <2>4. CASE own # {}
    <3>1. own \in SUBSET (1 .. Len(hlts))
      BY <2>2
    <3>2. Max(own) \in own
      <4> HIDE DEF own
      <4> QED BY <2>2, <2>4, <3>1, GreatestIndex
    <3>3. HltTime(code) = hlts[Max(own)].time
      BY <2>4 DEF HltTime
    <3> QED BY <2>2, <3>2, <3>3
  <2> QED BY <2>3, <2>4
<1>6. ASSUME NEW stamp \in Int, NEW shift \in Int, NEW u \in Int
      PROVE  FirstOf(stamp, shift, u).time \in Int
  BY DEF FirstOf, FromTdc, FromPtb, NoShift
<1>7. FrameGate.time \in Int
  <2>1. (IF Stream = "beam" THEN TdcTime(2) ELSE Unset) \in Int
    BY <1>4 DEF Unset
  <2>2. HltTime(IF Stream = "beam" THEN BeamGateHlt ELSE OffbeamGateHlt) \in Int
    BY <1>5
  <2>3. ShiftTdcRwm2PtbGate \in Int
    BY FrameShiftAssumption
  <2> QED BY <1>6, <2>1, <2>2, <2>3 DEF FrameGate
<1>8. FrameEtrig.time \in Int
  BY <1>3, FrameShiftAssumption DEF FrameEtrig, FromTdc
<1> QED BY <1>7, <1>8 DEF Shifted

(* What FrameShift keeps is of its types.                                  *)
LEMMA FramesKept ==
  ASSUME ChainTyped, Next
  PROVE  FramesTyped'
<1>1. FramesTyped /\ fConfig \in Configs
  BY DEF ChainTyped
<1>2. CASE UNCHANGED shiftVars
  BY <1>1, <1>2 DEF shiftVars, FramesTyped
<1>3. CASE stage = "timing" /\ ReadTiming
  <2>1. ~fConfig.mc /\ timing' \in Timings(fConfig) /\ UNCHANGED <<tdc, hlts, frameInfo>>
    BY <1>3 DEF ReadTiming, ChainTyped, Reading
  <2>2. IsTiming(timing')
    BY <1>1, <2>1, InputsAssumption
  <2> QED BY <1>1, <2>1, <2>2 DEF FramesTyped, IsTiming
<1>4. CASE GetTimestamps
  <2>1. /\ tdc' = [ch \in TdcChannels |-> ClearedTdc[ch] \o StampsOf(ch)] /\ hlts' = Unmasked
        /\ UNCHANGED <<timing, frameInfo>> /\ IsTiming(timing)
    BY <1>1, <1>4 DEF GetTimestamps, FramesTyped
  <2>2. ASSUME NEW ch \in TdcChannels PROVE ClearedTdc[ch] \o StampsOf(ch) \in Seq(Int)
    <3>1. StampsOf(ch) \in Seq(Int) /\ ClearedTdc[ch] = <<>>
      BY <2>1, StampsTyped DEF ClearedTdc
    <3>2. <<>> \in Seq(Int)
      OBVIOUS
    <3> QED BY <3>1, <3>2, ConcatProperties
  <2>3. Unmasked \in Seq([code : Int, time : Int])
    BY <2>1, UnmaskedTyped
  <2> QED BY <1>1, <2>1, <2>2, <2>3 DEF FramesTyped, IsTiming
<1>5. CASE ResetEventVars
  <2>1. tdc' = ClearedTdc /\ hlts' = <<>> /\ UNCHANGED <<timing, frameInfo>>
    BY <1>5 DEF ResetEventVars
  <2>2. tdc' \in [TdcChannels -> Seq(Int)] /\ hlts' \in Seq([code : Int, time : Int])
    BY <2>1 DEF ClearedTdc
  <2> QED BY <1>1, <2>1, <2>2 DEF FramesTyped, IsTiming
<1>6. CASE PutFrames
  <2>1. frameInfo' = Shifted /\ UNCHANGED <<timing, tdc, hlts>>
    BY <1>6 DEF PutFrames
  <2> QED BY <1>1, <2>1, ShiftedTyped DEF FramesTyped, IsTiming
<1>7. CASE NextEvent
  <2>1. timing' = NoTiming /\ frameInfo' = NoFrame /\ UNCHANGED <<tdc, hlts>>
    BY <1>7 DEF NextEvent
  <2>2. IsTiming(timing')
    BY <2>1 DEF NoTiming, IsTiming, Unset
  <2>3. frameInfo'.default.time \in Int
    BY <2>1 DEF NoFrame, Invalid, Unset
  <2> QED BY <1>1, <2>1, <2>2, <2>3 DEF FramesTyped, IsTiming
<1>8. CASE DecideFrames
  <2>1. ReadTiming \/ GetTimestamps \/ ResetEventVars \/ PutFrames \/ UNCHANGED shiftVars
    BY <1>8 DEF DecideFrames, UnpackTiming, ShiftFrames
  <2>2. ReadTiming => stage = "timing"
    BY DEF ReadTiming
  <2> QED BY <1>2, <1>3, <1>4, <1>5, <1>6, <2>1, <2>2
<1>9. CASE Simulate \/ ReadEvent \/ StripHits \/ Cluster \/ Veto \/ Objects
  <2>1. UNCHANGED shiftVars
    BY <1>9 DEF Simulate, ReadEvent, StripHits, ProduceStripHits, UnixTimestampsDiffer, Cluster,
                Veto, Objects
  <2> QED BY <1>2, <2>1
<1> QED BY <1>7, <1>8, <1>9 DEF Next

(* A deposit's strip is of the tagger that its board is in.                *)
LEMMA StripTyped ==
  ASSUME NEW d, d.strip \in Strips, d.ts0 \in Nat, d.ts1 \in Nat, d.q0 \in Nat, d.q1 \in Nat
  PROVE  TaggerOf[StripData(d).mac5] \in Taggers /\ IsStrip(StripData(d), TaggerOf[StripData(d).mac5])
<1>1. StripData(d).mac5 = ModuleOf[d.strip] /\ ModuleOf[d.strip] \in FEBs
  BY Geometry DEF StripData
<1>2. TimeOf(StripData(d)) = (IF d.ts0 > d.ts1 THEN d.ts1 ELSE d.ts0)
  BY DEF TimeOf, StripData
<1>3. StripData(d).sipm_coinc = Coincident(d) /\ Coincident(d) \in BOOLEAN
  BY DEF StripData, Coincident
<1>4. StripData(d).sipm0.adc \in {d.q0, d.q1} /\ StripData(d).sipm1.adc \in {d.q0, d.q1}
  BY DEF StripData
<1> QED BY <1>1, <1>2, <1>3, <1>4, Geometry DEF IsStrip

(* The chain's inputs, and what is simulated, are of their types.          *)
LEMMA ChainKept ==
  ASSUME ChainTyped, SimInv, Next, SimInv'
  PROVE  ChainTyped'
<1>1. FramesTyped'
  BY FramesKept
<1>2. UNCHANGED fConfig /\ fConfig \in Configs
  BY DEF Next, Simulate, FillTaggers, NegativeTime, CreateData, LookAtStrip, EndTagger, eventVars,
         DecideFrames, ReadEvent, StripHits, ProduceStripHits, UnixTimestampsDiffer,
         Cluster, CreateCluster, ProduceSpacePoints, Veto, ProduceVeto, Objects, ProduceBlobs,
         ProduceTracks, NextEvent, ChainTyped
<1>3. /\ stage \in Simulating => fConfig.mc
      /\ stage \in Reading => ~fConfig.mc
      /\ DOMAIN fTaggers = Taggers /\ \A t \in Taggers : \A s \in fTaggers[t] : IsStrip(s, t)
      /\ IsEvent(febData)
  BY DEF ChainTyped
<1>4. ASSUME fConfig.mc PROVE IsEvent(febData')
  <2>1. Made(febData)'
    BY <1>2, <1>4 DEF SimInv
  <2>2. febData' \in Seq(ToSet(febData'))
    BY <2>1 DEF Made
  <2>3. ASSUME NEW k \in DOMAIN febData'
        PROVE  febData'[k].mac5 \in FEBs /\ febData'[k].unixs \in Nat /\ febData'[k].ts \in Nat
    BY <2>1 DEF Made, FromStrips
  <2> QED BY <2>2, <2>3 DEF IsEvent
<1>5. ASSUME \/ UNCHANGED fTaggers
             \/ fTaggers' = [t \in Taggers |-> {}]
             \/ \E d \in Deposits(fConfig) : FillTaggers(d)
      PROVE  DOMAIN fTaggers' = Taggers /\ \A t \in Taggers : \A s \in fTaggers'[t] : IsStrip(s, t)
  <2>1. CASE UNCHANGED fTaggers
    BY <1>3, <2>1
  <2>2. CASE fTaggers' = [t \in Taggers |-> {}]
    BY <2>2
  <2>3. ASSUME NEW d \in Deposits(fConfig), FillTaggers(d)
        PROVE  DOMAIN fTaggers' = Taggers /\ \A t \in Taggers : \A s \in fTaggers'[t] : IsStrip(s, t)
    <3>1. fConfig.mc /\ d.ts0 >= 0
      BY <1>3, <2>3 DEF FillTaggers, Simulating
    <3>2. d.strip \in Strips /\ d.ts0 \in Nat /\ d.ts1 \in Nat /\ d.q0 \in Nat /\ d.q1 \in Nat
      <4>1. d.strip \in Strips /\ d.ts0 \in Int /\ d.ts1 \in Nat /\ d.q0 \in Nat /\ d.q1 \in Nat
        BY <1>2, <3>1, InputsAssumption
      <4> QED BY <3>1, <4>1
    <3>3. PICK s, u : s = StripData(d) /\ u = TaggerOf[s.mac5]
      OBVIOUS
    <3>4. u \in Taggers /\ IsStrip(s, u)
      BY <3>2, <3>3, StripTyped
    <3>5. fTaggers' = [fTaggers EXCEPT ![u] = @ \cup {s}]
      BY <2>3, <3>3 DEF FillTaggers
    <3> QED BY <1>3, <3>4, <3>5
  <2> QED BY <1>5, <2>1, <2>2, <2>3
<1>6. CASE Simulate
  <2>1. fConfig.mc /\ stage' \notin Reading
    BY <1>3, <1>6 DEF Simulate, FillTaggers, NegativeTime, CreateData, LookAtStrip, EndTagger,
                      StartTagger, eventVars, Simulating, Reading
  <2>2. UNCHANGED fTaggers \/ \E d \in Deposits(fConfig) : FillTaggers(d)
    BY <1>6 DEF Simulate, NegativeTime, CreateData, LookAtStrip, EndTagger, simVars
  <2> QED BY <1>1, <1>2, <1>4, <1>5, <2>1, <2>2 DEF ChainTyped
<1>7. CASE DecideFrames
  <2>1. ~fConfig.mc /\ stage' \notin Simulating /\ UNCHANGED <<febData, fTaggers>>
    BY <1>3, <1>7 DEF DecideFrames, ReadTiming, UnpackTiming, ShiftFrames, Reading, Simulating, simVars
  <2> QED BY <1>1, <1>2, <1>3, <2>1 DEF ChainTyped, IsEvent
<1>8. CASE ReadEvent
  <2>1. ~fConfig.mc /\ febData' \in Events(fConfig) /\ stage' \notin Simulating /\ UNCHANGED fTaggers
    BY <1>3, <1>8 DEF ReadEvent, Reading, Simulating, simVars
  <2>2. IsEvent(febData')
    BY <1>2, <2>1, InputsAssumption
  <2> QED BY <1>1, <1>2, <1>3, <2>1, <2>2 DEF ChainTyped, IsEvent
<1>9. CASE StripHits \/ Cluster \/ Veto \/ Objects
  <2>1. stage' \notin Simulating \cup Reading /\ UNCHANGED <<febData, fTaggers>>
    BY <1>9 DEF StripHits, ProduceStripHits, UnixTimestampsDiffer, Cluster, CreateCluster,
                ProduceSpacePoints, Veto, ProduceVeto, Objects, ProduceBlobs, ProduceTracks,
                Simulating, Reading, simVars
  <2> QED BY <1>1, <1>2, <1>3, <2>1 DEF ChainTyped, IsEvent
<1>10. CASE NextEvent
  <2>1. /\ febData' = <<>> /\ fTaggers' = [t \in Taggers |-> {}]
        /\ stage' = (IF fConfig.mc THEN "fill" ELSE "timing")
    BY <1>10 DEF NextEvent, ClearTaggers, FirstStage
  <2>2. IsEvent(febData')
    BY <2>1 DEF IsEvent
  <2> QED BY <1>1, <1>2, <1>5, <2>1, <2>2 DEF ChainTyped, IsEvent, Simulating, Reading
<1> QED BY <1>6, <1>7, <1>8, <1>9, <1>10 DEF Next

-----------------------------------------------------------------------------
(* Strip hits are made in one step, of readouts and a reference that stay  *)
(* until the event's end.                                                  *)
LEMMA HitSteps ==
  ASSUME HitsTyped, Next
  PROVE  \/ stripHits' = {}
         \/ ProduceStripHits /\ UNCHANGED shiftVars
         \/ UNCHANGED <<fConfig, febData, stripHits, frameInfo>> /\ stage' \notin Early
<1>1. stage \in Early => stripHits = {}
  BY DEF HitsTyped
<1>2. CASE Simulate \/ DecideFrames \/ ReadEvent
  <2>1. stage \in Early /\ UNCHANGED stripHits
    BY <1>2 DEF Simulate, FillTaggers, NegativeTime, CreateData, LookAtStrip, EndTagger, eventVars,
                DecideFrames, ReadTiming, UnpackTiming, ShiftFrames, ReadEvent, Early, Simulating, Reading
  <2> QED BY <1>1, <2>1
<1>3. CASE StripHits
  <2>1. (ProduceStripHits /\ UNCHANGED shiftVars) \/ UnixTimestampsDiffer
    BY <1>3 DEF StripHits, ProduceStripHits
  <2>2. UnixTimestampsDiffer => stage \in Early /\ UNCHANGED stripHits
    BY DEF UnixTimestampsDiffer, Early
  <2> QED BY <1>1, <2>1, <2>2
<1>4. CASE Cluster \/ Veto \/ Objects
  BY <1>4 DEF Cluster, CreateCluster, ProduceSpacePoints, Veto, ProduceVeto, Objects, ProduceBlobs,
              ProduceTracks, Early, Simulating, Reading, shiftVars
<1>5. CASE NextEvent
  BY <1>5 DEF NextEvent
<1> QED BY <1>2, <1>3, <1>4, <1>5 DEF Next

(* The reference second is a number, the nanoseconds too.                  *)
LEMMA ReferenceTyped ==
  ASSUME ChainTyped
  PROVE  RefTimeS \in Int /\ RefTimeNs \in Int
<1>1. RefTime \in Int /\ Second \in Nat \ {0}
  BY HitAssumption DEF ChainTyped, FramesTyped, RefTime
<1>2. ASSUME UnixSet # {}
      PROVE  (CHOOSE u \in UnixSet : \A v \in UnixSet : v <= u) \in Int
  <2>1. febData \in Seq(ToSet(febData)) /\ \A i \in DOMAIN febData : febData[i].unixs \in Nat
    BY DEF ChainTyped, IsEvent
  <2>2. DOMAIN febData = 1 .. Len(febData) /\ Len(febData) \in Nat
    BY <2>1
  <2> DEFINE g == [i \in DOMAIN febData |-> febData[i].unixs]
  <2>3. UnixSet = {g[i] : i \in DOMAIN febData}
    BY DEF UnixSet, ToSetOf
  <2>4. IsFiniteSet(DOMAIN febData)
    BY <2>2, FS_Interval
  <2>5. IsFiniteSet(UnixSet)
    <3> HIDE DEF g
    <3> QED BY <2>3, <2>4, ImageOf
  <2>6. \A u \in UnixSet : u \in Int
    BY <2>1, <2>3
  <2>7. PICK f \in UnixSet, l \in UnixSet : \A u \in UnixSet : f <= u /\ u <= l
    BY <1>2, <2>5, <2>6, HasFirstAndLast
  <2>8. \E u \in UnixSet : \A v \in UnixSet : v <= u
    BY <2>7
  <2>9. (CHOOSE u \in UnixSet : \A v \in UnixSet : v <= u) \in UnixSet
    BY <2>8
  <2> QED BY <2>6, <2>9
<1>3. RefTime \div Second \in Int /\ RefTime % Second \in Int
  BY <1>1
<1> QED BY <1>2, <1>3 DEF RefTimeS, RefTimeNs

(* The strip hits of a readout.                                            *)
LEMMA HitsOfReadout ==
  ASSUME ChainTyped, NEW i \in DOMAIN febData
  PROVE  /\ IsFiniteSet(CreateStripHits(i))
         /\ \A h \in CreateStripHits(i) :
              /\ h.strip \in Strips /\ h.feb = i /\ h.ts0 \in Int /\ h.ts1 \in Int
              /\ h.ts0 = Time0(febData[i]) /\ IsDataReadout(febData[i])
<1>1. PICK f : f = febData[i]
  OBVIOUS
<1>2. f.mac5 \in FEBs /\ f.unixs \in Nat /\ f.ts \in Nat
  BY <1>1 DEF ChainTyped, IsEvent
<1>3. Raw(f) \in Int /\ Time1(f) \in Int /\ Second \in Int
  BY <1>2, HitAssumption DEF Raw, Time1
<1>4. Seconds(UnixDiff(f)) \in Int
  BY <1>3 DEF Seconds
<1>5. Time0(f) \in Int
  BY <1>3, <1>4, ReferenceTyped DEF Time0
<1> DEFINE S == {s \in StripsOf(f.mac5) : IsHit(f, s)}
           g == [s \in S |-> [strip |-> s, ts0 |-> Time0(f), ts1 |-> Time1(f), feb |-> i]]
<1>6. S \subseteq Strips /\ IsFiniteSet(S)
  <2>1. S \subseteq Strips
    BY DEF StripsOf
  <2> HIDE DEF S
  <2> QED BY <2>1, GeometryAssumption, FS_Subset
<1>7. CASE ~IsKept(f)
  <2>1. CreateStripHits(i) = {}
    BY <1>1, <1>7 DEF CreateStripHits
  <2> QED BY <2>1, FS_EmptySet
<1>8. CASE IsKept(f)
  <2>1. CreateStripHits(i) = {g[s] : s \in S}
    BY <1>1, <1>8 DEF CreateStripHits
  <2>2. \A s \in S : /\ g[s].strip = s /\ g[s].feb = i
                     /\ g[s].ts0 = Time0(f) /\ g[s].ts1 = Time1(f)
    OBVIOUS
  <2>3. IsDataReadout(f)
    BY <1>8 DEF IsKept
  <2> HIDE DEF S, g
  <2>4. IsFiniteSet({g[s] : s \in S})
    BY <1>6, ImageOf
  <2> QED BY <1>1, <1>3, <1>5, <1>6, <2>1, <2>2, <2>3, <2>4
<1> QED BY <1>7, <1>8

(* Strip hits are of readouts there are.                                   *)
LEMMA HitsKept ==
  ASSUME ChainTyped, HitsTyped, Next
  PROVE  HitsTyped'
<1>1. CASE stripHits' = {}
  BY <1>1, FS_EmptySet DEF HitsTyped
<1>2. CASE ProduceStripHits
  <2> DEFINE All == {CreateStripHits(i) : i \in DOMAIN febData}
             g == [i \in DOMAIN febData |-> CreateStripHits(i)]
  <2>1. stripHits' = UNION All /\ febData' = febData /\ stage' = "clusters"
    BY <1>2 DEF ProduceStripHits
  <2>2. IsFiniteSet(DOMAIN febData)
    <3>1. febData \in Seq(ToSet(febData))
      BY DEF ChainTyped, IsEvent
    <3>2. DOMAIN febData = 1 .. Len(febData) /\ Len(febData) \in Nat
      BY <3>1
    <3> QED BY <3>2, FS_Interval
  <2>3. IsFiniteSet(All)
    <3>1. All = {g[i] : i \in DOMAIN febData}
      OBVIOUS
    <3> HIDE DEF g, All
    <3> QED BY <2>2, <3>1, ImageOf
  <2>4. \A U \in All : IsFiniteSet(U)
    BY HitsOfReadout
  <2>5. IsFiniteSet(UNION All)
    <3> HIDE DEF All
    <3> QED BY <2>3, <2>4, FS_UNION
  <2>6. \A h \in UNION All :
          h.strip \in Strips /\ h.feb \in DOMAIN febData /\ h.ts0 \in Int /\ h.ts1 \in Int
    BY HitsOfReadout
  <2> HIDE DEF All
  <2> QED BY <2>1, <2>5, <2>6 DEF HitsTyped, Early, Simulating, Reading
<1>3. CASE UNCHANGED <<fConfig, febData, stripHits, frameInfo>> /\ stage' \notin Early
  BY <1>3 DEF HitsTyped
<1> QED BY <1>1, <1>2, <1>3, HitSteps

(* Where the seconds are accounted for when they are of use, hits have the *)
(* times that count from the reference.                                    *)
OneFrame == \A c \in Configs : c.ReferenceTs0 => c.CorrectForDifferentSecond

(* No step changes what hits are timed by.                                 *)
LEMMA TimedKept ==
  ASSUME OneFrame, ChainTyped, HitsTyped, HitsTimed, Next
  PROVE  HitsTimed'
<1>1. CASE stripHits' = {}
  BY <1>1 DEF HitsTimed
<1>2. CASE ProduceStripHits /\ UNCHANGED shiftVars
  <2>1. /\ stripHits' = UNION {CreateStripHits(i) : i \in DOMAIN febData}
        /\ UNCHANGED <<fConfig, febData, frameInfo>>
        /\ \A f \in ToSetOf(febData) : ~Throws(f)
    BY <1>2 DEF ProduceStripHits, shiftVars
  <2>2. SUFFICES ASSUME fConfig.ReferenceTs0, NEW i \in DOMAIN febData, NEW h \in CreateStripHits(i)
                 PROVE  h.ts0 = Absolute(febData[h.feb]) - Reference
    <3>1. Reference' = Reference
      BY <2>1 DEF Reference, RefTimeS, RefTimeNs, RefTime, UnixSet, ToSetOf
    <3> QED BY <2>1, <3>1 DEF HitsTimed, Absolute, Raw
  <2>3. PICK f : f = febData[i]
    OBVIOUS
  <2>4. /\ h.feb = i /\ h.ts0 = Time0(f) /\ IsDataReadout(f)
    BY <2>2, <2>3, HitsOfReadout
  <2>5. fConfig.CorrectForDifferentSecond
    BY <2>2 DEF OneFrame, ChainTyped
  <2>6. ~FarSecond(UnixDiff(f))
    BY <2>1, <2>3, <2>4, <2>5 DEF Throws, ToSetOf
  <2>7. PICK r \in Int, ns \in Int, u \in Int, w \in Int, S \in Nat :
          r = RefTimeS /\ ns = RefTimeNs /\ u = f.unixs /\ w = Raw(f) /\ S = Second
    <3>1. f.mac5 \in FEBs /\ f.unixs \in Nat /\ f.ts \in Nat
      BY <2>2, <2>3 DEF ChainTyped, IsEvent
    <3>2. Raw(f) \in Int /\ Second \in Nat
      BY <3>1, HitAssumption DEF Raw
    <3> QED BY <3>1, <3>2, ReferenceTyped
  <2>8. UnixDiff(f) = r - u /\ r - u \in {-1, 0, 1}
    BY <2>6, <2>7 DEF FarSecond, UnixDiff
  <2>9. Time0(f) = w + Seconds(r - u) - ns
    BY <2>2, <2>5, <2>7, <2>8 DEF Time0
  <2>10. Absolute(f) - Reference = (u * S + w) - (r * S + ns)
    BY <2>7 DEF Absolute, Reference
  <2>11. Seconds(r - u) = u * S - r * S
    <3>1. CASE r = u
      BY <2>7, <3>1 DEF Seconds
    <3>2. CASE r = u + 1
      <4>1. r - u = 1 /\ r * S = u * S + S
        BY <3>2
      <4> QED BY <2>7, <4>1 DEF Seconds
    <3>3. CASE u = r + 1
      <4>1. r - u = -1 /\ u * S = r * S + S
        BY <3>3
      <4> QED BY <2>7, <4>1 DEF Seconds
    <3> QED BY <2>8, <3>1, <3>2, <3>3
  <2>12. u * S \in Int /\ r * S \in Int
    OBVIOUS
  <2> QED BY <2>3, <2>4, <2>9, <2>10, <2>11, <2>12
<1>3. CASE UNCHANGED <<fConfig, febData, stripHits, frameInfo>>
  <2>1. Reference' = Reference
    BY <1>3 DEF Reference, RefTimeS, RefTimeNs, RefTime, UnixSet, ToSetOf
  <2> QED BY <1>3, <2>1 DEF HitsTimed, Absolute, Raw
<1> QED BY <1>1, <1>2, <1>3, HitSteps

-----------------------------------------------------------------------------
(* Strips that overlap are of one tagger.                                  *)
LEMMA OverlapInTagger ==
  ASSUME NEW a \in Strips, NEW b \in Strips, CheckOverlap(Near, a, b)
  PROVE  TaggerOf[ModuleOf[a]] = TaggerOf[ModuleOf[b]] /\ CheckOverlap(Near, b, a)
<1>1. CASE a = b
  BY <1>1 DEF CheckOverlap
<1>2. CASE {a, b} \in Near
  <2> DEFINE t == [s \in Strips |-> TaggerOf[ModuleOf[s]]]
             U == {TaggerOf[ModuleOf[s]] : s \in {a, b}}
  <2>1. U = {t[a], t[b]} /\ t[a] = TaggerOf[ModuleOf[a]] /\ t[b] = TaggerOf[ModuleOf[b]]
    OBVIOUS
  <2> HIDE DEF t
  <2>2. Cardinality(U) = 1
    BY <1>2, GeometryAssumption
  <2>3. IsFiniteSet({t[a], t[b]})
    <3>1. {t[a], t[b]} = {t[a]} \cup {t[b]}
      OBVIOUS
    <3>2. IsFiniteSet({t[a]})
      BY FS_Singleton
    <3> QED BY <3>1, <3>2, FS_AddElement
  <2> HIDE DEF U
  <2>4. \E x : U = {x}
    BY <2>1, <2>2, <2>3, FS_Singleton
  <2>5. {a, b} = {b, a}
    OBVIOUS
  <2> QED BY <1>2, <2>1, <2>4, <2>5 DEF CheckOverlap
<1> QED BY <1>1, <1>2 DEF CheckOverlap

(* A group has an earliest hit, from which its window is counted.          *)
LEMMA EarliestIs ==
  ASSUME HitsTyped, NEW H, H \subseteq stripHits, H # {}
  PROVE  Earliest(H) \in H /\ \A g \in H : ClusterTime(Earliest(H)) <= ClusterTime(g)
<1> DEFINE time == [h \in H |-> ClusterTime(h)]
           W == {time[h] : h \in H}
<1>1. \A h \in H : time[h] \in Int /\ time[h] = ClusterTime(h)
  BY DEF HitsTyped, ClusterTime
<1>2. IsFiniteSet(H)
  BY FS_Subset DEF HitsTyped
<1> HIDE DEF time
<1>3. IsFiniteSet(W)
  BY <1>2, ImageOf
<1>4. W # {} /\ \A w \in W : w \in Int
  BY <1>1
<1> HIDE DEF W
<1>5. PICK w \in W, l \in W : \A x \in W : w <= x /\ x <= l
  BY <1>3, <1>4, HasFirstAndLast
<1>6. \E h \in H : \A g \in H : ClusterTime(h) <= ClusterTime(g)
  BY <1>1, <1>5 DEF W
<1> QED BY <1>6 DEF Earliest

(* Of a group, hits that overlap go to one cluster.                        *)
LEMMA SplitTogether ==
  ASSUME NEW H, NEW g \in H, NEW h \in H, g.strip \in Strips, h.strip \in Strips,
         CheckOverlap(Near, g.strip, h.strip)
  PROVE  \E c \in SplitCluster(H) : {g, h} \subseteq c
<1> DEFINE leftovers == {x \in H : ~Exclusive(H, x)}
<1>1. SplitCluster(H) = {Overlaps(H, x) : x \in H \ leftovers} \cup ({leftovers} \ {{}})
  BY DEF SplitCluster
<1>2. /\ g \in Overlaps(H, g) /\ h \in Overlaps(H, g)
      /\ g \in Overlaps(H, h) /\ h \in Overlaps(H, h)
  <2>1. CheckOverlap(Near, h.strip, g.strip)
    BY OverlapInTagger
  <2> QED BY <2>1 DEF Overlaps, CheckOverlap
<1> HIDE DEF leftovers
<1>3. CASE g \in H \ leftovers
  BY <1>1, <1>2, <1>3
<1>4. CASE h \in H \ leftovers
  BY <1>1, <1>2, <1>4
<1>5. CASE g \in leftovers /\ h \in leftovers
  BY <1>1, <1>5
<1> QED BY <1>3, <1>4, <1>5

(* One more group is made to clusters: hits that could be together are, or *)
(* the window that the group's earliest hit opened ends between them.      *)
LEMMA GroupClustered ==
  ASSUME HitsTyped, ClusterInv, CreateCluster
  PROVE  ClusterInv'
<1> DEFINE H == TaggerHits
           e == Earliest(H)
           group == TimeGroup(H)
<1>1. /\ stage = "clusters" /\ unused # {} /\ UNCHANGED <<stage, fConfig, stripHits>>
      /\ unused' = unused \ group /\ clusters' = clusters \cup SplitCluster(group)
  BY DEF CreateCluster
<1>2. /\ unused \subseteq stripHits
      /\ \A g, h \in stripHits :
           Close(g, h) /\ ~(g \in unused /\ h \in unused) => Together(g, h) \/ Parted(g, h)
  BY <1>1 DEF ClusterInv
<1>3. H = {h \in unused : \A g \in unused : TaggerOfHit(h) <= TaggerOfHit(g)}
  BY DEF TaggerHits
<1>4. H # {} /\ H \subseteq stripHits
  <2> DEFINE place == [h \in unused |-> TaggerOfHit(h)]
             W == {place[h] : h \in unused}
  <2>1. \A h \in unused : place[h] \in Int /\ place[h] = TaggerOfHit(h)
    <3>1. \A h \in unused : h.strip \in Strips
      BY <1>2 DEF HitsTyped
    <3>2. \A h \in unused : TaggerOfHit(h) \in Nat
      BY <3>1, Geometry DEF TaggerOfHit, TaggerOfStrip
    <3> QED BY <3>2
  <2>2. IsFiniteSet(unused)
    BY <1>2, FS_Subset DEF HitsTyped
  <2> HIDE DEF place
  <2>3. IsFiniteSet(W)
    BY <2>2, ImageOf
  <2>4. W # {} /\ \A w \in W : w \in Int
    BY <1>1, <2>1
  <2> HIDE DEF W
  <2>5. PICK w \in W, l \in W : \A x \in W : w <= x /\ x <= l
    BY <2>3, <2>4, HasFirstAndLast
  <2>6. \E h \in unused : \A g \in unused : TaggerOfHit(h) <= TaggerOfHit(g)
    BY <2>1, <2>5 DEF W
  <2> QED BY <1>2, <1>3, <2>6
<1>5. e \in H /\ \A g \in H : ClusterTime(e) <= ClusterTime(g)
  <2> HIDE DEF H
  <2> QED BY <1>4, EarliestIs
<1>6. group = {h \in H : ClusterTime(h) - ClusterTime(e) < CoincidenceTimeRequirement}
  BY DEF TimeGroup
<1> HIDE DEF H, e, group
<1>7. ASSUME NEW g \in stripHits, NEW h \in stripHits, Close(g, h),
             ~(g \in unused' /\ h \in unused')
      PROVE  (\E c \in clusters' : {g, h} \subseteq c) \/ Parted(g, h)
  <2>1. /\ g.strip \in Strips /\ h.strip \in Strips /\ CheckOverlap(Near, g.strip, h.strip)
        /\ ClusterTime(g) \in Int /\ ClusterTime(h) \in Int /\ ClusterTime(g) <= ClusterTime(h)
        /\ ClusterTime(h) - ClusterTime(g) < CoincidenceTimeRequirement
        /\ CoincidenceTimeRequirement \in Nat
    BY <1>7, ClusterAssumption DEF HitsTyped, Close, ClusterTime
  <2>2. CASE ~(g \in unused /\ h \in unused)
    BY <1>1, <1>2, <1>7, <2>2 DEF Together
  <2>3. CASE g \in unused /\ h \in unused
    <3>1. TaggerOfHit(g) = TaggerOfHit(h)
      BY <2>1, OverlapInTagger DEF TaggerOfHit, TaggerOfStrip
    <3>2. g \in H <=> h \in H
      BY <1>3, <2>3, <3>1
    <3>3. g \in H /\ h \in H /\ (g \in group \/ h \in group)
      BY <1>1, <1>6, <1>7, <2>3, <3>2
    <3>4. ClusterTime(e) \in Int /\ ClusterTime(e) <= ClusterTime(g) /\ e \in stripHits
      BY <1>4, <1>5, <3>3 DEF HitsTyped, ClusterTime
    <3>5. g \in group
      BY <1>6, <2>1, <3>3, <3>4
    <3>6. CASE h \in group
      <4>1. \E c \in SplitCluster(group) : {g, h} \subseteq c
        BY <2>1, <3>5, <3>6, SplitTogether
      <4> QED BY <1>1, <4>1
    <3>7. CASE h \notin group
      <4>1. ~(ClusterTime(h) - ClusterTime(e) < CoincidenceTimeRequirement)
        BY <1>6, <3>3, <3>7
      <4>2. /\ ClusterTime(e) < ClusterTime(g)
            /\ ClusterTime(g) < ClusterTime(e) + CoincidenceTimeRequirement
            /\ ClusterTime(e) + CoincidenceTimeRequirement <= ClusterTime(h)
        BY <1>6, <2>1, <3>4, <3>5, <4>1
      <4>3. TaggerOfHit(e) = TaggerOfHit(g)
        <5>1. e \in unused /\ TaggerOfHit(e) <= TaggerOfHit(g) /\ TaggerOfHit(g) <= TaggerOfHit(e)
          BY <1>3, <1>5, <2>3, <3>3
        <5>2. e.strip \in Strips
          BY <3>4 DEF HitsTyped
        <5>3. TaggerOfHit(e) \in Nat /\ TaggerOfHit(g) \in Nat
          BY <2>1, <5>2, Geometry DEF TaggerOfHit, TaggerOfStrip
        <5> QED BY <5>1, <5>3
      <4> QED BY <3>4, <4>2, <4>3 DEF Parted
    <3> QED BY <3>6, <3>7
  <2> QED BY <2>2, <2>3
<1>8. ASSUME NEW g, NEW h PROVE Close(g, h)' = Close(g, h) /\ Parted(g, h)' = Parted(g, h)
  BY <1>1 DEF Close, Parted, ClusterTime
<1> QED BY <1>1, <1>2, <1>7, <1>8 DEF ClusterInv, Late, Together

(* In every step, hits that are close stay in one cluster.                *)
LEMMA ClustersKept ==
  ASSUME HitsTyped, ClusterInv, Next
  PROVE  ClusterInv'
<1>1. /\ unused \subseteq stripHits /\ (stage \in Late => unused = {})
      /\ stage \in Late \cup {"clusters"} =>
           \A g, h \in stripHits :
             Close(g, h) /\ ~(g \in unused /\ h \in unused) => Together(g, h) \/ Parted(g, h)
  BY DEF ClusterInv
<1>2. CASE /\ UNCHANGED <<fConfig, stripHits, clusters, unused>>
           /\ stage' \in Late => unused = {}
           /\ stage' \in Late \cup {"clusters"} => stage \in Late \cup {"clusters"}
  BY <1>1, <1>2 DEF ClusterInv, Close, Together, Parted, ClusterTime
<1>3. CASE Simulate \/ DecideFrames \/ ReadEvent
  <2>1. UNCHANGED <<fConfig, stripHits, clusters, unused>> /\ stage' \notin Late \cup {"clusters"}
    BY <1>3 DEF Simulate, FillTaggers, NegativeTime, CreateData, LookAtStrip, EndTagger, StartTagger,
                eventVars, DecideFrames, ReadTiming, UnpackTiming, ShiftFrames, ReadEvent, recoVars, Late
  <2> QED BY <1>2, <2>1
<1>4. CASE StripHits
  <2>1. unused' = stripHits' /\ stage' \notin Late
    BY <1>4 DEF StripHits, ProduceStripHits, UnixTimestampsDiffer, Late
  <2> QED BY <2>1 DEF ClusterInv
<1>5. CASE CreateCluster
  BY <1>5, GroupClustered
<1>6. CASE ProduceSpacePoints
  BY <1>2, <1>6 DEF ProduceSpacePoints, Late
<1>7. CASE Veto \/ Objects
  <2>1. UNCHANGED <<fConfig, stripHits, clusters, unused>> /\ stage \in Late
    BY <1>7 DEF Veto, ProduceVeto, Objects, ProduceBlobs, ProduceTracks, Late
  <2> QED BY <1>1, <1>2, <2>1
<1>8. CASE NextEvent
  <2>1. unused' = {} /\ stage' \notin Late \cup {"clusters"}
    BY <1>8 DEF NextEvent, FirstStage, Late
  <2> QED BY <2>1 DEF ClusterInv
<1> QED BY <1>3, <1>4, <1>5, <1>6, <1>7, <1>8 DEF Next, Cluster

-----------------------------------------------------------------------------
(* The chain starts with nothing in it.                                    *)
LEMMA CRTStarts ==
  ASSUME Init
  PROVE  ChainTyped /\ SimInv /\ HitsTyped /\ HitsTimed /\ ClusterInv
<1>1. /\ fConfig \in Configs /\ stage = (IF fConfig.mc THEN "fill" ELSE "timing")
      /\ febData = <<>> /\ stripHits = {} /\ fTaggers = [t \in Taggers |-> {}]
      /\ timing = NoTiming /\ tdc = [ch \in TdcChannels |-> <<>>] /\ hlts = <<>>
      /\ frameInfo = NoFrame /\ unused = {}
  BY DEF Init, FirstStage
<1>2. IsTiming(timing)
  BY <1>1 DEF NoTiming, IsTiming, Unset
<1>3. frameInfo.default.time \in Int
  BY <1>1 DEF NoFrame, Invalid, Unset
<1>4. tdc \in [TdcChannels -> Seq(Int)] /\ hlts \in Seq([code : Int, time : Int])
  BY <1>1
<1>5. IsEvent(febData) /\ Made(febData)
  BY <1>1, NothingMade DEF IsEvent
<1>6. ChainTyped
  BY <1>1, <1>2, <1>3, <1>4, <1>5 DEF ChainTyped, FramesTyped, Simulating, Reading
<1>7. SimInv
  BY <1>1, <1>5 DEF SimInv
<1>8. HitsTyped /\ HitsTimed
  BY <1>1, FS_EmptySet DEF HitsTyped, HitsTimed
<1>9. ClusterInv
  BY <1>1 DEF ClusterInv, Late
<1> QED BY <1>6, <1>7, <1>8, <1>9

(* Where nothing happens nothing is lost.                                  *)
LEMMA CRTStutters ==
  ASSUME UNCHANGED vars
  PROVE  /\ ChainTyped => ChainTyped'
         /\ SimInv => SimInv'
         /\ HitsTyped => HitsTyped'
         /\ HitsTimed => HitsTimed'
         /\ ClusterInv => ClusterInv'
<1>1. UNCHANGED <<stage, fConfig, febData, stripHits, clusters, fTaggers, tagger, todo, trigger_ts1,
                  first_trigger, trigger, timing, tdc, hlts, frameInfo, unused>>
  BY DEF vars, eventVars, simVars, shiftVars, recoVars
<1>2. ChainTyped => ChainTyped'
  BY <1>1 DEF ChainTyped, FramesTyped, IsTiming, IsEvent
<1>3. SimInv => SimInv'
  BY <1>1, MadeStays DEF SimInv, TriggerInv, Ready, OfTagger, EndedBy, InWindow
<1>4. HitsTyped => HitsTyped'
  BY <1>1 DEF HitsTyped
<1>5. HitsTimed => HitsTimed'
  <2>1. Reference' = Reference
    BY <1>1 DEF Reference, RefTimeS, RefTimeNs, RefTime, UnixSet, ToSetOf
  <2> QED BY <1>1, <2>1 DEF HitsTimed, Absolute, Raw
<1>6. ClusterInv => ClusterInv'
  BY <1>1 DEF ClusterInv, Close, Together, Parted, ClusterTime
<1> QED BY <1>2, <1>3, <1>4, <1>5, <1>6

(* The invariant of the chain, as far as it does not depend on how the     *)
(* producer of the strip hits is configured.                               *)
LEMMA CRTIsKept == Spec => [](ChainTyped /\ SimInv /\ HitsTyped /\ ClusterInv)
<1>1. Init => ChainTyped /\ SimInv /\ HitsTyped /\ ClusterInv
  BY CRTStarts
<1>2. ChainTyped /\ SimInv /\ HitsTyped /\ ClusterInv /\ [Next]_vars
        => (ChainTyped /\ SimInv /\ HitsTyped /\ ClusterInv)'
  BY SimKept, ChainKept, HitsKept, ClustersKept, CRTStutters
<1> QED BY <1>1, <1>2, PTL DEF Spec

(* Whatever triggers follow one another, a deposit is read out once at     *)
(* most, with the FEB of its strip, and none is left of an earlier event:  *)
(* CreateData and ProcessStrips, for every geometry and all thresholds.    *)
THEOREM ReadoutsAreOnce == Spec => []ReadOutOnce
<1>1. ChainTyped /\ SimInv => ReadOutOnce
  <2> SUFFICES ASSUME ChainTyped, SimInv, fConfig.mc
               PROVE  /\ \A i \in Indices : \A s \in ToSet(febData[i].ides) :
                           s.mac5 = febData[i].mac5 /\ s \in Filled
                      /\ \A i, j \in Indices :
                           i # j => ToSet(febData[i].ides) \cap ToSet(febData[j].ides) = {}
                      /\ \A i \in Indices : IsInjective(febData[i].ides)
    BY DEF ReadOutOnce
  <2>1. Made(febData)
    BY DEF SimInv
  <2>2. ASSUME NEW i \in Indices, NEW s \in ToSet(febData[i].ides)
        PROVE  s.mac5 = febData[i].mac5 /\ s \in Filled
    <3>1. PICK f : f = febData[i] /\ FromStrips(f)
      BY <2>1 DEF Made, Indices
    <3>2. PICK t \in Taggers : t = TaggerOf[f.mac5]
      BY <3>1, Geometry DEF FromStrips
    <3>3. s \in fTaggers[t]
      BY <2>2, <3>1, <3>2 DEF FromStrips, ToSet
    <3> QED BY <2>2, <3>1, <3>2, <3>3 DEF FromStrips, Filled
  <2> QED BY <2>1, <2>2 DEF Made, FromStrips, Indices
<1> QED BY <1>1, CRTIsKept, PTL

(* Two readouts of a board closer than its dead time, less a coincidence   *)
(* window, have between them a coincidence on another board: how far the   *)
(* dead time of CreateData holds, for every value of the two.              *)
THEOREM DeadTimeHolds == Spec => []DeadTimeEndedByOthers
<1>1. SimInv => DeadTimeEndedByOthers
  BY DEF SimInv, Made, Rested, EndedBy, TriggerSpan, DeadTimeEndedByOthers, Indices
<1> QED BY <1>1, CRTIsKept, PTL

(* In data a strip hit's time is its readout's distance from the reference *)
(* time, on whichever side of a second's end the two lie, if hits that are *)
(* referenced are corrected for different seconds.                         *)
THEOREM TimesAreRelative ==
  ASSUME OneFrame
  PROVE  Spec => []TimeIsRelative
<1>1. Init => HitsTimed
  BY CRTStarts
<1>2. ChainTyped /\ HitsTyped /\ HitsTimed /\ [Next]_vars => HitsTimed'
  BY OneFrame, TimedKept, CRTStutters
<1>3. HitsTimed => TimeIsRelative
  BY DEF HitsTimed, TimeIsRelative
<1> QED BY <1>1, <1>2, <1>3, CRTIsKept, PTL DEF Spec

(* Hits on overlapping strips that are close in time are in one cluster,   *)
(* unless an earlier hit of the tagger opened a window that holds the      *)
(* first and ends before the second: GroupStripHits, CreateClusters and    *)
(* SplitClusters, for every geometry and however many hits.                *)
THEOREM OverlapsAreTogether == Spec => []OverlappingTogether
<1>1. ClusterInv => OverlappingTogether
  <2> SUFFICES ASSUME ClusterInv, stage = "done", NEW g \in stripHits, NEW h \in stripHits, Close(g, h)
               PROVE  Together(g, h) \/ Parted(g, h)
    BY DEF OverlappingTogether, Close, Together, Parted
  <2>1. unused = {}
    BY DEF ClusterInv, Late
  <2> QED BY <2>1 DEF ClusterInv, Late
<1> QED BY <1>1, CRTIsKept, PTL

-----------------------------------------------------------------------------
(* The two sorts insert the candidates in turn: those of blobs             *)
LEMMA BlobsInserted ==
  ASSUME NEW V, NEW seq \in Seq(V)
  PROVE  \E d : /\ InsertsAll(d, seq, {x \in V \X V : SmallerError(x[1], x[2])})
                /\ InsertionSort(seq, SmallerError) = d[Len(seq)]
<1> DEFINE n == Len(seq)
           B == {x \in V \X V : SmallerError(x[1], x[2])}
           S == Seq(V)
           Put(d, v) == InsertAt(d, PlaceOf(d, v, B), v)
           step == [iv \in (1 .. n) \X S |-> Put(iv[2], seq[iv[1]])]
           Iterates(g) == g = [s \in SUBSET (DOMAIN seq) |->
                                 IF s = {} THEN <<>>
                                 ELSE Insert(g[s \ {Max(s)}], seq[Max(s)], SmallerError)]
           g == CHOOSE g : Iterates(g)
<1>1. n \in Nat /\ DOMAIN seq = 1 .. n /\ <<>> \in S
  OBVIOUS
<1>2. ASSUME NEW m \in 1 .. n, NEW d \in S
      PROVE  Insert(d, seq[m], SmallerError) = Put(d, seq[m]) /\ Put(d, seq[m]) \in S
  <2> DEFINE v == seq[m]
             q == PlaceOf(d, v, B)
  <2>1. v \in V /\ DOMAIN d = 1 .. Len(d) /\ Len(d) \in Nat /\ \A k \in DOMAIN d : d[k] \in V
    BY <1>1, <1>2
  <2> HIDE DEF v
  <2>2. {k \in DOMAIN d : ~SmallerError(v, d[k])} = {k \in DOMAIN d : <<v, d[k]>> \notin B}
    BY <2>1
  <2> HIDE DEF B
  <2>3. Insert(d, v, SmallerError) = InsertAt(d, q, v)
    BY <2>2 DEF Insert, PlaceOf
  <2>4. q \in 1 .. Len(d) + 1
    <3> HIDE DEF q
    <3> QED BY <2>1, PlaceIs DEF q
  <2>5. InsertAt(d, q, v) \in S
    <3> HIDE DEF q
    <3> QED BY <2>1, <2>4, Inserted
  <2> QED BY <2>3, <2>5 DEF v
<1>3. step \in [(1 .. n) \X S -> S]
  <2> HIDE DEF S, Put
  <2> QED BY <1>2
<1>4. PICK h \in [SUBSET (1 .. n) -> S] : TakesLast(h, n, <<>>, step)
  <2> HIDE DEF step, n, S
  <2> QED BY <1>1, <1>3, IterationExists
<1>5. Iterates(h)
  <2>1. ASSUME NEW s \in SUBSET (1 .. n), s # {}
        PROVE  step[<<Max(s), h[s \ {Max(s)}]>>] = Insert(h[s \ {Max(s)}], seq[Max(s)], SmallerError)
    <3>1. Max(s) \in 1 .. n
      BY <1>1, <2>1, GreatestIndex
    <3>2. h[s \ {Max(s)}] \in S
      BY <1>4
    <3> HIDE DEF S, Put
    <3> QED BY <1>2, <3>1, <3>2
  <2>2. h = [s \in SUBSET (1 .. n) |-> IF s = {} THEN <<>> ELSE step[<<Max(s), h[s \ {Max(s)}]>>]]
    BY <1>4 DEF TakesLast
  <2> HIDE DEF step, n
  <2> QED BY <1>1, <2>1, <2>2
<1>6. Iterates(g)
  <2> HIDE DEF Iterates
  <2> QED BY <1>5
<1>7. InsertionSort(seq, SmallerError) = g[1 .. n]
  <2>1. InsertionSort(seq, SmallerError) = g[DOMAIN seq]
    BY DEF InsertionSort, FoldLeft, MapThenFoldSet
  <2> QED BY <1>1, <2>1
<1> HIDE DEF g
<1>8. g[{}] = <<>> /\ \A s \in SUBSET (1 .. n) :
        s # {} => g[s] = Insert(g[s \ {Max(s)}], seq[Max(s)], SmallerError)
  BY <1>1, <1>6
<1> DEFINE d == [m \in 0 .. n |-> g[1 .. m]]
<1>9. ASSUME NEW m \in 1 .. n, d[m - 1] \in S PROVE d[m] = Put(d[m - 1], seq[m])
  <2>1. 1 .. m \in SUBSET (1 .. n) /\ 1 .. m # {} /\ Max(1 .. m) = m /\ (1 .. m) \ {m} = 1 .. m - 1
    BY <1>1, GreatestIndex
  <2>2. d[m] = g[1 .. m] /\ d[m - 1] = g[1 .. m - 1]
    BY <1>1
  <2>3. PICK s : s = 1 .. m
    OBVIOUS
  <2> HIDE DEF d, S, Put
  <2>4. g[s] = Insert(g[s \ {Max(s)}], seq[Max(s)], SmallerError)
    BY <1>8, <2>1, <2>3
  <2>5. g[s] = Insert(d[m - 1], seq[m], SmallerError)
    BY <2>1, <2>2, <2>3, <2>4
  <2> QED BY <1>2, <1>9, <2>2, <2>3, <2>5
<1>10. d[0] = <<>>
  BY <1>1, <1>8
<1> HIDE DEF d
<1>11. \A m \in 0 .. n : d[m] \in S
  <2> DEFINE T == {m \in 0 .. n : d[m] \notin S}
  <2> SUFFICES ASSUME T # {} PROVE FALSE
    OBVIOUS
  <2>1. PICK m \in T : \A k \in 0 .. n : k < m => k \notin T
    <3>1. T \subseteq 0 .. n
      OBVIOUS
    <3> HIDE DEF T
    <3> QED BY <1>1, <3>1, LeastOf
  <2> HIDE DEF S, Put
  <2>2. m # 0
    BY <1>1, <1>10
  <2>3. m \in 1 .. n /\ m - 1 \in 0 .. n /\ m - 1 < m
    BY <1>1, <2>2
  <2>4. d[m - 1] \in S
    BY <2>1, <2>3
  <2>5. d[m] \in S
    BY <1>2, <1>9, <2>3, <2>4
  <2> QED BY <2>5
<1>12. \A m \in 1 .. n : d[m] = Put(d[m - 1], seq[m])
  <2> HIDE DEF S, Put
  <2> QED BY <1>1, <1>9, <1>11
<1>13. d[n] = g[1 .. n]
  BY <1>1 DEF d
<1>14. InsertsAll(d, seq, B)
  BY <1>10, <1>12 DEF InsertsAll
<1> HIDE DEF d, n, S, Put, step, Iterates
<1>15. d[Len(seq)] = InsertionSort(seq, SmallerError)
  BY <1>7, <1>13 DEF n
<1> QED BY <1>14, <1>15

(* and of tracks.                                                          *)
LEMMA TracksInserted ==
  ASSUME NEW V, NEW seq \in Seq(V)
  PROVE  \E d : /\ InsertsAll(d, seq, {x \in V \X V : ComesFirst(x[1], x[2])})
                /\ InsertionSort(seq, ComesFirst) = d[Len(seq)]
<1> DEFINE n == Len(seq)
           B == {x \in V \X V : ComesFirst(x[1], x[2])}
           S == Seq(V)
           Put(d, v) == InsertAt(d, PlaceOf(d, v, B), v)
           step == [iv \in (1 .. n) \X S |-> Put(iv[2], seq[iv[1]])]
           Iterates(g) == g = [s \in SUBSET (DOMAIN seq) |->
                                 IF s = {} THEN <<>>
                                 ELSE Insert(g[s \ {Max(s)}], seq[Max(s)], ComesFirst)]
           g == CHOOSE g : Iterates(g)
<1>1. n \in Nat /\ DOMAIN seq = 1 .. n /\ <<>> \in S
  OBVIOUS
<1>2. ASSUME NEW m \in 1 .. n, NEW d \in S
      PROVE  Insert(d, seq[m], ComesFirst) = Put(d, seq[m]) /\ Put(d, seq[m]) \in S
  <2> DEFINE v == seq[m]
             q == PlaceOf(d, v, B)
  <2>1. v \in V /\ DOMAIN d = 1 .. Len(d) /\ Len(d) \in Nat /\ \A k \in DOMAIN d : d[k] \in V
    BY <1>1, <1>2
  <2> HIDE DEF v
  <2>2. {k \in DOMAIN d : ~ComesFirst(v, d[k])} = {k \in DOMAIN d : <<v, d[k]>> \notin B}
    BY <2>1
  <2> HIDE DEF B
  <2>3. Insert(d, v, ComesFirst) = InsertAt(d, q, v)
    BY <2>2 DEF Insert, PlaceOf
  <2>4. q \in 1 .. Len(d) + 1
    <3> HIDE DEF q
    <3> QED BY <2>1, PlaceIs DEF q
  <2>5. InsertAt(d, q, v) \in S
    <3> HIDE DEF q
    <3> QED BY <2>1, <2>4, Inserted
  <2> QED BY <2>3, <2>5 DEF v
<1>3. step \in [(1 .. n) \X S -> S]
  <2> HIDE DEF S, Put
  <2> QED BY <1>2
<1>4. PICK h \in [SUBSET (1 .. n) -> S] : TakesLast(h, n, <<>>, step)
  <2> HIDE DEF step, n, S
  <2> QED BY <1>1, <1>3, IterationExists
<1>5. Iterates(h)
  <2>1. ASSUME NEW s \in SUBSET (1 .. n), s # {}
        PROVE  step[<<Max(s), h[s \ {Max(s)}]>>] = Insert(h[s \ {Max(s)}], seq[Max(s)], ComesFirst)
    <3>1. Max(s) \in 1 .. n
      BY <1>1, <2>1, GreatestIndex
    <3>2. h[s \ {Max(s)}] \in S
      BY <1>4
    <3> HIDE DEF S, Put
    <3> QED BY <1>2, <3>1, <3>2
  <2>2. h = [s \in SUBSET (1 .. n) |-> IF s = {} THEN <<>> ELSE step[<<Max(s), h[s \ {Max(s)}]>>]]
    BY <1>4 DEF TakesLast
  <2> HIDE DEF step, n
  <2> QED BY <1>1, <2>1, <2>2
<1>6. Iterates(g)
  <2> HIDE DEF Iterates
  <2> QED BY <1>5
<1>7. InsertionSort(seq, ComesFirst) = g[1 .. n]
  <2>1. InsertionSort(seq, ComesFirst) = g[DOMAIN seq]
    BY DEF InsertionSort, FoldLeft, MapThenFoldSet
  <2> QED BY <1>1, <2>1
<1> HIDE DEF g
<1>8. g[{}] = <<>> /\ \A s \in SUBSET (1 .. n) :
        s # {} => g[s] = Insert(g[s \ {Max(s)}], seq[Max(s)], ComesFirst)
  BY <1>1, <1>6
<1> DEFINE d == [m \in 0 .. n |-> g[1 .. m]]
<1>9. ASSUME NEW m \in 1 .. n, d[m - 1] \in S PROVE d[m] = Put(d[m - 1], seq[m])
  <2>1. 1 .. m \in SUBSET (1 .. n) /\ 1 .. m # {} /\ Max(1 .. m) = m /\ (1 .. m) \ {m} = 1 .. m - 1
    BY <1>1, GreatestIndex
  <2>2. d[m] = g[1 .. m] /\ d[m - 1] = g[1 .. m - 1]
    BY <1>1
  <2>3. PICK s : s = 1 .. m
    OBVIOUS
  <2> HIDE DEF d, S, Put
  <2>4. g[s] = Insert(g[s \ {Max(s)}], seq[Max(s)], ComesFirst)
    BY <1>8, <2>1, <2>3
  <2>5. g[s] = Insert(d[m - 1], seq[m], ComesFirst)
    BY <2>1, <2>2, <2>3, <2>4
  <2> QED BY <1>2, <1>9, <2>2, <2>3, <2>5
<1>10. d[0] = <<>>
  BY <1>1, <1>8
<1> HIDE DEF d
<1>11. \A m \in 0 .. n : d[m] \in S
  <2> DEFINE T == {m \in 0 .. n : d[m] \notin S}
  <2> SUFFICES ASSUME T # {} PROVE FALSE
    OBVIOUS
  <2>1. PICK m \in T : \A k \in 0 .. n : k < m => k \notin T
    <3>1. T \subseteq 0 .. n
      OBVIOUS
    <3> HIDE DEF T
    <3> QED BY <1>1, <3>1, LeastOf
  <2> HIDE DEF S, Put
  <2>2. m # 0
    BY <1>1, <1>10
  <2>3. m \in 1 .. n /\ m - 1 \in 0 .. n /\ m - 1 < m
    BY <1>1, <2>2
  <2>4. d[m - 1] \in S
    BY <2>1, <2>3
  <2>5. d[m] \in S
    BY <1>2, <1>9, <2>3, <2>4
  <2> QED BY <2>5
<1>12. \A m \in 1 .. n : d[m] = Put(d[m - 1], seq[m])
  <2> HIDE DEF S, Put
  <2> QED BY <1>1, <1>9, <1>11
<1>13. d[n] = g[1 .. n]
  BY <1>1 DEF d
<1>14. InsertsAll(d, seq, B)
  BY <1>10, <1>12 DEF InsertsAll
<1> HIDE DEF d, n, S, Put, step, Iterates
<1>15. d[Len(seq)] = InsertionSort(seq, ComesFirst)
  BY <1>7, <1>13 DEF n
<1> QED BY <1>14, <1>15

-----------------------------------------------------------------------------
(* The first m candidates have been chosen, or share something with one    *)
(* chosen before.                                                          *)
Chosen(o, seq, m) ==
  /\ \A i \in 1 .. Len(o) : \E k \in 1 .. m : o[i] = seq[k]
  /\ Disjoint(o)
  /\ \A k \in 1 .. m : \/ seq[k] \in ToSet(o)
                       \/ \E j \in 1 .. m : j < k /\ seq[j] \in ToSet(o) /\ seq[j] \cap seq[k] # {}

NextChosen(chosen, c) ==
  IF \E d \in ToSet(chosen) : d \cap c # {} THEN chosen ELSE Append(chosen, c)

(* The next candidate.                                                     *)
LEMMA OneChosen ==
  ASSUME NEW V, NEW seq \in Seq(V), NEW m \in Nat, m + 1 <= Len(seq), NEW o \in Seq(V), Chosen(o, seq, m)
  PROVE  NextChosen(o, seq[m + 1]) \in Seq(V) /\ Chosen(NextChosen(o, seq[m + 1]), seq, m + 1)
<1> DEFINE c == seq[m + 1]
           t == Append(o, c)
<1>1. /\ \A i \in 1 .. Len(o) : \E k \in 1 .. m : o[i] = seq[k]
      /\ \A i, j \in DOMAIN o : i # j => o[i] \cap o[j] = {}
      /\ \A k \in 1 .. m : \/ seq[k] \in ToSet(o)
                           \/ \E j \in 1 .. m : j < k /\ seq[j] \in ToSet(o) /\ seq[j] \cap seq[k] # {}
  BY DEF Chosen, Disjoint
<1>2. c \in V /\ DOMAIN o = 1 .. Len(o) /\ Len(o) \in Nat
  OBVIOUS
<1>3. \A k \in 1 .. m : k \in 1 .. m + 1
  OBVIOUS
<1>4. \A k \in 1 .. m + 1 : k \in 1 .. m \/ k = m + 1
  OBVIOUS
<1>5. m + 1 \in 1 .. m + 1 /\ \A j \in 1 .. m : j < m + 1
  OBVIOUS
<1> HIDE DEF c
<1>6. CASE \E d \in ToSet(o) : d \cap c # {}
  <2>1. NextChosen(o, c) = o
    BY <1>6 DEF NextChosen
  <2>2. PICK i \in 1 .. Len(o) : o[i] \cap c # {}
    BY <1>2, <1>6 DEF ToSet
  <2>3. PICK j \in 1 .. m : o[i] = seq[j]
    BY <1>1, <2>2
  <2>4. seq[j] \in ToSet(o) /\ seq[j] \cap c # {} /\ j < m + 1 /\ j \in 1 .. m + 1
    BY <1>2, <1>3, <1>5, <2>2, <2>3 DEF ToSet
  <2>5. \A l \in 1 .. Len(o) : \E k \in 1 .. m + 1 : o[l] = seq[k]
    BY <1>1, <1>3
  <2>6. \A k \in 1 .. m + 1 :
          \/ seq[k] \in ToSet(o)
          \/ \E l \in 1 .. m + 1 : l < k /\ seq[l] \in ToSet(o) /\ seq[l] \cap seq[k] # {}
    BY <1>1, <1>3, <1>4, <2>4 DEF c
  <2>7. Chosen(o, seq, m + 1)
    BY <1>1, <2>5, <2>6 DEF Chosen, Disjoint
  <2> QED BY <2>1, <2>7 DEF c
<1>7. CASE \A d \in ToSet(o) : d \cap c = {}
  <2>1. NextChosen(o, c) = t
    BY <1>7 DEF NextChosen
  <2>2. /\ t \in Seq(V) /\ Len(t) = Len(o) + 1 /\ DOMAIN t = 1 .. Len(o) + 1
        /\ \A k \in 1 .. Len(o) : t[k] = o[k]
    BY <1>2
  <2>3. t[Len(o) + 1] = c
    BY <1>2
  <2> HIDE DEF t
  <2>4. \A k \in 1 .. Len(o) + 1 : k \in 1 .. Len(o) \/ k = Len(o) + 1
    BY <1>2
  <2>5. \A l \in 1 .. Len(t) : \E k \in 1 .. m + 1 : t[l] = seq[k]
    <3> SUFFICES ASSUME NEW l \in 1 .. Len(t) PROVE \E k \in 1 .. m + 1 : t[l] = seq[k]
      OBVIOUS
    <3>1. CASE l \in 1 .. Len(o)
      BY <1>1, <1>3, <2>2, <3>1
    <3>2. CASE l = Len(o) + 1
      BY <1>5, <2>3, <3>2 DEF c
    <3> QED BY <2>2, <2>4, <3>1, <3>2
  <2>6. \A k \in 1 .. Len(o) : o[k] \cap c = {} /\ c \cap o[k] = {}
    BY <1>2, <1>7 DEF ToSet
  <2>7. ASSUME NEW j \in DOMAIN t, NEW k \in DOMAIN t, j # k PROVE t[j] \cap t[k] = {}
    <3>1. CASE j \in 1 .. Len(o) /\ k \in 1 .. Len(o)
      BY <1>1, <1>2, <2>2, <2>7, <3>1
    <3>2. CASE j = Len(o) + 1
      BY <2>2, <2>3, <2>4, <2>6, <2>7, <3>2
    <3>3. CASE k = Len(o) + 1
      BY <2>2, <2>3, <2>4, <2>6, <2>7, <3>3
    <3> QED BY <2>2, <2>4, <3>1, <3>2, <3>3
  <2>8. ToSet(o) \subseteq ToSet(t) /\ c \in ToSet(t)
    <3>1. \A k \in 1 .. Len(o) : k \in DOMAIN t
      BY <1>2, <2>2
    <3>2. Len(o) + 1 \in DOMAIN t
      BY <1>2, <2>2
    <3>3. \A k \in 1 .. Len(o) : o[k] \in ToSet(t)
      BY <2>2, <3>1 DEF ToSet
    <3>4. c \in ToSet(t)
      BY <2>3, <3>2 DEF ToSet
    <3> QED BY <1>2, <3>3, <3>4 DEF ToSet
  <2>9. \A k \in 1 .. m + 1 :
          \/ seq[k] \in ToSet(t)
          \/ \E l \in 1 .. m + 1 : l < k /\ seq[l] \in ToSet(t) /\ seq[l] \cap seq[k] # {}
    BY <1>1, <1>3, <1>4, <2>8 DEF c
  <2>10. Disjoint(t)
    BY <2>7 DEF Disjoint
  <2>11. Chosen(t, seq, m + 1)
    BY <2>5, <2>9, <2>10 DEF Chosen
  <2> QED BY <2>1, <2>2, <2>11 DEF c
<1> QED BY <1>6, <1>7

(* All of them.                                                            *)
LEMMA ObjectsChosen ==
  ASSUME NEW V, NEW seq \in Seq(V)
  PROVE  ChoseObjects(seq) \in Seq(V) /\ Chosen(ChoseObjects(seq), seq, Len(seq))
<1> DEFINE n == Len(seq)
           S == Seq(V)
           step == [iv \in (1 .. n) \X S |-> NextChosen(iv[2], seq[iv[1]])]
           Iterates(g) == g = [s \in SUBSET (DOMAIN seq) |->
                                 IF s = {} THEN <<>> ELSE NextChosen(g[s \ {Max(s)}], seq[Max(s)])]
           g == CHOOSE g : Iterates(g)
<1>1. n \in Nat /\ DOMAIN seq = 1 .. n /\ <<>> \in S
  OBVIOUS
<1>2. ASSUME NEW m \in 1 .. n, NEW d \in S PROVE NextChosen(d, seq[m]) \in S
  BY DEF NextChosen
<1> HIDE DEF S
<1>3. step \in [(1 .. n) \X S -> S]
  BY <1>2
<1>4. PICK h \in [SUBSET (1 .. n) -> S] : TakesLast(h, n, <<>>, step)
  <2> HIDE DEF step, n
  <2> QED BY <1>1, <1>3, IterationExists
<1>5. Iterates(h)
  <2>1. ASSUME NEW s \in SUBSET (1 .. n), s # {}
        PROVE  step[<<Max(s), h[s \ {Max(s)}]>>] = NextChosen(h[s \ {Max(s)}], seq[Max(s)])
    <3>1. Max(s) \in 1 .. n
      BY <1>1, <2>1, GreatestIndex
    <3>2. h[s \ {Max(s)}] \in S
      BY <1>4
    <3> QED BY <1>2, <3>1, <3>2
  <2>2. h = [s \in SUBSET (1 .. n) |-> IF s = {} THEN <<>> ELSE step[<<Max(s), h[s \ {Max(s)}]>>]]
    BY <1>4 DEF TakesLast
  <2> HIDE DEF step, n
  <2> QED BY <1>1, <2>1, <2>2
<1>6. Iterates(g)
  <2> HIDE DEF Iterates
  <2> QED BY <1>5
<1>7. ChoseObjects(seq) = g[1 .. n]
  <2>1. ChoseObjects(seq) = g[DOMAIN seq]
    BY DEF ChoseObjects, FoldLeft, MapThenFoldSet, NextChosen
  <2> QED BY <1>1, <2>1
<1> HIDE DEF g
<1>8. g[{}] = <<>> /\ \A s \in SUBSET (1 .. n) :
        s # {} => g[s] = NextChosen(g[s \ {Max(s)}], seq[Max(s)])
  BY <1>1, <1>6
<1> HIDE DEF step, Iterates
<1>9. ASSUME NEW m \in 1 .. n PROVE g[1 .. m] = NextChosen(g[1 .. m - 1], seq[m])
  <2>1. 1 .. m \in SUBSET (1 .. n) /\ 1 .. m # {} /\ Max(1 .. m) = m /\ (1 .. m) \ {m} = 1 .. m - 1
    BY <1>1, GreatestIndex
  <2>2. PICK s : s = 1 .. m
    OBVIOUS
  <2>3. g[s] = NextChosen(g[s \ {Max(s)}], seq[Max(s)])
    BY <1>8, <2>1, <2>2
  <2> QED BY <2>1, <2>2, <2>3
<1> DEFINE Good(m) == g[1 .. m] \in S /\ Chosen(g[1 .. m], seq, m)
           T == {m \in 0 .. n : ~Good(m)}
<1>10. T = {}
  <2> SUFFICES ASSUME T # {} PROVE FALSE
    OBVIOUS
  <2>1. PICK m \in T : \A k \in 0 .. n : k < m => k \notin T
    <3>1. T \subseteq 0 .. n
      OBVIOUS
    <3> HIDE DEF T
    <3> QED BY <1>1, <3>1, LeastOf
  <2>2. Good(0)
    <3>1. g[1 .. 0] = <<>>
      <4>1. 1 .. 0 = {}
        OBVIOUS
      <4> QED BY <1>8, <4>1
    <3>2. Chosen(<<>>, seq, 0)
      BY DEF Chosen, Disjoint
    <3> QED BY <1>1, <3>1, <3>2
  <2>3. m # 0
    BY <2>2
  <2>4. m \in 1 .. n /\ m - 1 \in 0 .. n /\ m - 1 < m /\ (m - 1) + 1 = m /\ m - 1 \in Nat
    BY <1>1, <2>3
  <2>5. g[1 .. m - 1] \in S /\ Chosen(g[1 .. m - 1], seq, m - 1)
    BY <2>1, <2>4
  <2>6. g[1 .. m] = NextChosen(g[1 .. m - 1], seq[m])
    BY <1>9, <2>4
  <2>7. PICK o, k : o = g[1 .. m - 1] /\ k = m - 1
    OBVIOUS
  <2>8. o \in Seq(V) /\ Chosen(o, seq, k) /\ k \in Nat /\ k + 1 <= Len(seq)
    BY <2>4, <2>5, <2>7 DEF S
  <2>9. NextChosen(o, seq[k + 1]) \in Seq(V) /\ Chosen(NextChosen(o, seq[k + 1]), seq, k + 1)
    BY ONLY <2>8, OneChosen, seq \in Seq(V)
  <2>10. Good(m)
    BY <2>4, <2>6, <2>7, <2>9 DEF S
  <2> QED BY <2>10
<1>11. Good(n)
  BY <1>1, <1>10
<1> QED BY <1>7, <1>11 DEF S

-----------------------------------------------------------------------------
(* Sums of times are numbers: of hits,                                     *)
LEMMA HitTimesAdd ==
  ASSUME NEW S, IsFiniteSet(S), \A x \in S : HitTime(x) \in Int
  PROVE  MapThenSumSet(HitTime, S) \in Int
<1> DEFINE f == [x \in S |-> HitTime(x)]
           Sums(g) == g = [s \in SUBSET S |->
                             IF s = {} THEN 0
                             ELSE LET x == CHOOSE x \in s : TRUE IN HitTime(x) + g[s \ {x}]]
           iter == CHOOSE g : Sums(g)
<1>1. \A x \in S : f[x] = HitTime(x) /\ f[x] \in Int
  OBVIOUS
<1> HIDE DEF f
<1>2. ASSUME NEW g PROVE Sums(g) <=> IsSum(g, S, f)
  <2>1. ASSUME NEW s \in SUBSET S, s # {}
        PROVE  f[CHOOSE x \in s : TRUE] = HitTime(CHOOSE x \in s : TRUE)
    BY <1>1, <2>1
  <2> QED BY <2>1 DEF IsSum
<1>3. PICK g \in [SUBSET S -> Int] : IsSum(g, S, f)
  BY <1>1, SumExists
<1>4. Sums(iter)
  <2>1. Sums(g)
    BY <1>2, <1>3
  <2> HIDE DEF Sums
  <2> QED BY <2>1
<1>5. iter = g
  <2>1. IsSum(iter, S, f)
    BY <1>2, <1>4
  <2> HIDE DEF iter, Sums
  <2> QED BY <1>3, <2>1, SumIsUnique
<1>6. MapThenSumSet(HitTime, S) = iter[S]
  BY DEF MapThenSumSet, MapThenFoldSet
<1> HIDE DEF iter
<1> QED BY <1>3, <1>5, <1>6

(* of pairs of hits,                                                       *)
LEMMA PairTimesAdd ==
  ASSUME NEW S, IsFiniteSet(S), \A x \in S : MapThenSumSet(HitTime, x) \in Int
  PROVE  MapThenSumSet(LAMBDA p : MapThenSumSet(HitTime, p), S) \in Int
<1> DEFINE f == [x \in S |-> MapThenSumSet(HitTime, x)]
           Sums(g) == g = [s \in SUBSET S |->
                             IF s = {} THEN 0
                             ELSE LET x == CHOOSE x \in s : TRUE IN MapThenSumSet(HitTime, x) + g[s \ {x}]]
           iter == CHOOSE g : Sums(g)
<1>1. \A x \in S : f[x] = MapThenSumSet(HitTime, x) /\ f[x] \in Int
  OBVIOUS
<1> HIDE DEF f
<1>2. ASSUME NEW g PROVE Sums(g) <=> IsSum(g, S, f)
  <2>1. ASSUME NEW s \in SUBSET S, s # {}
        PROVE  f[CHOOSE x \in s : TRUE] = MapThenSumSet(HitTime, CHOOSE x \in s : TRUE)
    BY <1>1, <2>1
  <2> QED BY <2>1 DEF IsSum
<1>3. PICK g \in [SUBSET S -> Int] : IsSum(g, S, f)
  BY <1>1, SumExists
<1>4. Sums(iter)
  <2>1. Sums(g)
    BY <1>2, <1>3
  <2> HIDE DEF Sums
  <2> QED BY <2>1
<1>5. iter = g
  <2>1. IsSum(iter, S, f)
    BY <1>2, <1>4
  <2> HIDE DEF iter, Sums
  <2> QED BY <1>3, <2>1, SumIsUnique
<1>6. MapThenSumSet(LAMBDA p : MapThenSumSet(HitTime, p), S) = iter[S]
  BY DEF MapThenSumSet, MapThenFoldSet
<1> HIDE DEF iter
<1> QED BY <1>3, <1>5, <1>6

(* of space points,                                                        *)
LEMMA PointTimesAdd ==
  ASSUME NEW S, IsFiniteSet(S), \A x \in S : PointTime(x) \in Int
  PROVE  MapThenSumSet(PointTime, S) \in Int
<1> DEFINE f == [x \in S |-> PointTime(x)]
           Sums(g) == g = [s \in SUBSET S |->
                             IF s = {} THEN 0
                             ELSE LET x == CHOOSE x \in s : TRUE IN PointTime(x) + g[s \ {x}]]
           iter == CHOOSE g : Sums(g)
<1>1. \A x \in S : f[x] = PointTime(x) /\ f[x] \in Int
  OBVIOUS
<1> HIDE DEF f
<1>2. ASSUME NEW g PROVE Sums(g) <=> IsSum(g, S, f)
  <2>1. ASSUME NEW s \in SUBSET S, s # {}
        PROVE  f[CHOOSE x \in s : TRUE] = PointTime(CHOOSE x \in s : TRUE)
    BY <1>1, <2>1
  <2> QED BY <2>1 DEF IsSum
<1>3. PICK g \in [SUBSET S -> Int] : IsSum(g, S, f)
  BY <1>1, SumExists
<1>4. Sums(iter)
  <2>1. Sums(g)
    BY <1>2, <1>3
  <2> HIDE DEF Sums
  <2> QED BY <2>1
<1>5. iter = g
  <2>1. IsSum(iter, S, f)
    BY <1>2, <1>4
  <2> HIDE DEF iter, Sums
  <2> QED BY <1>3, <2>1, SumIsUnique
<1>6. MapThenSumSet(PointTime, S) = iter[S]
  BY DEF MapThenSumSet, MapThenFoldSet
<1> HIDE DEF iter
<1> QED BY <1>3, <1>5, <1>6

(* and of their squares.                                                   *)
LEMMA SquaresAdd ==
  ASSUME NEW S, IsFiniteSet(S), \A x \in S : PointTime(x) * PointTime(x) \in Int
  PROVE  MapThenSumSet(LAMBDA c : PointTime(c) * PointTime(c), S) \in Int
<1> DEFINE f == [x \in S |-> PointTime(x) * PointTime(x)]
           Sums(g) == g = [s \in SUBSET S |->
                             IF s = {} THEN 0
                             ELSE LET x == CHOOSE x \in s : TRUE IN PointTime(x) * PointTime(x) + g[s \ {x}]]
           iter == CHOOSE g : Sums(g)
<1>1. \A x \in S : f[x] = PointTime(x) * PointTime(x) /\ f[x] \in Int
  OBVIOUS
<1> HIDE DEF f
<1>2. ASSUME NEW g PROVE Sums(g) <=> IsSum(g, S, f)
  <2>1. ASSUME NEW s \in SUBSET S, s # {}
        PROVE  f[CHOOSE x \in s : TRUE] = PointTime(CHOOSE x \in s : TRUE) * PointTime(CHOOSE x \in s : TRUE)
    BY <1>1, <2>1
  <2> QED BY <2>1 DEF IsSum
<1>3. PICK g \in [SUBSET S -> Int] : IsSum(g, S, f)
  BY <1>1, SumExists
<1>4. Sums(iter)
  <2>1. Sums(g)
    BY <1>2, <1>3
  <2> HIDE DEF Sums
  <2> QED BY <2>1
<1>5. iter = g
  <2>1. IsSum(iter, S, f)
    BY <1>2, <1>4
  <2> HIDE DEF iter, Sums
  <2> QED BY <1>3, <2>1, SumIsUnique
<1>6. MapThenSumSet(LAMBDA c : PointTime(c) * PointTime(c), S) = iter[S]
  BY DEF MapThenSumSet, MapThenFoldSet
<1> HIDE DEF iter
<1> QED BY <1>3, <1>5, <1>6

-----------------------------------------------------------------------------
(* The space points in the order of time, each once.                       *)
InTime(sps, points, n) ==
  /\ sps \in [1 .. n -> points]
  /\ \A c \in points : \E k \in 1 .. n : sps[k] = c
  /\ \A j, k \in 1 .. n : sps[j] = sps[k] => j = k
  /\ \A j, k \in 1 .. n : j < k => PointTime(sps[j]) <= PointTime(sps[k])

(* A further point in a place that Placings gives it.                      *)
LEMMA PointPlaced ==
  ASSUME NEW U, NEW c, c \notin U, \A x \in U \cup {c} : PointTime(x) \in Int,
         NEW n \in Nat, NEW s, InTime(s, U, n), NEW t \in Placings(s, c)
  PROVE  InTime(t, U \cup {c}, n + 1)
<1> DEFINE W == U \cup {c}
<1>1. /\ s \in [1 .. n -> U] /\ \A x \in U : \E k \in 1 .. n : s[k] = x
      /\ \A j, k \in 1 .. n : s[j] = s[k] => j = k
      /\ \A j, k \in 1 .. n : j < k => PointTime(s[j]) <= PointTime(s[k])
  BY DEF InTime
<1>2. s \in Seq(W) /\ Len(s) = n /\ c \in W
  <2>1. s \in [1 .. n -> W]
    BY <1>1
  <2> HIDE DEF W
  <2>2. s \in Seq(W) /\ Len(s) = n
    BY <2>1
  <2> QED BY <2>2 DEF W
<1>3. PICK q \in 1 .. n + 1 :
        /\ \A j \in 1 .. q - 1 : PointTime(s[j]) <= PointTime(c)
        /\ \A j \in q .. n : PointTime(c) <= PointTime(s[j])
        /\ t = InsertAt(s, q, c)
  BY <1>2 DEF Placings
<1> HIDE DEF W
<1>4. /\ t \in Seq(W) /\ DOMAIN t = 1 .. n + 1
      /\ \A k \in 1 .. n + 1 : t[k] = IF k < q THEN s[k] ELSE IF k = q THEN c ELSE s[k - 1]
  <2>1. s \in Seq(W) /\ c \in W /\ q \in 1 .. Len(s) + 1
    BY <1>2
  <2> DEFINE u == InsertAt(s, q, c)
  <2>2. /\ u \in Seq(W) /\ DOMAIN u = 1 .. Len(s) + 1
        /\ \A k \in 1 .. Len(s) + 1 : u[k] = IF k < q THEN s[k] ELSE IF k = q THEN c ELSE s[k - 1]
    BY ONLY <2>1, Inserted
  <2>3. t = u
    BY <1>3
  <2> HIDE DEF u
  <2> QED BY <1>2, <2>2, <2>3
<1>5. t[q] = c /\ \A k \in 1 .. n : t[PlaceAfter(k, q)] = s[k]
  <2>1. ASSUME NEW k \in 1 .. n PROVE t[PlaceAfter(k, q)] = s[k]
    <3>1. CASE k < q
      BY <1>4, <3>1 DEF PlaceAfter
    <3>2. CASE ~(k < q)
      <4>1. k + 1 \in 1 .. n + 1 /\ ~(k + 1 < q) /\ k + 1 # q /\ (k + 1) - 1 = k
        BY <3>2
      <4> QED BY <1>4, <3>2, <4>1 DEF PlaceAfter
    <3> QED BY <3>1, <3>2
  <2> QED BY <1>4, <2>1
<1>6. HasAt(t, s, n, q, c)
  BY <1>5 DEF HasAt, PlaceAfter
<1>7. ASSUME NEW j \in 1 .. n + 1, j # q
      PROVE  PlaceBefore(j, q) \in 1 .. n /\ t[j] = s[PlaceBefore(j, q)]
  BY <1>6, <1>7, PlacesShift DEF PlaceBefore
<1>8. t \in [1 .. n + 1 -> W]
  BY <1>4
<1>9. ASSUME NEW x \in W PROVE \E k \in 1 .. n + 1 : t[k] = x
  <2>1. CASE x = c
    BY <1>5, <2>1
  <2>2. CASE x \in U
    <3>1. PICK k \in 1 .. n : s[k] = x
      BY <1>1, <2>2
    <3>2. PlaceAfter(k, q) \in 1 .. n + 1
      BY DEF PlaceAfter
    <3> QED BY <1>5, <3>1, <3>2
  <2> QED BY <2>1, <2>2 DEF W
<1>10. ASSUME NEW j \in 1 .. n + 1, NEW k \in 1 .. n + 1, t[j] = t[k] PROVE j = k
  <2>1. ASSUME NEW i \in 1 .. n + 1, i # q PROVE t[i] \in U
    BY <1>1, <1>7, <2>1
  <2>2. CASE j = q \/ k = q
    BY <1>5, <1>10, <2>1, <2>2
  <2>3. CASE j # q /\ k # q
    <3>1. PlaceBefore(j, q) = PlaceBefore(k, q)
      BY <1>1, <1>7, <1>10, <2>3
    <3> QED BY <2>3, <3>1 DEF PlaceBefore
  <2> QED BY <2>2, <2>3
<1>11. ASSUME NEW j \in 1 .. n + 1, NEW k \in 1 .. n + 1, j < k PROVE PointTime(t[j]) <= PointTime(t[k])
  <2>1. CASE j = q
    <3>1. k # q /\ PlaceBefore(k, q) \in q .. n
      BY <1>11, <2>1 DEF PlaceBefore
    <3> QED BY <1>3, <1>5, <1>7, <2>1, <3>1
  <2>2. CASE k = q
    <3>1. j # q /\ PlaceBefore(j, q) \in 1 .. q - 1
      BY <1>11, <2>2 DEF PlaceBefore
    <3> QED BY <1>3, <1>5, <1>7, <2>2, <3>1
  <2>3. CASE j # q /\ k # q
    <3>1. PlaceBefore(j, q) < PlaceBefore(k, q)
      BY <1>11, <2>3 DEF PlaceBefore
    <3> QED BY <1>1, <1>7, <2>3, <3>1
  <2> QED BY <2>1, <2>2, <2>3
<1> QED BY <1>8, <1>9, <1>10, <1>11 DEF InTime, W

(* OrderSpacePoints orders them so.                                        *)
LEMMA PointsInTime ==
  ASSUME NEW points, IsFiniteSet(points), \A c \in points : PointTime(c) \in Int,
         NEW sps \in OrderSpacePoints(points)
  PROVE  Cardinality(points) \in Nat /\ InTime(sps, points, Cardinality(points))
<1> DEFINE ch == [U \in SUBSET points |-> CHOOSE x \in U : TRUE]
           V == SUBSET Seq(points)
           All(v, c) == UNION {Placings(s, c) : s \in v}
           step == [uv \in (SUBSET points) \X V |-> IF uv[1] = {} THEN {} ELSE All(uv[2], ch[uv[1]])]
           Folds(g) == g = [U \in SUBSET points |->
                              IF U = {} THEN {<<>>}
                              ELSE LET x == CHOOSE x \in U : TRUE IN All(g[U \ {x}], x)]
           g == CHOOSE g : Folds(g)
<1>1. Chooses(ch, points) /\ \A U \in SUBSET points : ch[U] = CHOOSE x \in U : TRUE
  BY DEF Chooses
<1>2. {<<>>} \in V
  OBVIOUS
<1>3. step \in [(SUBSET points) \X V -> V]
  <2>1. ASSUME NEW v \in V, NEW c \in points PROVE All(v, c) \in V
    <3> SUFFICES ASSUME NEW s \in v, NEW t \in Placings(s, c) PROVE t \in Seq(points)
      OBVIOUS
    <3>1. s \in Seq(points)
      OBVIOUS
    <3>2. PICK q \in 1 .. Len(s) + 1 : t = InsertAt(s, q, c)
      BY DEF Placings
    <3> QED BY <3>1, <3>2, Inserted
  <2>2. ASSUME NEW U \in SUBSET points, U # {} PROVE ch[U] \in points
    BY <1>1, <2>2 DEF Chooses
  <2> HIDE DEF V, All, ch
  <2>3. {} \in V
    BY DEF V
  <2> QED BY <2>1, <2>2, <2>3
<1> HIDE DEF ch
<1>4. PICK h \in [SUBSET points -> V] : Recurses(h, points, {<<>>}, step, ch)
  <2> HIDE DEF step, V
  <2> QED BY <1>1, <1>2, <1>3, RecursionExists
<1>5. Folds(h)
  <2>1. h[{}] = {<<>>}
    BY <1>4 DEF Recurses
  <2>2. ASSUME NEW U \in SUBSET points, U # {}
        PROVE  h[U] = LET x == CHOOSE x \in U : TRUE IN All(h[U \ {x}], x)
    <3>1. h[U] = step[<<U, h[U \ {ch[U]}]>>]
      BY <1>4, <2>2 DEF Recurses
    <3>2. h[U \ {ch[U]}] \in V
      BY <1>4
    <3> HIDE DEF V, All
    <3>3. h[U] = All(h[U \ {ch[U]}], ch[U])
      BY <2>2, <3>1, <3>2
    <3> QED BY <1>1, <3>3
  <2>3. h = [U \in SUBSET points |-> h[U]]
    BY <1>4
  <2> HIDE DEF All
  <2> QED BY <2>1, <2>2, <2>3
<1>6. Folds(g)
  <2> HIDE DEF Folds
  <2> QED BY <1>5
<1>7. OrderSpacePoints(points) = g[points]
  BY DEF OrderSpacePoints, FoldSet, MapThenFoldSet
<1> HIDE DEF g
<1>8. g[{}] = {<<>>} /\ \A U \in SUBSET points : U # {} => g[U] = All(g[U \ {ch[U]}], ch[U])
  <2> HIDE DEF All
  <2> QED BY <1>1, <1>6
<1> HIDE DEF step, Folds, V
<1> DEFINE Good(U) == \A s \in g[U] : InTime(s, U, Cardinality(U))
           T == {U \in SUBSET points : ~Good(U)}
<1>9. T = {}
  <2> SUFFICES ASSUME T # {} PROVE FALSE
    OBVIOUS
  <2>1. PICK U \in T : \A W \in T : W \subseteq U => W = U
    <3>1. T \subseteq SUBSET points
      OBVIOUS
    <3> HIDE DEF T
    <3> QED BY <3>1, MinimalSubset
  <2>2. Good({})
    BY <1>8, FS_EmptySet DEF InTime
  <2>3. U # {} /\ U \in SUBSET points
    BY <2>2
  <2> DEFINE c == ch[U]
             W == U \ {c}
  <2>4. c \in U /\ c \in points /\ W \in SUBSET points /\ W # U /\ W \subseteq U /\ W \cup {c} = U
    BY <1>1, <2>3 DEF Chooses
  <2>5. Good(W)
    <3> HIDE DEF W, c, Good
    <3> QED BY <2>1, <2>4
  <2>6. Cardinality(W) \in Nat /\ Cardinality(U) = Cardinality(W) + 1
    <3>1. IsFiniteSet(U) /\ IsFiniteSet(W)
      BY <2>3, <2>4, FS_Subset
    <3>2. Cardinality(U) \in Nat /\ Cardinality(W) \in Nat /\ Cardinality(W) = Cardinality(U) - 1
      <4> HIDE DEF c
      <4> QED BY <2>4, <3>1, FS_CardinalityType, FS_RemoveElement
    <3> HIDE DEF W
    <3> QED BY <3>2
  <2>7. g[U] = All(g[W], c)
    BY <1>8, <2>3
  <2>8. ASSUME NEW t \in g[U] PROVE InTime(t, U, Cardinality(U))
    <3>1. PICK s \in g[W] : t \in Placings(s, c)
      BY <2>7, <2>8
    <3>2. InTime(s, W, Cardinality(W))
      BY <2>5
    <3>3. c \notin W /\ \A x \in W \cup {c} : PointTime(x) \in Int
      BY <2>4
    <3> HIDE DEF W, c
    <3>4. InTime(t, W \cup {c}, Cardinality(W) + 1)
      BY <2>6, <3>1, <3>2, <3>3, PointPlaced
    <3> QED BY <2>4, <2>6, <3>4
  <2> QED BY <2>8
<1>10. Good(points)
  BY <1>9
<1>11. Cardinality(points) \in Nat
  BY FS_CardinalityType
<1> QED BY <1>7, <1>10, <1>11

-----------------------------------------------------------------------------
(* The products of one event are built of one another, each by the step    *)
(* that makes it.                                                          *)
IsPoint(c) == c \in clusters /\ (IsComplete(c) \/ IsSingleBottom(c))
OfPoints(objects) ==
  objects \in Seq(SUBSET spacePoints) /\ \A o \in ToSet(objects) : o # {} /\ o \subseteq spacePoints

ProductInv ==
  /\ stage \notin Late \cup {"clusters"} => clusters = {}
  /\ stage \notin Late => spacePoints = {}
  /\ stage \notin {"blobs", "tracks", "done"} => veto.points = {}
  /\ stage \notin {"tracks", "done"} => blobs = <<>>
  /\ stage # "done" => tracks = <<>>
  /\ \A c \in clusters : c # {} /\ c \subseteq stripHits
  /\ \A c \in spacePoints : IsPoint(c)
  /\ veto.points \subseteq spacePoints
  /\ OfPoints(blobs) /\ OfPoints(tracks)

(* There are finitely many space points, of strip hits, and each has a     *)
(* time.                                                                   *)
LEMMA PointsTimed ==
  ASSUME HitsTyped, ProductInv
  PROVE  /\ IsFiniteSet(spacePoints)
         /\ \A c \in spacePoints : PointTime(c) \in Int /\ c # {} /\ c \subseteq stripHits
<1>1. /\ IsFiniteSet(stripHits)
      /\ \A h \in stripHits : h.strip \in Strips /\ h.ts0 \in Int /\ h.ts1 \in Int
  BY DEF HitsTyped
<1>2. \A c \in spacePoints : c # {} /\ c \subseteq stripHits /\ (IsComplete(c) \/ Cardinality(c) = 1)
  BY DEF ProductInv, IsPoint, IsSingleBottom
<1>3. IsFiniteSet(spacePoints)
  <2>1. IsFiniteSet(SUBSET stripHits)
    BY <1>1, FS_SUBSET
  <2>2. spacePoints \in SUBSET (SUBSET stripHits)
    BY <1>2
  <2> QED BY <2>1, <2>2, FS_Subset
<1>4. ASSUME NEW h \in stripHits PROVE ClusterTime(h) \in Int /\ HitTime(h) \in Int
  <2>1. TimingCorrection[h.strip] \in Nat
    BY <1>1, VetoAssumption
  <2> QED BY <1>1, <2>1 DEF ClusterTime, HitTime, HitTime0, HitTime1
<1>5. ASSUME NEW c \in spacePoints PROVE PointTime(c) \in Int
  <2>0. Grain \in Nat
    BY ObjectAssumption
  <2>1. CASE Cardinality(c) = 1
    <3>1. (CHOOSE h \in c : TRUE) \in stripHits
      BY <1>2
    <3>2. ClusterTime(CHOOSE h \in c : TRUE) \in Int
      BY <1>4, <3>1
    <3> QED BY <2>0, <2>1, <3>2 DEF PointTime
  <2>2. CASE Cardinality(c) # 1
    <3> DEFINE pairs == CompletePairs(c)
               I == {y \in c \X c :
                       /\ Orientation[ModuleOf[y[1].strip]] # Orientation[ModuleOf[y[2].strip]]
                       /\ CheckOverlap(Crossing, y[1].strip, y[2].strip)}
               f == [x \in I |-> {x[1], x[2]}]
    <3>1. pairs = {f[x] : x \in I}
      BY DEF CompletePairs
    <3>2. IsFiniteSet(c)
      BY <1>1, <1>2, FS_Subset
    <3>3. IsFiniteSet(I)
      <4>1. IsFiniteSet(c \X c)
        BY <3>2, FS_Product
      <4>2. I \subseteq c \X c
        OBVIOUS
      <4> HIDE DEF I
      <4> QED BY <4>1, <4>2, FS_Subset
    <3>4. IsFiniteSet(pairs)
      <4> HIDE DEF f, I, pairs
      <4> QED BY <3>1, <3>3, ImageOf
    <3>5. \A p \in pairs : p \subseteq c
      BY DEF CompletePairs
    <3>6. pairs # {}
      BY <1>2, <2>2 DEF IsComplete
    <3> HIDE DEF pairs
    <3>7. Cardinality(pairs) \in Nat /\ Cardinality(pairs) # 0
      BY <3>4, <3>6, FS_CardinalityType, FS_EmptySet
    <3>8. ASSUME NEW p \in pairs PROVE MapThenSumSet(HitTime, p) \in Int
      <4>1. IsFiniteSet(p) /\ \A h \in p : HitTime(h) \in Int
        BY <1>2, <1>4, <3>2, <3>5, FS_Subset
      <4> QED BY <4>1, HitTimesAdd
    <3>9. MapThenSumSet(LAMBDA p : MapThenSumSet(HitTime, p), pairs) \in Int
      BY <3>4, <3>8, PairTimesAdd
    <3>10. Grain \div Halves(c) \in Int
      <4>1. Halves(c) = 2 * Cardinality(pairs)
        BY DEF Halves, pairs
      <4>2. Halves(c) \in Nat \ {0}
        BY <3>7, <4>1
      <4> QED BY <2>0, <4>2
    <3>11. PointTime(c) = (Grain \div Halves(c)) * MapThenSumSet(LAMBDA p : MapThenSumSet(HitTime, p), pairs)
      BY <2>2 DEF PointTime, pairs
    <3> DEFINE a == Grain \div Halves(c)
               b == MapThenSumSet(LAMBDA p : MapThenSumSet(HitTime, p), pairs)
    <3>12. a \in Int /\ b \in Int /\ PointTime(c) = a * b
      BY <3>9, <3>10, <3>11
    <3> HIDE DEF a, b
    <3> QED BY <3>12
  <2> QED BY <2>1, <2>2
<1> QED BY <1>2, <1>3, <1>5

-----------------------------------------------------------------------------
(* The candidate of each space point: it and those that follow in time.    *)
IsWindow(b, sps, i, n) ==
  /\ sps[i] \in b
  /\ \A k \in 1 .. n : sps[k] \in b <=> i <= k /\ WithinTime(sps[i], sps[k])

(* There are as many candidates as points, each the window of its own.     *)
LEMMA BlobCandidates ==
  ASSUME NEW points, NEW n \in Nat, NEW sps, InTime(sps, points, n), \A c \in points : PointTime(c) \in Int
  PROVE  /\ CreateBlobCandidates(sps) \in Seq(SUBSET points) /\ Len(CreateBlobCandidates(sps)) = n
         /\ \A i \in 1 .. n : IsWindow(CreateBlobCandidates(sps)[i], sps, i, n)
<1> DEFINE cands == CreateBlobCandidates(sps)
           Wide(i) == {sps[k] : k \in {k \in i .. n : WithinTime(sps[i], sps[k])}}
<1>1. sps \in [1 .. n -> points] /\ \A j, k \in 1 .. n : sps[j] = sps[k] => j = k
  BY DEF InTime
<1>2. DOMAIN sps = 1 .. n /\ Len(sps) = n
  BY <1>1
<1>3. cands = [i \in 1 .. n |-> Wide(i)]
  BY <1>2 DEF CreateBlobCandidates
<1>4. ASSUME NEW i \in 1 .. n PROVE Wide(i) \in SUBSET points /\ IsWindow(Wide(i), sps, i, n)
  <2>1. Wide(i) \in SUBSET points
    BY <1>1
  <2>2. WithinTime(sps[i], sps[i])
    <3>1. PointTime(sps[i]) \in Int
      BY <1>1
    <3>2. PICK a \in Int : a = PointTime(sps[i])
      BY <3>1
    <3>3. Grain * ObjectTimeRequirement \in Nat
      BY ObjectAssumption
    <3> QED BY <3>2, <3>3 DEF WithinTime, TimeDiff
  <2>3. sps[i] \in Wide(i)
    BY <2>2
  <2>4. ASSUME NEW k \in 1 .. n PROVE sps[k] \in Wide(i) <=> i <= k /\ WithinTime(sps[i], sps[k])
    <3>1. ASSUME sps[k] \in Wide(i) PROVE i <= k /\ WithinTime(sps[i], sps[k])
      <4>1. PICK l \in i .. n : sps[k] = sps[l] /\ WithinTime(sps[i], sps[l])
        BY <3>1
      <4>2. l = k
        BY <1>1, <4>1
      <4> QED BY <4>1, <4>2
    <3>2. ASSUME i <= k, WithinTime(sps[i], sps[k]) PROVE sps[k] \in Wide(i)
      BY <3>2
    <3> QED BY <3>1, <3>2
  <2> QED BY <2>1, <2>3, <2>4 DEF IsWindow
<1> HIDE DEF Wide, cands
<1>5. cands \in [1 .. n -> SUBSET points]
  BY <1>3, <1>4
<1>6. cands \in Seq(SUBSET points) /\ Len(cands) = n
  <2> DEFINE S == SUBSET points
  <2>1. cands \in [1 .. n -> S]
    BY <1>5
  <2> HIDE DEF S
  <2>2. cands \in Seq(S) /\ Len(cands) = n
    BY <2>1
  <2> QED BY <2>2 DEF S
<1>7. \A i \in 1 .. n : IsWindow(cands[i], sps, i, n)
  BY <1>3, <1>4
<1> QED BY <1>6, <1>7 DEF cands

(* A sequence that is inserted in turn has the elements there were.        *)
LEMMA SameElements ==
  ASSUME NEW V, NEW seq \in Seq(V), NEW B, NEW d, InsertsAll(d, seq, B)
  PROVE  d[Len(seq)] \in Seq(V) /\ ToSet(d[Len(seq)]) = ToSet(seq)
<1> DEFINE n == Len(seq)
<1>1. PICK p \in Seq(Nat) : EachOnce(p, n) /\ d[n] = Arranged(seq, p, n)
  BY ListedInTurn
<1>2. /\ p \in [1 .. n -> 1 .. n] /\ \A i \in 1 .. n : \E k \in 1 .. n : p[k] = i
  BY <1>1 DEF EachOnce
<1>3. d[n] = [k \in 1 .. n |-> seq[p[k]]] /\ DOMAIN seq = 1 .. n /\ n \in Nat
  BY <1>1 DEF Arranged
<1>4. \A k \in 1 .. n : seq[p[k]] \in V
  <2>1. \A k \in 1 .. n : p[k] \in 1 .. n
    BY <1>2
  <2>2. \A k \in 1 .. n : seq[k] \in V
    OBVIOUS
  <2> HIDE DEF n
  <2> QED BY <2>1, <2>2
<1> DEFINE e == d[n]
<1>5. DOMAIN e = 1 .. n /\ \A k \in 1 .. n : e[k] = seq[p[k]]
  BY <1>3
<1>6. e \in Seq(V)
  BY <1>3, <1>4
<1> HIDE DEF e, n
<1>7. ToSet(e) = ToSet(seq)
  BY <1>2, <1>3, <1>5 DEF ToSet
<1> QED BY <1>6, <1>7 DEF e, n

-----------------------------------------------------------------------------
(* A candidate track is of two points, or of three when both the tops are  *)
(* there and in line.                                                      *)
Three(x, y, z) == {x, y, z}
OfPair(t, sps, i, ii, n) ==
  /\ IsPair(sps[i], sps[ii])
  /\ \/ t = {sps[i], sps[ii]}
     \/ \E k \in 1 .. n : /\ ii < k /\ IsTriple(sps[i], sps[ii], sps[k])
                          /\ t = Three(sps[i], sps[ii], sps[k])
IsCandidate(t, sps, n) == \E i, ii \in 1 .. n : i < ii /\ OfPair(t, sps, i, ii, n)

(* Those of one pair.                                                      *)
LEMMA PairCandidates ==
  ASSUME NEW points, NEW n \in Nat, NEW sps \in [1 .. n -> points],
         NEW i \in 1 .. n, NEW ii \in 1 .. n
  PROVE  /\ CandidatesOf(sps, i, ii) \in Seq(SUBSET points)
         /\ \A t : t \in ToSet(CandidatesOf(sps, i, ii)) <=> OfPair(t, sps, i, ii, n)
<1> DEFINE S == SUBSET points
           I == {k \in ii + 1 .. Len(sps) : IsTriple(sps[i], sps[ii], sps[k])}
           thirds == Selected(sps, I)
           triples == [k \in DOMAIN thirds |-> Three(sps[i], sps[ii], thirds[k])]
           pair == <<{sps[i], sps[ii]}>>
<1>1. sps \in Seq(points) /\ Len(sps) = n /\ DOMAIN sps = 1 .. n
  OBVIOUS
<1>2. I \subseteq DOMAIN sps /\ \A k : k \in I <=> k \in 1 .. n /\ ii < k /\ IsTriple(sps[i], sps[ii], sps[k])
  BY <1>1
<1>3. thirds \in Seq(points) /\ ToSet(thirds) = {sps[k] : k \in I}
  <2> HIDE DEF I
  <2> QED BY <1>1, <1>2, SelectedElements
<1>4. CandidatesOf(sps, i, ii) = IF ~IsPair(sps[i], sps[ii]) THEN <<>> ELSE triples \o pair
  BY DEF CandidatesOf, Three
<1> HIDE DEF I, thirds
<1>5. /\ triples \in Seq(S) /\ pair \in Seq(S)
      /\ ToSet(triples) = {Three(sps[i], sps[ii], x) : x \in ToSet(thirds)}
      /\ ToSet(pair) = {{sps[i], sps[ii]}}
  <2>1. DOMAIN thirds = 1 .. Len(thirds) /\ Len(thirds) \in Nat /\ \A k \in 1 .. Len(thirds) : thirds[k] \in points
    BY <1>3
  <2>2. \A k \in 1 .. Len(thirds) : Three(sps[i], sps[ii], thirds[k]) \in S
    BY <2>1 DEF Three
  <2>3. {sps[i], sps[ii]} \in S
    OBVIOUS
  <2>4. ToSet(triples) = {Three(sps[i], sps[ii], x) : x \in ToSet(thirds)}
    BY DEF ToSet
  <2>5. triples = [k \in 1 .. Len(thirds) |-> Three(sps[i], sps[ii], thirds[k])]
    BY <2>1
  <2> HIDE DEF S
  <2>6. triples \in [1 .. Len(thirds) -> S]
    BY <2>2, <2>5
  <2> HIDE DEF triples
  <2>7. triples \in Seq(S) /\ pair \in Seq(S)
    BY <2>1, <2>3, <2>6
  <2>8. ToSet(pair) = {{sps[i], sps[ii]}}
    <3>1. DOMAIN pair = {1} /\ pair[1] = {sps[i], sps[ii]}
      OBVIOUS
    <3> HIDE DEF pair
    <3> QED BY <3>1 DEF ToSet
  <2> QED BY <2>4, <2>7, <2>8
<1> DEFINE both == triples \o pair
<1>6. both \in Seq(S) /\ ToSet(both) = ToSet(triples) \cup ToSet(pair)
  <2> HIDE DEF triples, pair, S
  <2> QED BY <1>5, ConcatSet
<1>7. \A t : t \in ToSet(both) <=>
         \/ t = {sps[i], sps[ii]}
         \/ \E k \in I : t = Three(sps[i], sps[ii], sps[k])
  <2>1. \A x : x \in ToSet(thirds) <=> \E k \in I : x = sps[k]
    BY <1>3
  <2> HIDE DEF both, triples, pair
  <2>2. ASSUME NEW t PROVE t \in ToSet(triples) <=> \E k \in I : t = Three(sps[i], sps[ii], sps[k])
    BY <1>5, <2>1
  <2>3. ASSUME NEW t PROVE t \in ToSet(pair) <=> t = {sps[i], sps[ii]}
    BY <1>5
  <2> QED BY <1>6, <2>2, <2>3
<1>8. CASE ~IsPair(sps[i], sps[ii])
  <2>1. CandidatesOf(sps, i, ii) = <<>>
    BY <1>4, <1>8
  <2> QED BY <1>8, <2>1 DEF ToSet, OfPair
<1>9. CASE IsPair(sps[i], sps[ii])
  <2>1. CandidatesOf(sps, i, ii) = both
    BY <1>4, <1>9
  <2> HIDE DEF both
  <2>2. CandidatesOf(sps, i, ii) \in Seq(SUBSET points)
    BY <1>6, <2>1
  <2>3. ASSUME NEW t PROVE t \in ToSet(both) <=> OfPair(t, sps, i, ii, n)
    <3>1. (\E k \in I : t = Three(sps[i], sps[ii], sps[k])) <=>
            \E k \in 1 .. n : /\ ii < k /\ IsTriple(sps[i], sps[ii], sps[k])
                              /\ t = Three(sps[i], sps[ii], sps[k])
      BY <1>2
    <3> QED BY <1>7, <1>9, <3>1 DEF OfPair
  <2> QED BY <2>1, <2>2, <2>3
<1> QED BY <1>8, <1>9

(* All of them.                                                            *)
LEMMA TrackCandidates ==
  ASSUME NEW points, NEW n \in Nat, NEW sps \in [1 .. n -> points]
  PROVE  /\ CreateTrackCandidates(sps) \in Seq(SUBSET points)
         /\ \A t : t \in ToSet(CreateTrackCandidates(sps)) <=> IsCandidate(t, sps, n)
<1> DEFINE S == SUBSET points
           Of(i) == [d \in 1 .. n - i |-> CandidatesOf(sps, i, i + d)]
           all == [i \in 1 .. n |-> FlattenSeq(Of(i))]
<1>1. DOMAIN sps = 1 .. n /\ Len(sps) = n
  OBVIOUS
<1>2. CreateTrackCandidates(sps) = FlattenSeq(all)
  BY <1>1 DEF CreateTrackCandidates
<1>3. ASSUME NEW i \in 1 .. n
      PROVE  /\ all[i] \in Seq(S)
             /\ \A t : t \in ToSet(all[i]) <=>
                  \E ii \in 1 .. n : i < ii /\ t \in ToSet(CandidatesOf(sps, i, ii))
  <2> DEFINE s == Of(i)
  <2>1. n - i \in Nat /\ \A d \in 1 .. n - i : i + d \in 1 .. n
    OBVIOUS
  <2>2. \A d \in 1 .. n - i : s[d] \in Seq(S) /\ s[d] = CandidatesOf(sps, i, i + d)
    BY <2>1, PairCandidates
  <2>3. DOMAIN s = 1 .. n - i
    OBVIOUS
  <2>4. s = [d \in 1 .. n - i |-> s[d]]
    OBVIOUS
  <2> HIDE DEF s, S
  <2>5. s \in Seq(Seq(S)) /\ Len(s) = n - i
    <3> DEFINE m == n - i
               W == Seq(S)
    <3>1. m \in Nat /\ s = [d \in 1 .. m |-> s[d]] /\ \A d \in 1 .. m : s[d] \in W
      BY <2>1, <2>2, <2>4
    <3> HIDE DEF m, W
    <3>2. s \in [1 .. m -> W]
      BY <3>1
    <3>3. s \in Seq(W) /\ Len(s) = m
      BY <3>1, <3>2
    <3> QED BY <3>3 DEF m, W
  <2>6. FlattenSeq(s) \in Seq(S) /\ ToSet(FlattenSeq(s)) = UNION {ToSet(s[d]) : d \in 1 .. Len(s)}
    BY <2>5, Flattened
  <2>7. all[i] = FlattenSeq(s)
    BY DEF s
  <2>8. ASSUME NEW t, NEW ii \in 1 .. n, i < ii, t \in ToSet(CandidatesOf(sps, i, ii))
        PROVE  t \in ToSet(FlattenSeq(s))
    <3>1. ii - i \in 1 .. n - i /\ i + (ii - i) = ii
      BY <2>8
    <3>2. s[ii - i] = CandidatesOf(sps, i, ii)
      BY <2>2, <3>1
    <3> QED BY <2>5, <2>6, <2>8, <3>1, <3>2
  <2>9. ASSUME NEW t \in ToSet(FlattenSeq(s))
        PROVE  \E ii \in 1 .. n : i < ii /\ t \in ToSet(CandidatesOf(sps, i, ii))
    <3>1. PICK d \in 1 .. n - i : t \in ToSet(s[d])
      BY <2>5, <2>6
    <3>2. i + d \in 1 .. n /\ i < i + d /\ t \in ToSet(CandidatesOf(sps, i, i + d))
      BY <2>1, <2>2, <3>1
    <3> QED BY <3>2
  <2> HIDE DEF all
  <2> QED BY <2>6, <2>7, <2>8, <2>9
<1>4. DOMAIN all = 1 .. n /\ all = [i \in 1 .. n |-> all[i]]
  OBVIOUS
<1> HIDE DEF all, S
<1>5. all \in Seq(Seq(S)) /\ Len(all) = n
  BY <1>3, <1>4
<1>6. FlattenSeq(all) \in Seq(S) /\ ToSet(FlattenSeq(all)) = UNION {ToSet(all[i]) : i \in 1 .. Len(all)}
  BY <1>5, Flattened
<1>7. ASSUME NEW t
      PROVE  t \in ToSet(FlattenSeq(all)) <=>
               \E i, ii \in 1 .. n : i < ii /\ t \in ToSet(CandidatesOf(sps, i, ii))
  BY <1>3, <1>5, <1>6
<1>8. ASSUME NEW t
      PROVE  t \in ToSet(FlattenSeq(all)) <=> IsCandidate(t, sps, n)
  <2>1. \A i, ii \in 1 .. n : t \in ToSet(CandidatesOf(sps, i, ii)) <=> OfPair(t, sps, i, ii, n)
    BY PairCandidates
  <2> QED BY <1>7, <2>1 DEF IsCandidate
<1> QED BY <1>2, <1>6, <1>8 DEF S

-----------------------------------------------------------------------------
(* The sort and the choice, on the numbers of the candidates: i and j meet *)
(* when a point is in the windows of both, by the times T; those in L are  *)
(* alone in their windows; O have been chosen.                             *)
Meet(T, w, n, i, j) ==
  \E m \in 1 .. n : i <= m /\ j <= m /\ T[m] - T[i] <= w /\ T[m] - T[j] <= w

ChosenByTime(n, T, w, R, L, p, O) ==
  /\ n \in Nat /\ T \in [1 .. n -> Int] /\ w \in Nat
  /\ \A j, k \in 1 .. n : j <= k => T[j] <= T[k]
  /\ \A i \in L : \A k \in 1 .. n : i < k => T[k] - T[i] > w
  /\ WeakOrderBut(R, L, n) /\ Sorts(p, n, R, L)
  /\ \A a \in 1 .. n :
       p[a] \in O \/ \E j \in 1 .. n : j < a /\ p[j] \in O /\ Meet(T, w, n, p[j], p[a])
HasBetter(n, T, w, R, L, O, i) ==
  \E r \in O : r \in 1 .. n /\ r \notin L /\ Meet(T, w, n, r, i) /\ <<i, r>> \notin R

(* One that is not chosen meets one that is, of several points and no      *)
(* worse: it may have been blocked by a worse one that a lone one kept in  *)
(* front, but then that one had been passed by one that starts between the *)
(* two, which meets it as well.                                            *)
LEMMA BlockedByBetter ==
  ASSUME NEW n, NEW T, NEW w, NEW R, NEW L, NEW p, NEW O, ChosenByTime(n, T, w, R, L, p, O),
         NEW i \in 1 .. n, i \notin O
  PROVE  HasBetter(n, T, w, R, L, O, i)
<1> SUFFICES \E r \in O : r \in 1 .. n /\ r \notin L /\ Meet(T, w, n, r, i) /\ <<i, r>> \notin R
  BY DEF HasBetter
<1>0. /\ n \in Nat /\ T \in [1 .. n -> Int] /\ w \in Nat /\ WeakOrderBut(R, L, n)
      /\ \A j, k \in 1 .. n : j <= k => T[j] <= T[k]
      /\ \A l \in L : \A k \in 1 .. n : l < k => T[k] - T[l] > w
      /\ \A a \in 1 .. n :
           p[a] \in O \/ \E j \in 1 .. n : j < a /\ p[j] \in O /\ Meet(T, w, n, p[j], p[a])
  BY DEF ChosenByTime
<1>1. /\ p \in [1 .. n -> 1 .. n] /\ \A k \in 1 .. n : \E a \in 1 .. n : p[a] = k
      /\ \A j, k \in 1 .. n : p[j] = p[k] => j = k
      /\ LaterBehind(p, n, L) /\ PartedBy(p, n, R, L) /\ PutInFront(p, n, R, L) /\ BehindFirst(p, n, R)
  BY DEF ChosenByTime, Sorts, EachOnce
<1>2. PICK a \in 1 .. n : p[a] = i
  BY <1>0, <1>1
<1>3. PICK j \in 1 .. n : j < a /\ p[j] \in O /\ Meet(T, w, n, p[j], i)
  BY <1>0, <1>2
<1>4. PICK d \in 1 .. n : d = p[j] /\ d # i
  BY <1>0, <1>1, <1>2, <1>3
<1>5. PICK m \in 1 .. n : d <= m /\ i <= m /\ T[m] - T[d] <= w /\ T[m] - T[i] <= w
  BY <1>0, <1>3, <1>4 DEF Meet
<1>6. d \notin L
  <2> SUFFICES ASSUME d \in L PROVE FALSE
    OBVIOUS
  <2>1. d < i
    BY <1>0, <1>1, <1>2, <1>3, <1>4 DEF LaterBehind
  <2>2. d < m
    BY <1>0, <1>5, <2>1
  <2> QED BY <1>0, <1>5, <2>2
<1>7. CASE <<i, d>> \notin R
  BY <1>0, <1>3, <1>4, <1>6, <1>7
<1>8. CASE <<i, d>> \in R
  <2>1. PICK c \in 1 .. n : j < c /\ c < a /\ p[c] \in L
    BY <1>0, <1>1, <1>2, <1>3, <1>4, <1>8 DEF PartedBy
  <2>2. PICK l \in 1 .. n : l = p[c] /\ l < i
    BY <1>0, <1>1, <1>2, <2>1 DEF LaterBehind
  <2>3. ASSUME l < d
        PROVE  \A e \in 1 .. n : /\ e < j => p[e] \notin L /\ p[e] > d
                                 /\ e > j /\ p[e] < d => <<p[e], d>> \notin R
    BY <1>0, <1>1, <1>4, <2>1, <2>2, <2>3 DEF PutInFront
  <2>4. d < i
    <3>1. ~(i < d)
      <4> SUFFICES ASSUME i < d PROVE FALSE
        OBVIOUS
      <4>1. l < d
        BY <1>0, <2>2
      <4> QED BY <1>0, <1>2, <1>3, <1>8, <2>3, <4>1
    <3> QED BY <1>0, <1>4, <3>1
  <2>5. ASSUME NEW r \in 1 .. n, d < r, r < i PROVE r \notin L
    <3>1. T[m] - T[r] <= w /\ r < m
      <4>1. T[d] <= T[r] /\ T[d] \in Int /\ T[r] \in Int /\ T[m] \in Int
        BY <1>0, <2>5
      <4> QED BY <1>0, <1>5, <2>5, <4>1
    <3>2. T[m] \in Int /\ T[r] \in Int /\ w \in Int
      BY <1>0, <2>5
    <3> QED BY <1>0, <3>1, <3>2
  <2>6. l < d
    <3>1. l # d
      BY <1>0, <1>6, <2>1, <2>2
    <3> QED BY <1>0, <2>1, <2>2, <2>5, <3>1
  <2>7. PICK f \in 1 .. n : /\ f < a /\ p[f] < i /\ <<i, p[f]>> \notin R
                            /\ \A e \in 1 .. n : e < f => p[e] > i
    <3>1. ~ \A e \in 1 .. n : e < a => p[e] > p[a]
      BY <1>0, <1>2, <1>3, <1>4, <2>4
    <3> QED BY <1>0, <1>1, <1>2, <3>1 DEF BehindFirst
  <2>8. f < j
    <3>1. f # j
      BY <1>0, <1>4, <1>8, <2>7
    <3>2. ~(j < f)
      BY <1>0, <1>4, <2>4, <2>7
    <3> QED BY <1>0, <3>1, <3>2
  <2>9. PICK g \in 1 .. n : g = p[f] /\ d < g /\ g < i /\ g \notin L
    <3>1. p[f] \in 1 .. n /\ p[f] > d
      BY <1>0, <1>1, <2>3, <2>6, <2>8
    <3> QED BY <1>0, <2>5, <2>7, <3>1
  <2>10. T[i] <= T[m] /\ T[d] <= T[g] /\ T[g] <= T[i]
    BY <1>0, <1>5, <2>9
  <2>11. Meet(T, w, n, g, i)
    <3>1. T[i] - T[g] <= w /\ T[i] - T[i] <= w
      BY <1>0, <1>5, <2>10
    <3> QED BY <1>0, <2>9, <3>1 DEF Meet
  <2>12. CASE g \in O
    BY <1>0, <2>7, <2>9, <2>11, <2>12
  <2>13. CASE g \notin O
    <3>1. PICK e \in 1 .. n : e < f /\ p[e] \in O /\ Meet(T, w, n, p[e], g)
      BY <1>0, <2>9, <2>13
    <3>2. PICK b \in 1 .. n : b = p[e] /\ b > i /\ b \notin L
      <4>1. p[e] \in 1 .. n /\ p[e] > i
        BY <1>0, <1>1, <2>7, <3>1
      <4>2. p[e] \notin L
        <5>1. e < j
          BY <1>0, <2>8, <3>1
        <5> QED BY <1>0, <2>3, <2>6, <5>1
      <4> QED BY <1>0, <4>1, <4>2
    <3>3. PICK k \in 1 .. n : b <= k /\ g <= k /\ T[k] - T[b] <= w /\ T[k] - T[g] <= w
      BY <1>0, <3>1, <3>2 DEF Meet
    <3>4. Meet(T, w, n, b, i)
      <4>1. T[k] - T[i] <= w
        BY <1>0, <2>10, <3>3
      <4>2. i <= k
        BY <1>0, <3>2, <3>3
      <4> QED BY <1>0, <3>3, <4>1, <4>2 DEF Meet
    <3>5. <<i, b>> \notin R
      <4> SUFFICES ASSUME <<i, b>> \in R PROVE FALSE
        OBVIOUS
      <4>1. <<g, b>> \in R
        BY <1>0, <2>7, <2>9 DEF WeakOrderBut
      <4>2. PICK x \in 1 .. n : e < x /\ x < f /\ p[x] \in L
        BY <1>0, <1>1, <2>9, <3>1, <3>2, <4>1 DEF PartedBy
      <4>3. x < j
        BY <1>0, <2>8, <4>2
      <4> QED BY <1>0, <2>3, <2>6, <4>2, <4>3
    <3> QED BY <1>0, <3>1, <3>2, <3>4, <3>5
  <2> QED BY <1>0, <2>12, <2>13
<1> QED BY <1>0, <1>7, <1>8

(* Fractions compare as a weak order.                                      *)
LEMMA FractionsCompare ==
  ASSUME NEW a \in Int, NEW b \in Int, NEW c \in Int,
         NEW x \in Nat \ {0}, NEW y \in Nat \ {0}, NEW z \in Nat \ {0}, a * y < b * x
  PROVE  a * z < c * x \/ c * y < b * z
<1> SUFFICES ASSUME c * x <= a * z, b * z <= c * y PROVE FALSE
  <2>1. a * z \in Int /\ c * x \in Int /\ c * y \in Int /\ b * z \in Int
    OBVIOUS
  <2> QED BY <2>1
<1>1. PICK ay \in Int, bx \in Int : ay = a * y /\ bx = b * x
  OBVIOUS
<1>2. PICK cx \in Int, az \in Int, bz \in Int, cy \in Int : cx = c * x /\ az = a * z /\ bz = b * z /\ cy = c * y
  OBVIOUS
<1>3. ay + 1 <= bx /\ cx <= az /\ bz <= cy
  BY <1>1, <1>2
<1>4. ASSUME NEW s \in Int, NEW t \in Int, s <= t, NEW k \in Nat PROVE s * k <= t * k
  BY <1>4
<1>5. cx * y <= az * y /\ bz * x <= cy * x /\ (ay + 1) * z <= bx * z
  BY <1>3, <1>4
<1>6. cx * y = (c * x) * y /\ cy * x = (c * y) * x /\ az * y = (a * z) * y /\ ay * z = (a * y) * z
      /\ bz * x = (b * z) * x /\ bx * z = (b * x) * z
  BY <1>1, <1>2
<1>7. (c * x) * y = (c * y) * x /\ (a * z) * y = (a * y) * z /\ (b * z) * x = (b * x) * z
  OBVIOUS
<1>8. (ay + 1) * z = ay * z + z
  OBVIOUS
<1>9. /\ cx * y \in Int /\ az * y \in Int /\ bz * x \in Int /\ cy * x \in Int /\ bx * z \in Int
      /\ ay * z \in Int
  OBVIOUS
<1>10. cx * y = cy * x /\ az * y = ay * z /\ bz * x = bx * z
  BY <1>6, <1>7
<1> QED BY <1>5, <1>8, <1>9, <1>10

(* The error of several points is a fraction.                              *)
LEMMA SpreadTyped ==
  ASSUME NEW b, IsFiniteSet(b), \A c \in b : PointTime(c) \in Int
  PROVE  /\ Cardinality(b) \in Nat /\ Spread(b) \in Int
         /\ Cardinality(b) > 1 => SpreadOver(b) \in Nat \ {0}
<1>1. PICK n \in Nat : n = Cardinality(b)
  BY FS_CardinalityType
<1>2. PICK sum \in Int : sum = MapThenSumSet(PointTime, b)
  BY PointTimesAdd
<1>3. PICK squares \in Int : squares = MapThenSumSet(LAMBDA c : PointTime(c) * PointTime(c), b)
  <2>1. \A c \in b : PointTime(c) * PointTime(c) \in Int
    <3> SUFFICES ASSUME NEW c \in b PROVE PointTime(c) * PointTime(c) \in Int
      OBVIOUS
    <3>1. PICK t \in Int : t = PointTime(c)
      OBVIOUS
    <3> QED BY <3>1
  <2> QED BY <2>1, SquaresAdd
<1>4. Spread(b) = n * squares - sum * sum
  BY <1>1, <1>2, <1>3 DEF Spread
<1>5. n * squares \in Int /\ sum * sum \in Int
  OBVIOUS
<1>6. SpreadOver(b) = n * (n - 1)
  BY <1>1 DEF SpreadOver
<1>7. n > 1 => n * (n - 1) \in Nat \ {0}
  <2> SUFFICES ASSUME n > 1 PROVE n * (n - 1) \in Nat \ {0}
    OBVIOUS
  <2>1. PICK k \in Nat : k = n - 1 /\ k # 0 /\ n # 0
    OBVIOUS
  <2>2. n * k \in Nat /\ n * k # 0
    BY <2>1
  <2> QED BY <2>1, <2>2
<1>8. n * squares - sum * sum \in Int
  BY <1>5
<1> QED BY <1>1, <1>4, <1>6, <1>7, <1>8

(* The blobs' order is one on all but the lone points.                     *)
LEMMA ErrorsOrder ==
  ASSUME NEW V, NEW seq \in Seq(V), \A b \in V : IsFiniteSet(b) /\ \A c \in b : PointTime(c) \in Int
  PROVE  WeakOrderBut(OrderOf(seq, {x \in V \X V : SmallerError(x[1], x[2])}),
                      {i \in 1 .. Len(seq) : Cardinality(seq[i]) <= 1}, Len(seq))
<1> DEFINE n == Len(seq)
           B == {x \in V \X V : SmallerError(x[1], x[2])}
           R == OrderOf(seq, B)
           L == {i \in 1 .. n : Cardinality(seq[i]) <= 1}
<1>1. n \in Nat /\ \A i \in 1 .. n : seq[i] \in V
  OBVIOUS
<1>2. \A i \in 1 .. n : Cardinality(seq[i]) \in Nat
  BY <1>1, SpreadTyped
<1>3. \A i, j \in 1 .. n : <<i, j>> \in R <=> SmallerError(seq[i], seq[j])
  <2> HIDE DEF n
  <2> QED BY <1>1 DEF OrderOf, n
<1>4. \A i \in 1 .. n : i \in L <=> Cardinality(seq[i]) <= 1
  OBVIOUS
<1>5. L \subseteq 1 .. n
  OBVIOUS
<1> HIDE DEF R, L, B, n
<1>6. ASSUME NEW i \in 1 .. n, NEW j \in 1 .. n, <<i, j>> \in R
      PROVE  /\ i \notin L /\ j \notin L /\ <<j, i>> \notin R
             /\ Spread(seq[i]) \in Int /\ SpreadOver(seq[i]) \in Nat \ {0}
             /\ Spread(seq[j]) \in Int /\ SpreadOver(seq[j]) \in Nat \ {0}
             /\ Spread(seq[i]) * SpreadOver(seq[j]) < Spread(seq[j]) * SpreadOver(seq[i])
  <2>1. SmallerError(seq[i], seq[j])
    BY <1>3, <1>6
  <2>2. /\ Cardinality(seq[i]) > 1 /\ Cardinality(seq[j]) > 1
        /\ Spread(seq[i]) * SpreadOver(seq[j]) < Spread(seq[j]) * SpreadOver(seq[i])
    BY <2>1 DEF SmallerError
  <2>3. i \notin L /\ j \notin L
    BY <1>2, <1>4, <2>2
  <2>4. seq[i] \in V /\ seq[j] \in V
    BY <1>1
  <2>5. /\ Spread(seq[i]) \in Int /\ SpreadOver(seq[i]) \in Nat \ {0}
        /\ Spread(seq[j]) \in Int /\ SpreadOver(seq[j]) \in Nat \ {0}
    BY <2>2, <2>4, SpreadTyped
  <2>6. ~SmallerError(seq[j], seq[i])
    <3>1. PICK u \in Int, v \in Int :
            u = Spread(seq[i]) * SpreadOver(seq[j]) /\ v = Spread(seq[j]) * SpreadOver(seq[i])
      BY <2>5
    <3> QED BY <2>2, <3>1 DEF SmallerError
  <2> QED BY <1>3, <2>2, <2>3, <2>5, <2>6
<1>7. ASSUME NEW i \in 1 .. n, NEW j \in 1 .. n, NEW k \in 1 .. n, k \notin L, <<i, j>> \in R
      PROVE  <<i, k>> \in R \/ <<k, j>> \in R
  <2>1. Cardinality(seq[k]) > 1 /\ Cardinality(seq[i]) > 1 /\ Cardinality(seq[j]) > 1
    <3>1. i \notin L /\ j \notin L
      BY <1>6, <1>7
    <3> QED BY <1>2, <1>4, <1>7, <3>1
  <2>2. seq[k] \in V
    BY <1>1
  <2>3. Spread(seq[k]) \in Int /\ SpreadOver(seq[k]) \in Nat \ {0}
    BY <2>1, <2>2, SpreadTyped
  <2>4. \/ Spread(seq[i]) * SpreadOver(seq[k]) < Spread(seq[k]) * SpreadOver(seq[i])
        \/ Spread(seq[k]) * SpreadOver(seq[j]) < Spread(seq[j]) * SpreadOver(seq[k])
    BY <1>6, <1>7, <2>3, FractionsCompare
  <2> QED BY <1>3, <2>1, <2>4 DEF SmallerError
<1>8. \A i, j \in 1 .. n : <<i, j>> \in R => i \notin L /\ j \notin L /\ <<j, i>> \notin R
  BY <1>6
<1>9. WeakOrderBut(R, L, n)
  BY <1>5, <1>7, <1>8 DEF WeakOrderBut
<1> QED BY <1>9 DEF R, L, B, n

(* A set with two elements.                                                *)
LEMMA TwoOrMore ==
  ASSUME NEW S, IsFiniteSet(S), NEW x \in S, NEW y \in S, x # y
  PROVE  Cardinality(S) > 1
<1>1. Cardinality({x, y}) = 2 /\ IsFiniteSet({x, y})
  <2>1. IsFiniteSet({x}) /\ Cardinality({x}) = 1
    BY FS_Singleton
  <2>2. y \notin {x} /\ {x} \cup {y} = {x, y}
    OBVIOUS
  <2>3. Cardinality({x} \cup {y}) = Cardinality({x}) + 1 /\ IsFiniteSet({x} \cup {y})
    BY <2>1, <2>2, FS_AddElement
  <2> QED BY <2>1, <2>2, <2>3
<1>2. {x, y} \in SUBSET S
  OBVIOUS
<1>3. Cardinality({x, y}) <= Cardinality(S) /\ Cardinality(S) \in Nat
  BY <1>2, FS_Subset, FS_CardinalityType
<1> QED BY <1>1, <1>3

(* The blobs that are made of space points in the order of time.           *)
BlobsGood(o) ==
  /\ Disjoint(o)
  /\ \A b \in ToSet(o) : \E q \in b : b \subseteq Window(q)
  /\ \A q \in spacePoints :
       \/ \E b \in ToSet(o) : q \in b
       \/ \E b \in ToSet(o) : b \cap (Window(q) \ {q}) # {} /\ Tighter(b, Window(q))

(* Those chosen of the sorted candidates are such.                         *)
LEMMA BlobsMade ==
  ASSUME IsFiniteSet(spacePoints), \A c \in spacePoints : PointTime(c) \in Int,
         NEW sps \in OrderSpacePoints(spacePoints),
         NEW o, o = ChoseObjects(InsertionSort(CreateBlobCandidates(sps), SmallerError))
  PROVE  BlobsGood(o) /\ o \in Seq(SUBSET spacePoints)
<1> DEFINE n == Cardinality(spacePoints)
           V == SUBSET spacePoints
           seq == CreateBlobCandidates(sps)
           B == {x \in V \X V : SmallerError(x[1], x[2])}
           R == OrderOf(seq, B)
           L == {i \in 1 .. n : Cardinality(seq[i]) <= 1}
           w == Grain * ObjectTimeRequirement
           T == [k \in 1 .. n |-> PointTime(sps[k])]
<1>1. n \in Nat /\ InTime(sps, spacePoints, n)
  BY PointsInTime
<1>2. /\ sps \in [1 .. n -> spacePoints] /\ \A c \in spacePoints : \E k \in 1 .. n : sps[k] = c
      /\ \A j, k \in 1 .. n : sps[j] = sps[k] => j = k
      /\ \A j, k \in 1 .. n : j < k => PointTime(sps[j]) <= PointTime(sps[k])
  BY <1>1 DEF InTime
<1>3. w \in Nat
  BY ObjectAssumption
<1>4. T \in [1 .. n -> Int] /\ \A k \in 1 .. n : T[k] = PointTime(sps[k])
  BY <1>2
<1> HIDE DEF n, T
<1>5. \A j, k \in 1 .. n : j <= k => T[j] <= T[k]
  <2> SUFFICES ASSUME NEW j \in 1 .. n, NEW k \in 1 .. n, j <= k PROVE T[j] <= T[k]
    OBVIOUS
  <2>1. T[j] \in Int /\ T[k] \in Int
    BY <1>4
  <2> QED BY <1>2, <1>4, <2>1
<1>6. seq \in Seq(V) /\ Len(seq) = n /\ \A i \in 1 .. n : IsWindow(seq[i], sps, i, n)
  BY <1>1, BlobCandidates
<1> HIDE DEF seq, w
<1>7. \A i, k \in 1 .. n : sps[k] \in seq[i] <=> i <= k /\ T[k] - T[i] <= w
  BY <1>4, <1>6 DEF IsWindow, WithinTime, TimeDiff, w
<1>8. \A i \in 1 .. n : sps[i] \in seq[i] /\ seq[i] \subseteq spacePoints /\ IsFiniteSet(seq[i])
  <2> SUFFICES ASSUME NEW i \in 1 .. n
               PROVE  sps[i] \in seq[i] /\ seq[i] \subseteq spacePoints /\ IsFiniteSet(seq[i])
    OBVIOUS
  <2>1. seq[i] \in V
    BY <1>6
  <2>2. IsFiniteSet(seq[i])
    BY <2>1, FS_Subset
  <2> QED BY <1>6, <2>1, <2>2 DEF IsWindow
<1>9. WeakOrderBut(R, L, n)
  <2>1. \A b \in V : IsFiniteSet(b) /\ \A c \in b : PointTime(c) \in Int
    BY FS_Subset
  <2>2. WeakOrderBut(OrderOf(seq, {x \in V \X V : SmallerError(x[1], x[2])}),
                      {i \in 1 .. Len(seq) : Cardinality(seq[i]) <= 1}, Len(seq))
    <3> HIDE DEF V, R, L, B
    <3> QED BY <1>6, <2>1, ErrorsOrder
  <2> QED BY <1>6, <2>2
<1>10. PICK d : InsertsAll(d, seq, B) /\ InsertionSort(seq, SmallerError) = d[Len(seq)]
  <2>1. \E d : /\ InsertsAll(d, seq, {x \in V \X V : SmallerError(x[1], x[2])})
               /\ InsertionSort(seq, SmallerError) = d[Len(seq)]
    <3> HIDE DEF V, R, L, B
    <3> QED BY <1>6, BlobsInserted
  <2> QED BY <2>1
<1>11. \A i, j \in 1 .. n : <<i, j>> \in R <=> SmallerError(seq[i], seq[j])
  <2>1. \A i \in 1 .. n : seq[i] \in V
    BY <1>8
  <2> HIDE DEF V
  <2> QED BY <1>6, <2>1 DEF OrderOf
<1>12. \A i \in 1 .. n : i \in L <=> Cardinality(seq[i]) <= 1
  OBVIOUS
<1> HIDE DEF B, L
<1>13. PICK p \in Seq(Nat) : Sorts(p, n, R, L) /\ d[n] = Arranged(seq, p, n)
  <2>1. \E p \in Seq(Nat) : Sorts(p, Len(seq), R, L) /\ d[Len(seq)] = Arranged(seq, p, Len(seq))
    <3> HIDE DEF V
    <3>1. PICK r : r = R
      OBVIOUS
    <3>2. r = OrderOf(seq, B) /\ WeakOrderBut(r, L, Len(seq)) /\ InsertsAll(d, seq, B) /\ seq \in Seq(V)
      BY <1>6, <1>9, <1>10, <3>1
    <3> QED BY ONLY <3>1, <3>2, SortedInTurn
  <2> QED BY <1>6, <2>1
<1> HIDE DEF R
<1> DEFINE sorted == d[n]
<1>14. /\ p \in [1 .. n -> 1 .. n] /\ \A i \in 1 .. n : \E k \in 1 .. n : p[k] = i
  BY <1>13 DEF Sorts, EachOnce
<1>15. DOMAIN sorted = 1 .. n /\ \A k \in 1 .. n : sorted[k] = seq[p[k]]
  BY <1>13 DEF Arranged
<1>16. sorted \in Seq(V) /\ Len(sorted) = n
  <2>1. \A k \in 1 .. n : sorted[k] \in V
    BY <1>8, <1>14, <1>15
  <2>2. sorted = [k \in 1 .. n |-> sorted[k]]
    BY <1>13 DEF Arranged
  <2> HIDE DEF sorted, V
  <2>3. sorted \in [1 .. n -> V]
    BY <2>1, <2>2
  <2> QED BY <1>1, <2>3
<1>17. Chosen(o, sorted, n)
  <2>1. o = ChoseObjects(sorted)
    BY <1>6, <1>10 DEF seq
  <2> HIDE DEF V, sorted
  <2> QED BY <1>16, <2>1, ObjectsChosen
<1> HIDE DEF sorted, V
<1>18. /\ Disjoint(o)
       /\ \A i \in 1 .. Len(o) : \E k \in 1 .. n : o[i] = seq[p[k]]
       /\ \A k \in 1 .. n :
            \/ seq[p[k]] \in ToSet(o)
            \/ \E j \in 1 .. n : j < k /\ seq[p[j]] \in ToSet(o) /\ seq[p[j]] \cap seq[p[k]] # {}
  BY <1>15, <1>17 DEF Chosen
<1>19. DOMAIN o = 1 .. Len(o)
  <2>1. o = ChoseObjects(sorted)
    BY <1>6, <1>10 DEF seq, sorted
  <2>2. o \in Seq(V)
    BY <1>16, <2>1, ObjectsChosen
  <2> QED BY <2>2
<1>20. ASSUME NEW b \in ToSet(o) PROVE \E i \in 1 .. n : b = seq[i]
  <2>1. PICK j \in 1 .. Len(o) : b = o[j]
    BY <1>19 DEF ToSet
  <2>2. PICK k \in 1 .. n : o[j] = seq[p[k]]
    BY <1>18
  <2>3. p[k] \in 1 .. n
    BY <1>14
  <2> QED BY <2>1, <2>2, <2>3
<1>21. ASSUME NEW q \in spacePoints, NEW x \in spacePoints
       PROVE  TimeDiff(q, x) \in 0 .. w <=> PointTime(q) <= PointTime(x) /\ PointTime(x) - PointTime(q) <= w
  <2>1. PICK a \in Int, b \in Int : a = PointTime(q) /\ b = PointTime(x)
    OBVIOUS
  <2> QED BY <1>3, <2>1 DEF TimeDiff
<1>22. ASSUME NEW i \in 1 .. n PROVE seq[i] \subseteq Window(sps[i])
  <2> SUFFICES ASSUME NEW x \in seq[i] PROVE x \in Window(sps[i])
    OBVIOUS
  <2>1. x \in spacePoints /\ sps[i] \in spacePoints
    BY <1>2, <1>8
  <2>2. PICK k \in 1 .. n : sps[k] = x
    BY <1>2, <2>1
  <2>3. T[i] <= T[k] /\ T[k] - T[i] <= w
    BY <1>5, <1>7, <2>2
  <2> QED BY <1>4, <1>21, <2>1, <2>2, <2>3 DEF Window, w
<1>23. ASSUME NEW q \in spacePoints PROVE \E i \in 1 .. n : q \in seq[i] /\ seq[i] = Window(q)
  <2> DEFINE I == {k \in 1 .. n : PointTime(sps[k]) = PointTime(q)}
  <2>1. I \subseteq 0 .. n /\ I # {}
    BY <1>2
  <2>2. PICK i \in I : \A k \in 0 .. n : k < i => k \notin I
    <3> HIDE DEF I
    <3> QED BY <1>1, <2>1, LeastOf
  <2>3. i \in 1 .. n /\ T[i] = PointTime(q) /\ \A k \in 1 .. n : k < i => T[k] # T[i]
    BY <1>4, <2>2
  <2> HIDE DEF I
  <2>4. ASSUME NEW x \in spacePoints PROVE x \in seq[i] <=> x \in Window(q)
    <3>1. PICK k \in 1 .. n : sps[k] = x
      BY <1>2
    <3>2. T[k] = PointTime(x) /\ T[k] \in Int /\ T[i] \in Int
      BY <1>4, <2>3, <3>1
    <3>3. x \in seq[i] <=> i <= k /\ T[k] - T[i] <= w
      BY <1>7, <2>3, <3>1
    <3>4. i <= k <=> T[i] <= T[k]
      <4>1. k < i => T[k] <= T[i] /\ T[k] # T[i]
        BY <1>5, <2>3
      <4> QED BY <1>5, <2>3, <3>2, <4>1
    <3>5. x \in Window(q) <=> T[i] <= T[k] /\ T[k] - T[i] <= w
      BY <1>21, <2>3, <3>2 DEF Window, w
    <3> QED BY <3>3, <3>4, <3>5
  <2>5. seq[i] = Window(q)
    BY <1>8, <2>3, <2>4 DEF Window
  <2>6. q \in Window(q)
    <3>1. PICK a \in Int : a = PointTime(q)
      OBVIOUS
    <3> QED BY <1>3, <1>21, <3>1 DEF Window, w
  <2> QED BY <2>3, <2>5, <2>6
<1>24. ASSUME NEW i \in 1 .. n, NEW j \in 1 .. n
       PROVE  seq[i] \cap seq[j] # {} <=> Meet(T, w, n, i, j)
  <2>1. ASSUME seq[i] \cap seq[j] # {} PROVE Meet(T, w, n, i, j)
    <3>1. PICK x : x \in seq[i] /\ x \in seq[j]
      BY <2>1
    <3>2. PICK m \in 1 .. n : sps[m] = x
      BY <1>2, <1>8, <3>1
    <3> QED BY <1>7, <3>1, <3>2 DEF Meet
  <2>2. ASSUME Meet(T, w, n, i, j) PROVE seq[i] \cap seq[j] # {}
    BY <1>7, <2>2 DEF Meet
  <2> QED BY <2>1, <2>2
<1> DEFINE O == {i \in 1 .. n : seq[i] \in ToSet(o)}
<1>25. \A i : i \in O <=> i \in 1 .. n /\ seq[i] \in ToSet(o)
  OBVIOUS
<1> HIDE DEF O
<1>26. \A a \in 1 .. n : \/ p[a] \in O
                         \/ \E j \in 1 .. n : j < a /\ p[j] \in O /\ Meet(T, w, n, p[j], p[a])
  <2> SUFFICES ASSUME NEW a \in 1 .. n, p[a] \notin O
               PROVE  \E j \in 1 .. n : j < a /\ p[j] \in O /\ Meet(T, w, n, p[j], p[a])
    OBVIOUS
  <2>1. \A k \in 1 .. n : p[k] \in 1 .. n
    BY <1>14
  <2>2. PICK j \in 1 .. n : j < a /\ seq[p[j]] \in ToSet(o) /\ seq[p[j]] \cap seq[p[a]] # {}
    BY <1>18, <1>25, <2>1
  <2>3. p[j] \in O /\ Meet(T, w, n, p[j], p[a])
    BY <1>24, <1>25, <2>1, <2>2
  <2> QED BY <2>2, <2>3
<1>27. \A i \in L : \A k \in 1 .. n : i < k => T[k] - T[i] > w
  <2> SUFFICES ASSUME NEW i \in L, NEW k \in 1 .. n, i < k, ~(T[k] - T[i] > w) PROVE FALSE
    OBVIOUS
  <2>1. i \in 1 .. n /\ Cardinality(seq[i]) <= 1
    BY <1>9, <1>12 DEF WeakOrderBut
  <2>2. T[k] \in Int /\ T[i] \in Int
    BY <1>4, <2>1
  <2>3. sps[k] \in seq[i] /\ sps[i] \in seq[i] /\ sps[k] # sps[i]
    BY <1>2, <1>3, <1>7, <1>8, <2>1, <2>2
  <2>4. Cardinality(seq[i]) > 1
    BY <1>8, <2>1, <2>3, TwoOrMore
  <2>5. Cardinality(seq[i]) \in Nat
    BY <1>8, <2>1, FS_CardinalityType
  <2> QED BY <2>1, <2>4, <2>5
<1>28. ASSUME NEW q \in spacePoints, \A b \in ToSet(o) : q \notin b
       PROVE  \E b \in ToSet(o) : b \cap (Window(q) \ {q}) # {} /\ Tighter(b, Window(q))
  <2>1. PICK i \in 1 .. n : q \in seq[i] /\ seq[i] = Window(q)
    BY <1>23
  <2>2. i \notin O
    BY <1>25, <1>28, <2>1
  <2>3. PICK r \in O : r \in 1 .. n /\ r \notin L /\ Meet(T, w, n, r, i) /\ <<i, r>> \notin R
    <3>1. ChosenByTime(n, T, w, R, L, p, O) /\ i \in 1 .. n /\ i \notin O
      BY <1>1, <1>3, <1>4, <1>5, <1>9, <1>13, <1>26, <1>27, <2>2 DEF ChosenByTime
    <3>2. HasBetter(n, T, w, R, L, O, i)
      BY ONLY <3>1, BlockedByBetter
    <3> QED BY <3>2 DEF HasBetter
  <2>4. seq[r] \in ToSet(o) /\ seq[r] \cap seq[i] # {} /\ q \notin seq[r]
    BY <1>24, <1>25, <1>28, <2>3
  <2>5. seq[r] \cap (Window(q) \ {q}) # {}
    BY <2>1, <2>4
  <2>6. Cardinality(seq[r]) > 1
    <3>1. Cardinality(seq[r]) \in Nat
      BY <1>8, <2>3, FS_CardinalityType
    <3> QED BY <1>12, <2>3, <3>1
  <2>7. Cardinality(seq[i]) > 1
    <3>1. PICK x : x \in seq[i] /\ x # q
      BY <2>1, <2>5
    <3> QED BY <1>8, <2>1, <3>1, TwoOrMore
  <2>8. ~SmallerError(seq[i], seq[r])
    BY <1>11, <2>3
  <2>9. Spread(seq[r]) * SpreadOver(seq[i]) <= Spread(seq[i]) * SpreadOver(seq[r])
    <3>1. /\ Spread(seq[r]) \in Int /\ SpreadOver(seq[i]) \in Nat
          /\ Spread(seq[i]) \in Int /\ SpreadOver(seq[r]) \in Nat
      <4>1. \A k \in 1 .. n : IsFiniteSet(seq[k]) /\ \A c \in seq[k] : PointTime(c) \in Int
        BY <1>8
      <4> QED BY <2>3, <2>6, <2>7, <4>1, SpreadTyped
    <3>2. ~(Spread(seq[i]) * SpreadOver(seq[r]) < Spread(seq[r]) * SpreadOver(seq[i]))
      BY <2>6, <2>7, <2>8 DEF SmallerError
    <3>3. PICK a \in Int, b \in Int, c \in Int, e \in Int :
            a = Spread(seq[r]) /\ b = SpreadOver(seq[i]) /\ c = Spread(seq[i]) /\ e = SpreadOver(seq[r])
      BY <3>1
    <3>4. PICK u \in Int, v \in Int : u = a * b /\ v = c * e
      OBVIOUS
    <3>5. ~(v < u)
      BY <3>2, <3>3, <3>4
    <3>6. u <= v
      BY <3>5
    <3> QED BY <3>3, <3>4, <3>6
  <2> QED BY <2>1, <2>4, <2>5, <2>6, <2>9 DEF Tighter
<1>29. \A b \in ToSet(o) : \E q \in b : b \subseteq Window(q)
  BY <1>8, <1>20, <1>22
<1>30. o \in Seq(V)
  <2>1. o = ChoseObjects(sorted)
    BY <1>6, <1>10 DEF seq, sorted
  <2> QED BY <1>16, <2>1, ObjectsChosen
<1> QED BY <1>18, <1>28, <1>29, <1>30 DEF BlobsGood, V

-----------------------------------------------------------------------------
(* The flight time of light is a number, however far apart the points.     *)
LightTravels == \A s \in SUBSET SUBSET Strips : FlightTime(s) \in Int

(* Then so is a track's agreement with it.                                 *)
LEMMA AgreementTyped ==
  ASSUME LightTravels, NEW t, IsFiniteSet(t), t # {},
         \A c \in t : PointTime(c) \in Int /\ \A h \in c : h.strip \in Strips
  PROVE  ToFAgreement(t) \in Int
<1> DEFINE S == {PointTime(c) : c \in t}
           g == [c \in t |-> PointTime(c)]
           F == {StripsOfPoint(c) : c \in t}
<1>1. IsFiniteSet(S)
  <2>1. S = {g[c] : c \in t}
    OBVIOUS
  <2> HIDE DEF g, S
  <2> QED BY <2>1, ImageOf
<1>2. S # {} /\ \A x \in S : x \in Int
  OBVIOUS
<1>3. Max(S) \in S /\ Min(S) \in S
  <2> HIDE DEF S
  <2> QED BY <1>1, <1>2, Extremes
<1>4. Max(S) \in Int /\ Min(S) \in Int
  <2> HIDE DEF S
  <2> QED BY <1>2, <1>3
<1>5. FlightTime(F) \in Int
  <2>1. \A c \in t : StripsOfPoint(c) \in SUBSET Strips
    BY DEF StripsOfPoint
  <2>2. F \in SUBSET SUBSET Strips
    BY <2>1
  <2> HIDE DEF F
  <2> QED BY <2>2 DEF LightTravels
<1>6. PICK a \in Int, b \in Int, c \in Int, e \in Nat : a = Max(S) /\ b = Min(S) /\ c = FlightTime(F) /\ e = Grain
  BY <1>4, <1>5, ObjectAssumption
<1>7. ToF(t) = a - b
  BY <1>6 DEF ToF
<1>8. PICK f \in Int : f = e * c
  OBVIOUS
<1>9. ToFAgreement(t) = IF (a - b) - f < 0 THEN -((a - b) - f) ELSE (a - b) - f
  <2> HIDE DEF S
  <2> QED BY <1>6, <1>7, <1>8 DEF ToFAgreement
<1> QED BY <1>9

(* The tracks' order is one on all of them.                                *)
LEMMA TracksOrder ==
  ASSUME NEW V, NEW seq \in Seq(V), \A t \in V : Cardinality(t) \in Nat /\ ToFAgreement(t) \in Int
  PROVE  WeakOrderBut(OrderOf(seq, {x \in V \X V : ComesFirst(x[1], x[2])}), {}, Len(seq))
<1> DEFINE n == Len(seq)
           B == {x \in V \X V : ComesFirst(x[1], x[2])}
           R == OrderOf(seq, B)
<1>1. n \in Nat /\ \A i \in 1 .. n : seq[i] \in V
  OBVIOUS
<1>2. \A i, j \in 1 .. n : <<i, j>> \in R <=> ComesFirst(seq[i], seq[j])
  <2> HIDE DEF n
  <2> QED BY <1>1 DEF OrderOf, n
<1>3. \A i \in 1 .. n : Cardinality(seq[i]) \in Nat /\ ToFAgreement(seq[i]) \in Int
  BY <1>1
<1> HIDE DEF R, B, n
<1>4. \A i, j \in 1 .. n : <<i, j>> \in R => <<j, i>> \notin R
  BY <1>2, <1>3 DEF ComesFirst
<1>5. \A i, j, k \in 1 .. n : <<i, j>> \in R => <<i, k>> \in R \/ <<k, j>> \in R
  <2> SUFFICES ASSUME NEW i \in 1 .. n, NEW j \in 1 .. n, NEW k \in 1 .. n, ComesFirst(seq[i], seq[j])
               PROVE  ComesFirst(seq[i], seq[k]) \/ ComesFirst(seq[k], seq[j])
    BY <1>2
  <2> QED BY <1>3 DEF ComesFirst
<1>6. WeakOrderBut(R, {}, n)
  BY <1>4, <1>5 DEF WeakOrderBut
<1> QED BY <1>6 DEF R, B, n

(* How many points a track has.                                            *)
LEMMA PairsAndTriples ==
  /\ \A x, y : IsFiniteSet({x, y}) /\ Cardinality({x, y}) = IF x = y THEN 1 ELSE 2
  /\ \A x, y, z : /\ IsFiniteSet(Three(x, y, z))
                  /\ x # y /\ x # z /\ y # z => Cardinality(Three(x, y, z)) = 3
  /\ \A S : IsFiniteSet(S) /\ Cardinality(S) = 2 => \E x, y \in S : x # y /\ S = {x, y}
<1>1. \A x, y : IsFiniteSet({x, y}) /\ Cardinality({x, y}) = IF x = y THEN 1 ELSE 2
  <2> SUFFICES ASSUME NEW x, NEW y
               PROVE  IsFiniteSet({x, y}) /\ Cardinality({x, y}) = IF x = y THEN 1 ELSE 2
    OBVIOUS
  <2>1. IsFiniteSet({x}) /\ Cardinality({x}) = 1 /\ {x} \cup {y} = {x, y} /\ (y \in {x} <=> x = y)
    BY FS_Singleton
  <2>2. /\ IsFiniteSet({x} \cup {y})
        /\ Cardinality({x} \cup {y}) = IF y \in {x} THEN Cardinality({x}) ELSE Cardinality({x}) + 1
    BY <2>1, FS_AddElement
  <2> QED BY <2>1, <2>2
<1>2. \A x, y, z : /\ IsFiniteSet(Three(x, y, z))
                   /\ x # y /\ x # z /\ y # z => Cardinality(Three(x, y, z)) = 3
  <2> SUFFICES ASSUME NEW x, NEW y, NEW z
               PROVE  /\ IsFiniteSet(Three(x, y, z))
                      /\ x # y /\ x # z /\ y # z => Cardinality(Three(x, y, z)) = 3
    OBVIOUS
  <2>1. {x, y} \cup {z} = Three(x, y, z) /\ (z \in {x, y} <=> x = z \/ y = z)
    BY DEF Three
  <2>2. /\ IsFiniteSet({x, y} \cup {z})
        /\ z \notin {x, y} => Cardinality({x, y} \cup {z}) = Cardinality({x, y}) + 1
    <3>1. IsFiniteSet({x, y})
      BY <1>1
    <3>2. PICK S : S = {x, y}
      OBVIOUS
    <3>3. IsFiniteSet(S \cup {z}) /\ (z \notin S => Cardinality(S \cup {z}) = Cardinality(S) + 1)
      BY <3>1, <3>2, FS_AddElement
    <3> QED BY <3>2, <3>3
  <2>3. x # y => Cardinality({x, y}) = 2
    BY <1>1
  <2> QED BY <2>1, <2>2, <2>3
<1>3. ASSUME NEW S, IsFiniteSet(S), Cardinality(S) = 2
      PROVE  \E x, y \in S : x # y /\ S = {x, y}
  <2>1. PICK x \in S : TRUE
    BY <1>3, FS_EmptySet
  <2>2. IsFiniteSet(S \ {x}) /\ Cardinality(S \ {x}) = 1
    BY <1>3, <2>1, FS_RemoveElement
  <2>3. PICK y : S \ {x} = {y}
    BY <2>2, FS_Singleton
  <2>4. y \in S /\ x # y /\ S = {x, y}
    BY <2>1, <2>3
  <2> QED BY <2>1, <2>4
<1> QED BY <1>1, <1>2, <1>3

(* A candidate is a track.                                                 *)
LEMMA CandidateIsTrack ==
  ASSUME NEW n \in Nat, NEW sps, InTime(sps, Trackable, n), \A c \in Trackable : PointTime(c) \in Int,
         NEW t, IsCandidate(t, sps, n)
  PROVE  /\ t \subseteq Trackable /\ t # {} /\ IsFiniteSet(t)
         /\ Cardinality(t) \in {2, 3} /\ CouldBeTrack(t)
<1> DEFINE w == Grain * ObjectTimeRequirement
<1>1. PICK i \in 1 .. n, ii \in 1 .. n : i < ii /\ OfPair(t, sps, i, ii, n)
  BY DEF IsCandidate
<1>2. \A k \in 1 .. n : sps[k] \in Trackable /\ PointTime(sps[k]) \in Int
  BY DEF InTime
<1>3. w \in Nat
  BY ObjectAssumption
<1>4. \A j, k \in 1 .. n : j < k => PointTime(sps[j]) <= PointTime(sps[k])
  BY DEF InTime
<1>5. ASSUME NEW j \in 1 .. n, NEW k \in 1 .. n, j < k, IsPair(sps[j], sps[k])
      PROVE  /\ TimeDiff(sps[j], sps[k]) <= w /\ TimeDiff(sps[k], sps[j]) <= w
             /\ TaggerOfPoint(sps[j]) # TaggerOfPoint(sps[k])
  <2>1. PICK a \in Int, b \in Int : a = PointTime(sps[j]) /\ b = PointTime(sps[k])
    BY <1>2
  <2>2. a <= b /\ TimeDiff(sps[j], sps[k]) = b - a /\ TimeDiff(sps[k], sps[j]) = a - b
    BY <1>4, <1>5, <2>1 DEF TimeDiff
  <2>3. b - a <= w /\ TaggerOfPoint(sps[j]) # TaggerOfPoint(sps[k])
    BY <1>5, <2>2 DEF IsPair, WithinTime
  <2> HIDE DEF w
  <2> QED BY <1>3, <2>2, <2>3
<1>6. \A k \in 1 .. n : TimeDiff(sps[k], sps[k]) <= w
  <2> SUFFICES ASSUME NEW k \in 1 .. n PROVE TimeDiff(sps[k], sps[k]) <= w
    OBVIOUS
  <2>1. PICK a \in Int : a = PointTime(sps[k])
    BY <1>2
  <2> HIDE DEF w
  <2> QED BY <1>3, <2>1 DEF TimeDiff
<1> DEFINE p == sps[i]
           q == sps[ii]
<1>7. IsPair(p, q)
  BY <1>1 DEF OfPair
<1>8. p \in Trackable /\ q \in Trackable
  BY <1>2
<1>9. /\ TimeDiff(p, q) <= w /\ TimeDiff(q, p) <= w /\ TaggerOfPoint(p) # TaggerOfPoint(q)
      /\ TimeDiff(p, p) <= w /\ TimeDiff(q, q) <= w
  BY <1>1, <1>5, <1>6, <1>7
<1>10. CASE t = {p, q}
  <2> HIDE DEF p, q, w
  <2>1. t \subseteq Trackable /\ t # {} /\ p # q
    BY <1>8, <1>9, <1>10
  <2>2. IsFiniteSet(t) /\ Cardinality(t) = 2
    BY <1>10, <2>1, PairsAndTriples
  <2>3. \A x, y \in t : x # y => TaggerOfPoint(x) # TaggerOfPoint(y)
    BY <1>9, <1>10
  <2>4. \A x, y \in t : TimeDiff(x, y) <= w
    BY <1>9, <1>10
  <2>5. CouldBeTrack(t)
    BY <2>2, <2>3, <2>4 DEF CouldBeTrack, w
  <2> QED BY <2>1, <2>2, <2>5
<1>11. CASE t # {p, q}
  <2>1. PICK k \in 1 .. n : ii < k /\ IsTriple(p, q, sps[k]) /\ t = Three(p, q, sps[k])
    BY <1>1, <1>11 DEF OfPair
  <2>2. PICK r : r = sps[k]
    OBVIOUS
  <2>3. /\ r \in Trackable /\ TimeDiff(r, r) <= w
        /\ TimeDiff(p, r) <= w /\ TimeDiff(r, p) <= w /\ TaggerOfPoint(p) # TaggerOfPoint(r)
        /\ TimeDiff(q, r) <= w /\ TimeDiff(r, q) <= w /\ TaggerOfPoint(q) # TaggerOfPoint(r)
    <3>1. i < k /\ ii < k /\ IsPair(sps[i], sps[k]) /\ IsPair(sps[ii], sps[k])
      BY <1>1, <2>1 DEF IsTriple
    <3> QED BY <1>2, <1>5, <1>6, <2>2, <3>1
  <2> HIDE DEF p, q, w
  <2>4. p # q /\ p # r /\ q # r
    BY <1>9, <2>3
  <2>5. t \subseteq Trackable /\ t # {} /\ \A x : x \in t <=> x = p \/ x = q \/ x = r
    BY <1>8, <2>1, <2>2, <2>3 DEF Three
  <2>6. IsFiniteSet(t) /\ Cardinality(t) = 3
    BY <2>1, <2>2, <2>4, PairsAndTriples
  <2>7. \A x, y \in t : x # y => TaggerOfPoint(x) # TaggerOfPoint(y)
    BY <1>9, <2>3, <2>5
  <2>8. \A x, y \in t : TimeDiff(x, y) <= w
    BY <1>9, <2>3, <2>5
  <2>9. TopTaggers \subseteq {TaggerOfPoint(c) : c \in t}
    BY <2>1, <2>2 DEF IsTriple, Three
  <2>10. CouldBeTrack(t)
    BY <2>7, <2>8, <2>9 DEF CouldBeTrack, w
  <2> QED BY <2>5, <2>6, <2>10
<1> QED BY <1>10, <1>11

(* What could be a track is a candidate.                                   *)
LEMMA TrackIsCandidate ==
  ASSUME NEW n \in Nat, NEW sps, InTime(sps, Trackable, n), \A c \in Trackable : PointTime(c) \in Int,
         NEW t \in SUBSET Trackable, IsFiniteSet(t), CouldBeTrack(t),
         Cardinality(t) = 2 \/ (Cardinality(t) = 3 /\ InLineInTime(t))
  PROVE  IsCandidate(t, sps, n)
<1>1. /\ \A c \in Trackable : \E k \in 1 .. n : sps[k] = c
      /\ \A j, k \in 1 .. n : j < k => PointTime(sps[j]) <= PointTime(sps[k])
  BY DEF InTime
<1>2. \A x, y \in t : x # y => IsPair(x, y)
  BY DEF CouldBeTrack, IsPair, WithinTime
<1>3. CASE Cardinality(t) = 2
  <2>1. PICK x \in t, y \in t : x # y /\ t = {x, y}
    BY <1>3, PairsAndTriples
  <2>2. PICK i \in 1 .. n, ii \in 1 .. n : sps[i] = x /\ sps[ii] = y
    BY <1>1
  <2>3. i # ii
    BY <2>1, <2>2
  <2>4. IsPair(x, y) /\ IsPair(y, x)
    BY <1>2, <2>1
  <2>5. CASE i < ii
    <3>1. OfPair(t, sps, i, ii, n)
      BY <2>1, <2>2, <2>4 DEF OfPair
    <3> QED BY <2>5, <3>1 DEF IsCandidate
  <2>6. CASE ii < i
    <3>1. t = {y, x}
      BY <2>1
    <3>2. OfPair(t, sps, ii, i, n)
      BY <2>2, <2>4, <3>1 DEF OfPair
    <3> QED BY <2>6, <3>2 DEF IsCandidate
  <2> QED BY <2>3, <2>5, <2>6
<1>4. CASE Cardinality(t) = 3 /\ InLineInTime(t)
  <2>1. PICK p \in t, q \in t, r \in t :
          /\ t = {p, q, r} /\ TimeDiff(p, q) > 0 /\ TimeDiff(q, r) > 0
          /\ InLine(StripsOfPoint(p), StripsOfPoint(q), StripsOfPoint(r))
    BY <1>4 DEF InLineInTime
  <2>2. PICK i \in 1 .. n, ii \in 1 .. n, k \in 1 .. n : sps[i] = p /\ sps[ii] = q /\ sps[k] = r
    BY <1>1
  <2>3. PICK a \in Int, b \in Int, c \in Int : a = PointTime(p) /\ b = PointTime(q) /\ c = PointTime(r)
    OBVIOUS
  <2>4. a < b /\ b < c
    BY <2>1, <2>3 DEF TimeDiff
  <2>5. i < ii /\ ii < k
    <3>1. i # ii /\ ii # k
      BY <2>2, <2>3, <2>4
    <3>2. ~(ii < i) /\ ~(k < ii)
      BY <1>1, <2>2, <2>3, <2>4
    <3> QED BY <3>1, <3>2
  <2>6. p # q /\ q # r /\ p # r
    BY <2>3, <2>4
  <2>7. IsPair(p, q) /\ IsPair(p, r) /\ IsPair(q, r)
    BY <1>2, <2>6
  <2>8. TopTaggers \subseteq {TaggerOfPoint(x) : x \in {p, q, r}}
    BY <1>4, <2>1 DEF CouldBeTrack
  <2>9. IsTriple(p, q, r)
    BY <2>1, <2>7, <2>8 DEF IsTriple
  <2>10. t = Three(p, q, r)
    BY <2>1 DEF Three
  <2>11. OfPair(t, sps, i, ii, n)
    BY <2>2, <2>5, <2>7, <2>9, <2>10 DEF OfPair
  <2> QED BY <2>5, <2>11 DEF IsCandidate
<1> QED BY <1>3, <1>4

(* The tracks that are made of space points in the order of time.          *)
TracksGood(o) ==
  /\ Disjoint(o)
  /\ \A t \in ToSet(o) : t \subseteq Trackable /\ Cardinality(t) \in {2, 3} /\ CouldBeTrack(t)
  /\ \A t \in kSubset(2, Trackable) \cup kSubset(3, Trackable) :
       CouldBeTrack(t) /\ (Cardinality(t) = 3 => InLineInTime(t)) =>
         \E s \in ToSet(o) : s \cap t # {} /\ NoWorse(s, t)

(* Every candidate shares a point with a chosen one that is no worse: what *)
(* was chosen before it comes before it in the order.                      *)
LEMMA TracksMade ==
  ASSUME LightTravels, IsFiniteSet(Trackable),
         \A c \in Trackable : PointTime(c) \in Int /\ \A h \in c : h.strip \in Strips,
         NEW sps \in OrderSpacePoints(Trackable),
         NEW o, o = ChoseObjects(InsertionSort(CreateTrackCandidates(sps), ComesFirst))
  PROVE  TracksGood(o)
<1> DEFINE V == {t \in SUBSET Trackable : t # {}}
           seq == CreateTrackCandidates(sps)
           n == Len(seq)
           B == {x \in V \X V : ComesFirst(x[1], x[2])}
           R == OrderOf(seq, B)
           N == Cardinality(Trackable)
<1>1. N \in Nat /\ InTime(sps, Trackable, N)
  BY PointsInTime
<1>2. sps \in [1 .. N -> Trackable]
  BY <1>1 DEF InTime
<1>3. seq \in Seq(SUBSET Trackable) /\ \A t : t \in ToSet(seq) <=> IsCandidate(t, sps, N)
  <2> HIDE DEF N
  <2> QED BY <1>1, <1>2, TrackCandidates
<1> HIDE DEF N
<1>4. ASSUME NEW t \in ToSet(seq)
      PROVE  /\ t \subseteq Trackable /\ t # {} /\ IsFiniteSet(t)
             /\ Cardinality(t) \in {2, 3} /\ CouldBeTrack(t)
  BY <1>1, <1>3, CandidateIsTrack
<1> HIDE DEF seq
<1>5. n \in Nat /\ DOMAIN seq = 1 .. n
  BY <1>3
<1> HIDE DEF n
<1>6. \A k \in 1 .. n : seq[k] \in ToSet(seq) /\ seq[k] \in V
  <2>1. \A k \in 1 .. n : seq[k] \in ToSet(seq)
    BY <1>5 DEF ToSet
  <2> QED BY <1>4, <2>1
<1>7. seq \in Seq(V) /\ Len(seq) = n
  <2>1. seq = [k \in 1 .. n |-> seq[k]]
    BY <1>3, <1>5
  <2> HIDE DEF V
  <2>2. seq \in [1 .. n -> V]
    BY <1>6, <2>1
  <2> QED BY <1>5, <2>2
<1>8. \A t \in V : Cardinality(t) \in Nat /\ ToFAgreement(t) \in Int
  <2> SUFFICES ASSUME NEW t \in V PROVE Cardinality(t) \in Nat /\ ToFAgreement(t) \in Int
    OBVIOUS
  <2>1. IsFiniteSet(t) /\ t # {} /\ t \subseteq Trackable
    BY FS_Subset
  <2>2. Cardinality(t) \in Nat
    BY <2>1, FS_CardinalityType
  <2>3. ToFAgreement(t) \in Int
    BY <2>1, AgreementTyped
  <2> QED BY <2>2, <2>3
<1> HIDE DEF V
<1>9. WeakOrderBut(R, {}, n)
  <2>1. WeakOrderBut(OrderOf(seq, {x \in V \X V : ComesFirst(x[1], x[2])}), {}, Len(seq))
    BY <1>7, <1>8, TracksOrder
  <2> QED BY <1>7, <2>1
<1>10. PICK d : InsertsAll(d, seq, B) /\ InsertionSort(seq, ComesFirst) = d[Len(seq)]
  <2>1. \E d : /\ InsertsAll(d, seq, {x \in V \X V : ComesFirst(x[1], x[2])})
               /\ InsertionSort(seq, ComesFirst) = d[Len(seq)]
    BY <1>7, TracksInserted
  <2> QED BY <2>1
<1>11. \A i, j \in 1 .. n : <<i, j>> \in R <=> ComesFirst(seq[i], seq[j])
  <2>1. \A i \in 1 .. n : seq[i] \in V
    BY <1>6
  <2> QED BY <1>7, <2>1 DEF OrderOf
<1> HIDE DEF B
<1>12. PICK p \in Seq(Nat) : Sorts(p, n, R, {}) /\ d[n] = Arranged(seq, p, n)
  <2>1. \E p \in Seq(Nat) : Sorts(p, Len(seq), R, {}) /\ d[Len(seq)] = Arranged(seq, p, Len(seq))
    <3>1. PICK r, l : r = R /\ l = {}
      OBVIOUS
    <3>2. r = OrderOf(seq, B) /\ WeakOrderBut(r, l, Len(seq)) /\ InsertsAll(d, seq, B) /\ seq \in Seq(V)
      BY <1>7, <1>9, <1>10, <3>1
    <3> QED BY ONLY <3>1, <3>2, SortedInTurn
  <2> QED BY <1>7, <2>1
<1> HIDE DEF R
<1> DEFINE sorted == d[n]
<1>13. /\ p \in [1 .. n -> 1 .. n] /\ \A i \in 1 .. n : \E k \in 1 .. n : p[k] = i
       /\ PartedBy(p, n, R, {})
  BY <1>12 DEF Sorts, EachOnce
<1>14. DOMAIN sorted = 1 .. n /\ \A k \in 1 .. n : sorted[k] = seq[p[k]]
  BY <1>12 DEF Arranged
<1>15. sorted \in Seq(V) /\ Len(sorted) = n
  <2>1. \A k \in 1 .. n : sorted[k] \in V
    BY <1>6, <1>13, <1>14
  <2>2. sorted = [k \in 1 .. n |-> sorted[k]]
    BY <1>12 DEF Arranged
  <2> HIDE DEF sorted
  <2>3. sorted \in [1 .. n -> V]
    BY <2>1, <2>2
  <2> QED BY <1>5, <2>3
<1>16. o \in Seq(V) /\ Chosen(o, sorted, n)
  <2>1. o = ChoseObjects(sorted)
    BY <1>7, <1>10 DEF seq
  <2> HIDE DEF sorted
  <2> QED BY <1>15, <2>1, ObjectsChosen
<1> HIDE DEF sorted
<1>17. /\ Disjoint(o)
       /\ \A i \in 1 .. Len(o) : \E k \in 1 .. n : o[i] = seq[p[k]]
       /\ \A k \in 1 .. n :
            \/ seq[p[k]] \in ToSet(o)
            \/ \E j \in 1 .. n : j < k /\ seq[p[j]] \in ToSet(o) /\ seq[p[j]] \cap seq[p[k]] # {}
  BY <1>14, <1>16 DEF Chosen
<1>18. \A t \in ToSet(o) : t \in ToSet(seq)
  <2> SUFFICES ASSUME NEW t \in ToSet(o) PROVE t \in ToSet(seq)
    OBVIOUS
  <2>1. DOMAIN o = 1 .. Len(o)
    BY <1>16
  <2>2. PICK i \in 1 .. Len(o) : t = o[i]
    BY <2>1 DEF ToSet
  <2>3. PICK k \in 1 .. n : o[i] = seq[p[k]]
    BY <1>17, <2>2
  <2>4. p[k] \in 1 .. n
    BY <1>13, <2>3
  <2>5. seq[p[k]] \in ToSet(seq)
    BY <1>6, <2>4
  <2> QED BY <2>2, <2>3, <2>5
<1>19. ASSUME NEW t \in SUBSET Trackable, Cardinality(t) = 2 \/ Cardinality(t) = 3, CouldBeTrack(t),
              Cardinality(t) = 3 => InLineInTime(t)
       PROVE  \E s \in ToSet(o) : s \cap t # {} /\ NoWorse(s, t)
  <2>1. IsFiniteSet(t)
    BY FS_Subset
  <2>2. t \in ToSet(seq)
    <3>1. Cardinality(t) = 2 \/ (Cardinality(t) = 3 /\ InLineInTime(t))
      BY <1>19
    <3>2. IsCandidate(t, sps, N)
      BY <1>1, <1>19, <2>1, <3>1, TrackIsCandidate
    <3> QED BY <1>3, <3>2
  <2>3. PICK i \in 1 .. n : t = seq[i]
    BY <1>5, <2>2 DEF ToSet
  <2>4. PICK k \in 1 .. n : p[k] = i
    BY <1>13
  <2>5. Cardinality(t) \in Nat /\ ToFAgreement(t) \in Int
    BY <1>6, <1>8, <2>3
  <2>6. CASE t \in ToSet(o)
    <3>1. t \cap t # {}
      BY <1>4, <2>2
    <3>2. NoWorse(t, t)
      BY <2>5 DEF NoWorse
    <3> QED BY <2>6, <3>1, <3>2
  <2>7. CASE t \notin ToSet(o)
    <3>1. PICK j \in 1 .. n : j < k /\ seq[p[j]] \in ToSet(o) /\ seq[p[j]] \cap t # {}
      BY <1>17, <2>3, <2>4, <2>7
    <3>2. p[j] \in 1 .. n
      BY <1>13
    <3>3. <<i, p[j]>> \notin R
      BY <1>13, <2>4, <3>1 DEF PartedBy
    <3>4. ~ComesFirst(t, seq[p[j]])
      BY <1>11, <2>3, <3>2, <3>3
    <3>5. PICK s : s = seq[p[j]]
      OBVIOUS
    <3>6. Cardinality(s) \in Nat /\ ToFAgreement(s) \in Int
      BY <1>6, <1>8, <3>2, <3>5
    <3>7. NoWorse(s, t)
      <4>1. ~ComesFirst(t, s)
        BY <3>4, <3>5
      <4>2. PICK a \in Nat, b \in Nat, x \in Int, y \in Int :
              /\ a = Cardinality(s) /\ b = Cardinality(t)
              /\ x = ToFAgreement(s) /\ y = ToFAgreement(t)
        BY <2>5, <3>6
      <4>3. IF b # a THEN ~(b > a) ELSE ~(y < x)
        BY <4>1, <4>2 DEF ComesFirst
      <4>4. a > b \/ (a = b /\ x <= y)
        BY <4>3
      <4> QED BY <4>2, <4>4 DEF NoWorse
    <3> QED BY <3>1, <3>5, <3>7
  <2> QED BY <2>6, <2>7
<1>20. \A t \in ToSet(o) : t \subseteq Trackable /\ Cardinality(t) \in {2, 3} /\ CouldBeTrack(t)
  BY <1>4, <1>18
<1>21. \A t \in kSubset(2, Trackable) \cup kSubset(3, Trackable) :
         t \in SUBSET Trackable /\ (Cardinality(t) = 2 \/ Cardinality(t) = 3)
  BY DEF kSubset
<1> QED BY <1>17, <1>19, <1>20, <1>21 DEF TracksGood

(* Whatever their agreement, tracks are of space points.                   *)
LEMMA TracksOfPoints ==
  ASSUME IsFiniteSet(Trackable), \A c \in Trackable : PointTime(c) \in Int,
         NEW sps \in OrderSpacePoints(Trackable),
         NEW o, o = ChoseObjects(InsertionSort(CreateTrackCandidates(sps), ComesFirst))
  PROVE  o \in Seq(SUBSET Trackable) /\ \A t \in ToSet(o) : t # {} /\ t \subseteq Trackable
<1> DEFINE V == SUBSET Trackable
           seq == CreateTrackCandidates(sps)
           N == Cardinality(Trackable)
           B == {x \in V \X V : ComesFirst(x[1], x[2])}
<1>1. N \in Nat /\ InTime(sps, Trackable, N)
  BY PointsInTime
<1>2. sps \in [1 .. N -> Trackable]
  BY <1>1 DEF InTime
<1>3. seq \in Seq(V) /\ \A t : t \in ToSet(seq) <=> IsCandidate(t, sps, N)
  <2> HIDE DEF N
  <2> QED BY <1>1, <1>2, TrackCandidates
<1> HIDE DEF N
<1>4. \A t \in ToSet(seq) : t # {} /\ t \subseteq Trackable
  BY <1>1, <1>3, CandidateIsTrack
<1> HIDE DEF seq, V
<1>5. PICK d : InsertsAll(d, seq, B) /\ InsertionSort(seq, ComesFirst) = d[Len(seq)]
  <2>1. \E d : /\ InsertsAll(d, seq, {x \in V \X V : ComesFirst(x[1], x[2])})
               /\ InsertionSort(seq, ComesFirst) = d[Len(seq)]
    BY <1>3, TracksInserted
  <2> QED BY <2>1
<1> HIDE DEF B
<1>6. PICK s : s = d[Len(seq)]
  OBVIOUS
<1>7. s \in Seq(V) /\ ToSet(s) = ToSet(seq)
  BY <1>3, <1>5, <1>6, SameElements
<1>8. o \in Seq(V) /\ Chosen(o, s, Len(s))
  <2>1. o = ChoseObjects(s)
    BY <1>5, <1>6 DEF seq
  <2> QED BY <1>7, <2>1, ObjectsChosen
<1>9. \A t \in ToSet(o) : t \in ToSet(s)
  <2>1. DOMAIN o = 1 .. Len(o) /\ DOMAIN s = 1 .. Len(s)
    BY <1>7, <1>8
  <2> QED BY <1>8, <2>1 DEF Chosen, ToSet
<1> QED BY <1>4, <1>7, <1>8, <1>9 DEF V

-----------------------------------------------------------------------------
(* Times are of the configuration: where that stays they do.               *)
LEMMA TimesStay ==
  ASSUME UNCHANGED fConfig
  PROVE  \A c : PointTime(c)' = PointTime(c)
<1>1. \A h : HitTime(h)' = HitTime(h) /\ ClusterTime(h)' = ClusterTime(h)
  BY DEF HitTime, HitTime0, HitTime1, ClusterTime
<1>2. \A c : MapThenSumSet(HitTime, c)' = MapThenSumSet(HitTime, c)
  BY DEF MapThenSumSet, MapThenFoldSet, HitTime, HitTime0, HitTime1
<1>3. \A S : MapThenSumSet(LAMBDA p : MapThenSumSet(HitTime, p), S)'
               = MapThenSumSet(LAMBDA p : MapThenSumSet(HitTime, p), S)
  BY <1>2 DEF MapThenSumSet, MapThenFoldSet, HitTime, HitTime0, HitTime1
<1> SUFFICES ASSUME NEW c PROVE PointTime(c)' = PointTime(c)
  OBVIOUS
<1>4. ClusterTime(CHOOSE h \in c : TRUE)' = ClusterTime(CHOOSE h \in c : TRUE)
  BY <1>1
<1>5. CompletePairs(c)' = CompletePairs(c) /\ Halves(c)' = Halves(c)
  BY DEF Halves, CompletePairs
<1>6. MapThenSumSet(LAMBDA p : MapThenSumSet(HitTime, p), CompletePairs(c))'
        = MapThenSumSet(LAMBDA p : MapThenSumSet(HitTime, p), CompletePairs(c))
  BY <1>3, <1>5
<1> QED BY <1>4, <1>5, <1>6 DEF PointTime

(* So do errors,                                                           *)
LEMMA ErrorsStay ==
  ASSUME UNCHANGED fConfig
  PROVE  \A b : Spread(b)' = Spread(b) /\ SpreadOver(b)' = SpreadOver(b)
<1>1. \A S : MapThenSumSet(PointTime, S)' = MapThenSumSet(PointTime, S)
  BY DEF MapThenSumSet, MapThenFoldSet, PointTime, Halves, CompletePairs, HitTime, HitTime0, HitTime1,
         ClusterTime
<1>2. \A S : MapThenSumSet(LAMBDA c : PointTime(c) * PointTime(c), S)'
               = MapThenSumSet(LAMBDA c : PointTime(c) * PointTime(c), S)
  BY DEF MapThenSumSet, MapThenFoldSet, PointTime, Halves, CompletePairs, HitTime, HitTime0, HitTime1,
         ClusterTime
<1> QED BY <1>1, <1>2 DEF Spread, SpreadOver

(* windows, and with the space points what is said of the blobs.           *)
LEMMA BlobsStay ==
  ASSUME UNCHANGED <<fConfig, spacePoints>>
  PROVE  \A o : BlobsGood(o)' <=> BlobsGood(o)
<1> SUFFICES ASSUME NEW o PROVE BlobsGood(o)' <=> BlobsGood(o)
  OBVIOUS
<1>1. \A b : Window(b)' = Window(b)
  BY TimesStay DEF Window, TimeDiff
<1>2. \A a, b : Tighter(a, b)' <=> Tighter(a, b)
  BY ErrorsStay DEF Tighter
<1> QED BY <1>1, <1>2 DEF BlobsGood, Disjoint

(* And of the tracks.                                                      *)
LEMMA TracksStay ==
  ASSUME UNCHANGED <<fConfig, spacePoints>>
  PROVE  \A o : TracksGood(o)' <=> TracksGood(o)
<1>1. \A p, q : TimeDiff(p, q)' = TimeDiff(p, q)
  BY TimesStay DEF TimeDiff
<1>2. \A t : CouldBeTrack(t)' <=> CouldBeTrack(t)
  BY <1>1 DEF CouldBeTrack, TaggerOfPoint, TaggerOfHit, TaggerOfStrip
<1>3. \A t : InLineInTime(t)' <=> InLineInTime(t)
  BY <1>1 DEF InLineInTime, StripsOfPoint
<1>4. \A t : ToFAgreement(t)' = ToFAgreement(t)
  <2>1. \A t : {PointTime(c) : c \in t}' = {PointTime(c) : c \in t}
    BY TimesStay
  <2>2. \A t : ToF(t)' = ToF(t)
    BY <2>1 DEF ToF, Max, Min
  <2> QED BY <2>2 DEF ToFAgreement, StripsOfPoint
<1>5. \A s, t : NoWorse(s, t)' <=> NoWorse(s, t)
  BY <1>4 DEF NoWorse
<1>6. Trackable' = Trackable
  BY DEF Trackable, TaggerOfPoint, TaggerOfHit, TaggerOfStrip
<1> SUFFICES ASSUME NEW o PROVE TracksGood(o)' <=> TracksGood(o)
  OBVIOUS
<1> QED BY <1>2, <1>3, <1>5, <1>6 DEF TracksGood, Disjoint, kSubset

-----------------------------------------------------------------------------
(* Every step keeps what the products are made of: a group's clusters are  *)
(* sets of its hits,                                                       *)
LEMMA ClustersOfHits ==
  ASSUME NEW H, NEW c \in SplitCluster(H)
  PROVE  c # {} /\ c \subseteq H
<1>1. CASE \E h \in H : c = Overlaps(H, h)
  BY <1>1 DEF Overlaps, CheckOverlap
<1>2. CASE c # {} /\ c \subseteq H
  BY <1>2
<1> QED BY <1>1, <1>2 DEF SplitCluster

(* and what is later is made of what was before.                           *)
LEMMA ProductsKept ==
  ASSUME HitsTyped, ClusterInv, ProductInv, Next
  PROVE  ProductInv'
<1>1. /\ stage \notin Late \cup {"clusters"} => clusters = {}
      /\ stage \notin Late => spacePoints = {}
      /\ stage \notin {"blobs", "tracks", "done"} => veto.points = {}
      /\ stage \notin {"tracks", "done"} => blobs = <<>>
      /\ stage # "done" => tracks = <<>>
      /\ \A c \in clusters : c # {} /\ c \subseteq stripHits
      /\ \A c \in spacePoints : IsPoint(c)
      /\ veto.points \subseteq spacePoints
      /\ OfPoints(blobs) /\ OfPoints(tracks)
  BY DEF ProductInv
<1>2. ToSet(<<>>) = {} /\ NoVeto.points = {}
  BY DEF ToSet, NoVeto
<1>3. CASE Simulate \/ DecideFrames \/ ReadEvent
  <2>1. /\ UNCHANGED <<clusters, spacePoints, veto, blobs, tracks>>
        /\ stage \notin Late \cup {"clusters"} /\ stage' \notin Late \cup {"clusters"}
    BY <1>3 DEF Simulate, FillTaggers, NegativeTime, CreateData, LookAtStrip, EndTagger, StartTagger,
                eventVars, DecideFrames, ReadTiming, UnpackTiming, ShiftFrames, ReadEvent, recoVars,
                objectVars, Late
  <2>2. clusters = {} /\ spacePoints = {} /\ veto.points = {} /\ blobs = <<>> /\ tracks = <<>>
    BY <1>1, <2>1 DEF Late
  <2> QED BY <1>2, <2>1, <2>2 DEF ProductInv, OfPoints, Late
<1>4. CASE StripHits
  <2>1. /\ UNCHANGED <<clusters, spacePoints, veto, blobs, tracks>>
        /\ stage \notin Late \cup {"clusters"} /\ stage' \notin Late
    BY <1>4 DEF StripHits, ProduceStripHits, UnixTimestampsDiffer, objectVars, Late
  <2>2. clusters = {} /\ spacePoints = {} /\ veto.points = {} /\ blobs = <<>> /\ tracks = <<>>
    BY <1>1, <2>1 DEF Late
  <2> QED BY <1>2, <2>1, <2>2 DEF ProductInv, OfPoints, Late
<1>5. CASE Cluster /\ CreateCluster
  <2> DEFINE group == TimeGroup(TaggerHits)
  <2>1. /\ clusters' = clusters \cup SplitCluster(group) /\ stage = "clusters"
        /\ UNCHANGED <<stage, stripHits, spacePoints, veto, blobs, tracks>>
    BY <1>5 DEF Cluster, CreateCluster, objectVars
  <2>2. group \subseteq stripHits
    BY DEF TimeGroup, TaggerHits, ClusterInv
  <2> HIDE DEF group
  <2>3. \A c \in clusters' : c # {} /\ c \subseteq stripHits
    BY <1>1, <2>1, <2>2, ClustersOfHits
  <2>4. spacePoints = {} /\ veto.points = {} /\ blobs = <<>> /\ tracks = <<>>
    BY <1>1, <2>1 DEF Late
  <2> QED BY <1>2, <2>1, <2>3, <2>4 DEF ProductInv, OfPoints, Late
<1>6. CASE Cluster /\ ProduceSpacePoints
  <2>1. /\ spacePoints' = {c \in clusters : IsComplete(c) \/ IsSingleBottom(c)} /\ stage = "clusters"
        /\ stage' = "points" /\ UNCHANGED <<stripHits, clusters, veto, blobs, tracks>>
    BY <1>6 DEF Cluster, ProduceSpacePoints, objectVars
  <2>2. veto.points = {} /\ blobs = <<>> /\ tracks = <<>>
    BY <1>1, <2>1
  <2>3. \A c \in spacePoints' : c \in clusters /\ (IsComplete(c) \/ IsSingleBottom(c))
    BY <2>1
  <2>4. \A c \in spacePoints' : IsPoint(c)'
    BY <2>1, <2>3 DEF IsPoint, IsComplete, CompletePairs, IsSingleBottom, TaggerOfHit, TaggerOfStrip
  <2>5. OfPoints(blobs)' /\ OfPoints(tracks)'
    BY <1>2, <2>1, <2>2 DEF OfPoints
  <2> QED BY <1>1, <2>1, <2>2, <2>4, <2>5 DEF ProductInv, Late
<1>7. CASE Veto
  <2>1. /\ stage = "points" /\ stage' = "blobs"
        /\ UNCHANGED <<stripHits, clusters, spacePoints, blobs, tracks>>
        /\ veto' = NoVeto \/ veto' = VetoFlags({c \in spacePoints : InVetoWindow(c)})
    BY <1>7 DEF Veto, ProduceVeto, objectVars
  <2>2. veto'.points \subseteq spacePoints
    BY <1>2, <2>1 DEF VetoFlags
  <2>3. blobs = <<>> /\ tracks = <<>>
    BY <1>1, <2>1
  <2>4. \A c \in spacePoints : IsPoint(c)'
    BY <1>1, <2>1 DEF IsPoint, IsComplete, CompletePairs, IsSingleBottom, TaggerOfHit, TaggerOfStrip
  <2> QED BY <1>1, <1>2, <2>1, <2>2, <2>3, <2>4 DEF ProductInv, OfPoints, Late
<1>8. CASE Objects /\ ProduceBlobs
  <2>1. /\ stage = "blobs" /\ stage' = "tracks"
        /\ UNCHANGED <<stripHits, clusters, spacePoints, veto, tracks>>
    BY <1>8 DEF Objects, ProduceBlobs
  <2>2. PICK sps \in OrderSpacePoints(spacePoints) :
          blobs' = ChoseObjects(InsertionSort(CreateBlobCandidates(sps), SmallerError))
    BY <1>8 DEF ProduceBlobs
  <2>3. IsFiniteSet(spacePoints) /\ \A c \in spacePoints : PointTime(c) \in Int
    BY PointsTimed
  <2>4. PICK o : o = blobs'
    OBVIOUS
  <2>5. BlobsGood(o) /\ o \in Seq(SUBSET spacePoints)
    BY <2>2, <2>3, <2>4, BlobsMade
  <2>6. o \in Seq(SUBSET spacePoints) /\ \A b \in ToSet(o) : b # {} /\ b \subseteq spacePoints
    BY <2>5 DEF BlobsGood, Window
  <2>7. tracks = <<>>
    BY <1>1, <2>1
  <2>8. \A c \in spacePoints : IsPoint(c)'
    BY <1>1, <2>1 DEF IsPoint, IsComplete, CompletePairs, IsSingleBottom, TaggerOfHit, TaggerOfStrip
  <2> QED BY <1>1, <1>2, <2>1, <2>4, <2>6, <2>7, <2>8 DEF ProductInv, OfPoints, Late
<1>9. CASE Objects /\ ProduceTracks
  <2>1. /\ stage = "tracks" /\ stage' = "done"
        /\ UNCHANGED <<stripHits, clusters, spacePoints, veto, blobs>>
    BY <1>9 DEF Objects, ProduceTracks
  <2>2. PICK sps \in OrderSpacePoints(Trackable) :
          tracks' = ChoseObjects(InsertionSort(CreateTrackCandidates(sps), ComesFirst))
    BY <1>9 DEF ProduceTracks
  <2>3. IsFiniteSet(Trackable) /\ \A c \in Trackable : PointTime(c) \in Int
    BY PointsTimed, FS_Subset DEF Trackable
  <2>4. PICK o : o = tracks'
    OBVIOUS
  <2>5. o \in Seq(SUBSET Trackable) /\ \A t \in ToSet(o) : t # {} /\ t \subseteq Trackable
    BY <2>2, <2>3, <2>4, TracksOfPoints
  <2>6. o \in Seq(SUBSET spacePoints) /\ \A b \in ToSet(o) : b # {} /\ b \subseteq spacePoints
    <3>1. Trackable \subseteq spacePoints
      BY DEF Trackable
    <3> QED BY <2>5, <3>1
  <2>7. \A c \in spacePoints : IsPoint(c)'
    BY <1>1, <2>1 DEF IsPoint, IsComplete, CompletePairs, IsSingleBottom, TaggerOfHit, TaggerOfStrip
  <2> QED BY <1>1, <2>1, <2>4, <2>6, <2>7 DEF ProductInv, OfPoints, Late
<1>10. CASE NextEvent
  <2>1. /\ clusters' = {} /\ spacePoints' = {} /\ veto' = NoVeto /\ blobs' = <<>> /\ tracks' = <<>>
        /\ stage' \notin Late
    BY <1>10 DEF NextEvent, FirstStage, Late
  <2> QED BY <1>2, <2>1 DEF ProductInv, OfPoints
<1> QED BY <1>3, <1>4, <1>5, <1>6, <1>7, <1>8, <1>9, <1>10 DEF Next, Cluster, Objects

(* What is said of the blobs and the tracks holds from when they are made. *)
BlobInv  == stage \in {"tracks", "done"} => BlobsGood(blobs)
TrackInv == stage = "done" => TracksGood(tracks)

(* The step that makes the blobs makes them so, the next leaves them.      *)
LEMMA BlobsKept ==
  ASSUME HitsTyped, ProductInv, BlobInv, Next
  PROVE  BlobInv'
<1>1. CASE stage' \notin {"tracks", "done"}
  BY <1>1 DEF BlobInv
<1>2. CASE Objects /\ ProduceBlobs
  <2>1. PICK sps \in OrderSpacePoints(spacePoints) :
          blobs' = ChoseObjects(InsertionSort(CreateBlobCandidates(sps), SmallerError))
    BY <1>2 DEF ProduceBlobs
  <2>2. IsFiniteSet(spacePoints) /\ \A c \in spacePoints : PointTime(c) \in Int
    BY PointsTimed
  <2>3. PICK o : o = blobs'
    OBVIOUS
  <2>4. BlobsGood(o)
    BY <2>1, <2>2, <2>3, BlobsMade
  <2>5. UNCHANGED <<fConfig, spacePoints>>
    BY <1>2 DEF ProduceBlobs
  <2>6. BlobsGood(o)'
    BY <2>4, <2>5, BlobsStay
  <2> QED BY <2>3, <2>6 DEF BlobInv, BlobsGood, Disjoint
<1>3. CASE Objects /\ ProduceTracks
  <2>1. stage = "tracks" /\ UNCHANGED <<fConfig, spacePoints, blobs>>
    BY <1>3 DEF Objects, ProduceTracks
  <2>2. PICK o : o = blobs
    OBVIOUS
  <2>3. BlobsGood(o)
    BY <2>1, <2>2 DEF BlobInv
  <2>4. BlobsGood(o)'
    BY <2>1, <2>3, BlobsStay
  <2> QED BY <2>1, <2>2, <2>4 DEF BlobInv, BlobsGood, Disjoint
<1>4. CASE Simulate \/ DecideFrames \/ ReadEvent \/ StripHits \/ Cluster \/ Veto \/ NextEvent
  <2>1. stage' \notin {"tracks", "done"}
    BY <1>4 DEF Simulate, FillTaggers, NegativeTime, CreateData, LookAtStrip, EndTagger, StartTagger,
                eventVars, DecideFrames, ReadTiming, UnpackTiming, ShiftFrames, ReadEvent,
                StripHits, ProduceStripHits, UnixTimestampsDiffer, Cluster, CreateCluster,
                ProduceSpacePoints, Veto, ProduceVeto, NextEvent, FirstStage
  <2> QED BY <1>1, <2>1
<1> QED BY <1>2, <1>3, <1>4 DEF Next, Objects

(* The step that makes the tracks makes them so.                           *)
LEMMA TracksKept ==
  ASSUME LightTravels, HitsTyped, ProductInv, Next
  PROVE  TrackInv'
<1>1. CASE stage' # "done"
  BY <1>1 DEF TrackInv
<1>2. CASE Objects /\ ProduceTracks
  <2>1. PICK sps \in OrderSpacePoints(Trackable) :
          tracks' = ChoseObjects(InsertionSort(CreateTrackCandidates(sps), ComesFirst))
    BY <1>2 DEF ProduceTracks
  <2>2. /\ IsFiniteSet(Trackable)
        /\ \A c \in Trackable : PointTime(c) \in Int /\ \A h \in c : h.strip \in Strips
    BY PointsTimed, FS_Subset DEF Trackable, HitsTyped
  <2>3. PICK o : o = tracks'
    OBVIOUS
  <2>4. TracksGood(o)
    BY <2>1, <2>2, <2>3, TracksMade
  <2>5. UNCHANGED <<fConfig, spacePoints>>
    BY <1>2 DEF ProduceTracks
  <2>6. TracksGood(o)'
    BY <2>4, <2>5, TracksStay
  <2> QED BY <2>3, <2>6 DEF TrackInv, TracksGood, Disjoint
<1>3. CASE ~(Objects /\ ProduceTracks)
  <2>1. stage' # "done"
    BY <1>3 DEF Next, Simulate, FillTaggers, NegativeTime, CreateData, LookAtStrip, EndTagger, StartTagger,
                eventVars, DecideFrames, ReadTiming, UnpackTiming, ShiftFrames, ReadEvent,
                StripHits, ProduceStripHits, UnixTimestampsDiffer, Cluster, CreateCluster,
                ProduceSpacePoints, Veto, ProduceVeto, Objects, ProduceBlobs, NextEvent, FirstStage
  <2> QED BY <1>1, <2>1
<1> QED BY <1>2, <1>3

(* The products' invariants, at the start and where nothing happens.       *)
LEMMA ProductsStart ==
  ASSUME Init
  PROVE  ProductInv /\ BlobInv /\ TrackInv
<1>1. /\ stage \notin Late /\ clusters = {} /\ spacePoints = {} /\ veto.points = {}
      /\ blobs = <<>> /\ tracks = <<>>
  BY DEF Init, FirstStage, Late, NoVeto, NoObjects
<1>2. ToSet(<<>>) = {}
  BY DEF ToSet
<1> QED BY <1>1, <1>2 DEF ProductInv, BlobInv, TrackInv, OfPoints, Late

(* Where nothing happens, the products stay what they are.                 *)
LEMMA ProductsStutter ==
  ASSUME UNCHANGED vars
  PROVE  /\ ProductInv => ProductInv'
         /\ BlobInv => BlobInv'
         /\ TrackInv => TrackInv'
<1>1. UNCHANGED <<stage, fConfig, stripHits, clusters, spacePoints, veto, blobs, tracks>>
  BY DEF vars, eventVars, recoVars, objectVars
<1>2. ProductInv => ProductInv'
  BY <1>1 DEF ProductInv, OfPoints, IsPoint, IsComplete, CompletePairs, IsSingleBottom, TaggerOfHit,
              TaggerOfStrip
<1>3. BlobInv => BlobInv'
  <2>1. PICK o : o = blobs
    OBVIOUS
  <2>2. BlobsGood(o) => BlobsGood(o)'
    BY <1>1, BlobsStay
  <2>3. BlobsGood(o)' => BlobsGood(blobs)'
    BY <1>1, <2>1 DEF BlobsGood, Disjoint
  <2> QED BY <1>1, <2>1, <2>2, <2>3 DEF BlobInv
<1>4. TrackInv => TrackInv'
  <2>1. PICK o : o = tracks
    OBVIOUS
  <2>2. TracksGood(o) => TracksGood(o)'
    BY <1>1, TracksStay
  <2>3. TracksGood(o)' => TracksGood(tracks)'
    BY <1>1, <2>1 DEF TracksGood, Disjoint
  <2> QED BY <1>1, <2>1, <2>2, <2>3 DEF TrackInv
<1> QED BY <1>2, <1>3, <1>4

(* Blobs share no space point, go no further than the window of their      *)
(* first, and leave out a point only for another one of its window, in a   *)
(* blob at least as tight: CreateBlobCandidates, OrderBlobCandidates and   *)
(* ChoseBlobs, for points at whatever times, in any order where these are  *)
(* equal, as many as std::sort inserts one after the other; although what  *)
(* they are sorted by is no order where a point is alone.                  *)
THEOREM BlobsAreAccounted == Spec => []BlobsAccounted
<1>1. Init => ProductInv /\ BlobInv
  BY ProductsStart
<1>2. HitsTyped /\ ClusterInv /\ ProductInv /\ BlobInv /\ [Next]_vars => (ProductInv /\ BlobInv)'
  BY ProductsKept, BlobsKept, ProductsStutter
<1>3. BlobInv => BlobsAccounted
  BY DEF BlobInv, BlobsGood, BlobsAccounted
<1> QED BY <1>1, <1>2, <1>3, CRTIsKept, PTL DEF Spec

(* Tracks share no space point and have two or three of different taggers, *)
(* close in time and of none that is masked; what could be a track is one, *)
(* or shares a point with one that is longer or in no worse agreement with *)
(* the speed of light: CreateTrackCandidates, OrderTrackCandidates and     *)
(* ChoseTracks, wherever the points are.                                   *)
THEOREM TracksAreAccounted ==
  ASSUME LightTravels
  PROVE  Spec => []TracksAccounted
<1>1. Init => ProductInv /\ TrackInv
  BY ProductsStart
<1>2. HitsTyped /\ ClusterInv /\ ProductInv /\ TrackInv /\ [Next]_vars => (ProductInv /\ TrackInv)'
  BY LightTravels, ProductsKept, TracksKept, ProductsStutter
<1>3. TrackInv => TracksAccounted
  BY DEF TrackInv, TracksGood, TracksAccounted
<1> QED BY <1>1, <1>2, <1>3, CRTIsKept, PTL DEF Spec

-----------------------------------------------------------------------------
(* The charges of a readout: from the pedestals on, AddADC stops at the    *)
(* saturation.                                                             *)
PedestalBelow == QPed <= AdcSaturation

IsSaturated(f) == \A c \in SiPMsOf(f.mac5) : f.adc[c] \in 0 .. AdcSaturation
ChargeInv == fConfig.mc => \A k \in DOMAIN febData : IsSaturated(febData[k])

(* One more charge.                                                        *)
LEMMA ChargeAdded ==
  ASSUME NEW I, NEW adcs \in [I -> 0 .. AdcSaturation], NEW c, NEW q \in Nat
  PROVE  AddADC(adcs, c, q) \in [I -> 0 .. AdcSaturation]
<1>1. ASSUME c \in I
      PROVE  (IF (adcs[c] + q) % 2^16 > AdcSaturation THEN AdcSaturation ELSE (adcs[c] + q) % 2^16)
               \in 0 .. AdcSaturation
  <2>1. PICK a \in Int : a = adcs[c] + q
    BY <1>1
  <2> QED BY <2>1, SimAssumption
<1> QED BY <1>1 DEF AddADC

(* A signal is seen with a part of its charge.                             *)
LEMMA ChargeSeen ==
  ASSUME NEW d, NEW q \in Nat
  PROVE  WaveformEmulation(d, q) \in Nat
<1>1. CASE d \in DOMAIN Waveform
  <2>1. Waveform[d] \in Nat
    BY <1>1, SimAssumption
  <2>2. PICK a \in Nat : a = (Waveform[d] * q) \div 100
    BY <2>1
  <2>3. a % 2^16 \in Nat
    BY SimAssumption
  <2> QED BY <1>1, <2>2, <2>3 DEF WaveformEmulation
<1> QED BY <1>1 DEF WaveformEmulation

(* A strip's charges, those of a board, and the board's first time.        *)
Charged(adcs, s, ts1) ==
  AddADC(AddADC(adcs, s.sipm0.sipmID, WaveformEmulation(s.sipm0.t1 - ts1, s.sipm0.adc)),
         s.sipm1.sipmID, WaveformEmulation(s.sipm1.t1 - ts1, s.sipm1.adc))
OfBoard(mac, strips) == Selected(strips, {k \in DOMAIN strips : strips[k].mac5 = mac})
FirstTime(own) == CHOOSE t \in {TimeOf(s) : s \in ToSet(own)} : \A s \in ToSet(own) : t <= TimeOf(s)

(* The charges of one board, strip after strip.                            *)
LEMMA ChargesUnrolled ==
  ASSUME PedestalBelow, NEW T, \A s \in T : s.sipm0.adc \in Nat /\ s.sipm1.adc \in Nat,
         NEW strips \in Seq(T), NEW mac
  PROVE  \E g \in [SUBSET DOMAIN OfBoard(mac, strips) -> [SiPMsOf(mac) -> 0 .. AdcSaturation]] :
           /\ FEBOf(mac, strips).adc = g[DOMAIN OfBoard(mac, strips)]
           /\ \A s \in SUBSET DOMAIN OfBoard(mac, strips) :
                s # {} => g[s] = Charged(g[s \ {Max(s)}], OfBoard(mac, strips)[Max(s)],
                                         FirstTime(OfBoard(mac, strips)))
<1> DEFINE I == {k \in DOMAIN strips : strips[k].mac5 = mac}
           own == Selected(strips, I)
           n == Len(own)
           S == [SiPMsOf(mac) -> 0 .. AdcSaturation]
           ts1 == CHOOSE t \in {TimeOf(s) : s \in ToSet(own)} : \A s \in ToSet(own) : t <= TimeOf(s)
           Add(adcs, s) ==
             AddADC(AddADC(adcs, s.sipm0.sipmID, WaveformEmulation(s.sipm0.t1 - ts1, s.sipm0.adc)),
                    s.sipm1.sipmID, WaveformEmulation(s.sipm1.t1 - ts1, s.sipm1.adc))
           base == Pedestals(mac)
           step == [iv \in (1 .. n) \X S |-> Add(iv[2], own[iv[1]])]
           Iterates(g) == g = [s \in SUBSET (DOMAIN own) |->
                                 IF s = {} THEN base ELSE Add(g[s \ {Max(s)}], own[Max(s)])]
           g == CHOOSE g : Iterates(g)
<1>1. own \in Seq(T)
  <2>1. I \subseteq DOMAIN strips
    OBVIOUS
  <2> HIDE DEF I
  <2> QED BY <2>1, SelectedElements
<1>2. FEBOf(mac, strips).mac5 = mac /\ FEBOf(mac, strips).adc = FoldLeft(Add, base, own)
  BY DEF FEBOf
<1> HIDE DEF own, I
<1>3. n \in Nat /\ DOMAIN own = 1 .. n /\ \A k \in 1 .. n : own[k] \in T
  BY <1>1
<1>4. base \in S
  BY SimAssumption DEF Pedestals, PedestalBelow
<1>5. ASSUME NEW k \in 1 .. n, NEW d \in S PROVE Add(d, own[k]) \in S
  <2>1. PICK s \in T : s = own[k]
    BY <1>3
  <2>2. PICK e : e = AddADC(d, s.sipm0.sipmID, WaveformEmulation(s.sipm0.t1 - ts1, s.sipm0.adc))
    OBVIOUS
  <2>3. e \in S
    BY <2>2, ChargeSeen, ChargeAdded
  <2>4. AddADC(e, s.sipm1.sipmID, WaveformEmulation(s.sipm1.t1 - ts1, s.sipm1.adc)) \in S
    BY <2>3, ChargeSeen, ChargeAdded
  <2> QED BY <2>1, <2>2, <2>4
<1> HIDE DEF S, base
<1>6. step \in [(1 .. n) \X S -> S]
  <2> HIDE DEF Add
  <2> QED BY <1>5
<1>7. PICK h \in [SUBSET (1 .. n) -> S] : TakesLast(h, n, base, step)
  <2> HIDE DEF step, n
  <2> QED BY <1>3, <1>4, <1>6, IterationExists
<1>8. Iterates(h)
  <2>1. ASSUME NEW s \in SUBSET (1 .. n), s # {}
        PROVE  step[<<Max(s), h[s \ {Max(s)}]>>] = Add(h[s \ {Max(s)}], own[Max(s)])
    <3>1. Max(s) \in 1 .. n
      BY <1>3, <2>1, GreatestIndex
    <3>2. h[s \ {Max(s)}] \in S
      BY <1>7
    <3> HIDE DEF Add
    <3> QED BY <3>1, <3>2
  <2>2. h = [s \in SUBSET (1 .. n) |-> IF s = {} THEN base ELSE step[<<Max(s), h[s \ {Max(s)}]>>]]
    BY <1>7 DEF TakesLast
  <2> HIDE DEF step, n, Add
  <2> QED BY <1>3, <2>1, <2>2
<1>9. Iterates(g)
  <2> HIDE DEF Iterates
  <2> QED BY <1>8
<1>10. FoldLeft(Add, base, own) = g[1 .. n]
  <2>1. FoldLeft(Add, base, own) = g[DOMAIN own]
    BY DEF FoldLeft, MapThenFoldSet
  <2> QED BY <1>3, <2>1
<1> HIDE DEF g
<1>11. /\ g[{}] = base /\ \A s \in SUBSET (1 .. n) : s # {} => g[s] = Add(g[s \ {Max(s)}], own[Max(s)])
       /\ DOMAIN g = SUBSET (1 .. n) /\ g = [s \in SUBSET (1 .. n) |-> g[s]]
  <2> HIDE DEF Add, n, base
  <2> QED BY <1>3, <1>9
<1> HIDE DEF step, Iterates, Add
<1> DEFINE Bad == {s \in SUBSET (1 .. n) : g[s] \notin S}
<1>12. Bad = {}
  <2> SUFFICES ASSUME Bad # {} PROVE FALSE
    OBVIOUS
  <2>1. PICK s \in Bad : \A u \in Bad : ~(u \subseteq s /\ u # s)
    <3>1. IsFiniteSet(1 .. n)
      <4> HIDE DEF n
      <4> QED BY <1>3, FS_Interval
    <3>2. PICK D : D = 1 .. n
      OBVIOUS
    <3>3. IsFiniteSet(D) /\ Bad \subseteq SUBSET D /\ Bad # {}
      BY <3>1, <3>2
    <3> HIDE DEF Bad
    <3>4. \E s \in Bad : \A u \in Bad : u \subseteq s => u = s
      BY ONLY <3>3, MinimalSubset
    <3> QED BY <3>4
  <2>2. s # {}
    BY <1>4, <1>11
  <2>3. s \in SUBSET (1 .. n) /\ g[s] \notin S
    OBVIOUS
  <2>4. Max(s) \in s /\ Max(s) \in 1 .. n
    BY <1>3, <2>2, <2>3, GreatestIndex
  <2>5. g[s \ {Max(s)}] \in S
    BY <2>1, <2>3, <2>4
  <2>6. g[s] = Add(g[s \ {Max(s)}], own[Max(s)])
    BY <1>11, <2>2, <2>3
  <2> QED BY <1>5, <2>3, <2>4, <2>5, <2>6
<1>13. g \in [SUBSET (1 .. n) -> S]
  <2>1. DOMAIN g = SUBSET (1 .. n) /\ g = [s \in SUBSET (1 .. n) |-> g[s]]
    BY <1>11
  <2> QED BY <1>12, <2>1
<1>14. own = OfBoard(mac, strips) /\ ts1 = FirstTime(own)
  BY DEF own, I, OfBoard, FirstTime
<1>15. \A d, s : Add(d, s) = Charged(d, s, ts1)
  BY DEF Add, Charged
<1> HIDE DEF n, ts1
<1>16. \A s \in SUBSET (1 .. n) : s # {} => g[s] = Charged(g[s \ {Max(s)}], own[Max(s)], FirstTime(own))
  BY <1>11, <1>14, <1>15
<1> QED BY <1>2, <1>3, <1>10, <1>13, <1>14, <1>16 DEF S

(* The readout of one board.                                               *)
LEMMA ChargesOfReadout ==
  ASSUME PedestalBelow, NEW T, \A s \in T : s.sipm0.adc \in Nat /\ s.sipm1.adc \in Nat,
         NEW strips \in Seq(T), NEW mac
  PROVE  IsSaturated(FEBOf(mac, strips))
<1> DEFINE own == OfBoard(mac, strips)
           S == [SiPMsOf(mac) -> 0 .. AdcSaturation]
<1>1. FEBOf(mac, strips).adc \in S
  <2>1. PICK g \in [SUBSET DOMAIN own -> S] : FEBOf(mac, strips).adc = g[DOMAIN own]
    BY ChargesUnrolled
  <2> HIDE DEF own, S
  <2> QED BY <2>1
<1>2. FEBOf(mac, strips).mac5 = mac
  BY DEF FEBOf
<1> QED BY <1>1, <1>2 DEF IsSaturated

(* A trigger's readouts, and so all that are made.                         *)
LEMMA FlushedSaturated ==
  ASSUME PedestalBelow, ChainTyped, TriggerInv, Made(febData),
         \A k \in DOMAIN febData : IsSaturated(febData[k])
  PROVE  \A k \in DOMAIN Flushed : IsSaturated(Flushed[k])
<1>1. CASE ~TaggerTriggered(trigger)
  BY <1>1 DEF Flushed
<1>2. CASE TaggerTriggered(trigger)
  <2> DEFINE T == fTaggers[tagger]
             strips == trigger.strips
             P == ProcessStrips(strips)
             J == febData \o P
  <2>1. Flushed = J
    BY <1>2 DEF Flushed
  <2>2. strips \in Seq(T) /\ IsInjective(strips) /\ tagger \in Taggers
    BY DEF TriggerInv
  <2>3. \A s \in T : /\ s.mac5 \in FEBs /\ TimeOf(s) \in Nat
                     /\ s.sipm0.adc \in Nat /\ s.sipm1.adc \in Nat
    BY <2>2 DEF ChainTyped, IsStrip
  <2> HIDE DEF T
  <2>4. P \in Seq(ToSet(P))
    <3> HIDE DEF strips
    <3> QED BY <2>2, <2>3, Processed
  <2>5. ASSUME NEW k \in DOMAIN P PROVE IsSaturated(P[k])
    <3>1. \E mac : P[k] = FEBOf(mac, strips)
      BY DEF ProcessStrips
    <3>2. PICK mac : P[k] = FEBOf(mac, strips)
      BY <3>1
    <3> HIDE DEF P, strips
    <3> QED BY <2>2, <2>3, <3>2, ChargesOfReadout
  <2>6. febData \in Seq(ToSet(febData))
    BY DEF Made
  <2>7. ASSUME NEW k \in DOMAIN J PROVE IsSaturated(J[k])
    <3> HIDE DEF P
    <3>1. /\ DOMAIN febData = 1 .. Len(febData) /\ Len(febData) \in Nat
          /\ DOMAIN P = 1 .. Len(P) /\ Len(P) \in Nat
      BY <2>4, <2>6
    <3>2. /\ k \in 1 .. Len(febData) + Len(P)
          /\ J[k] = IF k <= Len(febData) THEN febData[k] ELSE P[k - Len(febData)]
      BY <2>4, <2>6
    <3>3. CASE k <= Len(febData)
      BY <3>1, <3>2, <3>3
    <3>4. CASE ~(k <= Len(febData))
      BY <2>5, <3>1, <3>2, <3>4
    <3> QED BY <3>3, <3>4
  <2> QED BY <2>1, <2>7
<1> QED BY <1>1, <1>2

(* Every step keeps the charges of the simulation within it.               *)
LEMMA ChargesKept ==
  ASSUME PedestalBelow, ChainTyped, SimInv, ChargeInv, Next
  PROVE  ChargeInv'
<1> SUFFICES ASSUME fConfig'.mc
             PROVE  \A k \in DOMAIN febData' : IsSaturated(febData'[k])
  BY DEF ChargeInv, IsSaturated, SiPMsOf, StripsOf
<1>1. UNCHANGED fConfig
  BY DEF Next, Simulate, FillTaggers, NegativeTime, CreateData, LookAtStrip, EndTagger, eventVars,
         DecideFrames, ReadEvent, StripHits, ProduceStripHits, UnixTimestampsDiffer,
         Cluster, CreateCluster, ProduceSpacePoints, Veto, ProduceVeto, Objects, ProduceBlobs,
         ProduceTracks, NextEvent
<1>2. fConfig.mc /\ \A k \in DOMAIN febData : IsSaturated(febData[k])
  BY <1>1 DEF ChargeInv
<1>3. CASE febData' = febData
  BY <1>2, <1>3
<1>4. CASE febData' = <<>>
  BY <1>4
<1>5. CASE febData' = Flushed /\ stage = "trigger"
  <2>1. TriggerInv /\ Made(febData)
    BY <1>2, <1>5 DEF SimInv
  <2> QED BY <1>2, <1>5, <2>1, FlushedSaturated
<1>6. CASE Simulate
  BY <1>3, <1>5, <1>6 DEF Simulate, FillTaggers, NegativeTime, CreateData, LookAtStrip, EndTagger,
                          FirstTrigger, JoinTrigger, NewTrigger, DropStrip, eventVars
<1>7. CASE ReadEvent
  BY <1>2, <1>7 DEF ReadEvent, ChainTyped, Reading
<1>8. CASE DecideFrames \/ StripHits \/ Cluster \/ Veto \/ Objects
  BY <1>3, <1>8 DEF DecideFrames, StripHits, ProduceStripHits, UnixTimestampsDiffer, Cluster,
                    CreateCluster, ProduceSpacePoints, Veto, ProduceVeto, Objects, ProduceBlobs,
                    ProduceTracks
<1>9. CASE NextEvent
  BY <1>4, <1>9 DEF NextEvent, ClearTaggers
<1> QED BY <1>6, <1>7, <1>8, <1>9 DEF Next

(* The stages the chain goes through.                                      *)
Stages == Early \cup Late \cup {"clusters", "thrown"}

(* No step leaves them.                                                    *)
LEMMA StagesKept ==
  ASSUME stage \in Stages, Next
  PROVE  stage' \in Stages
<1>1. CASE Simulate \/ DecideFrames
  BY <1>1 DEF Simulate, FillTaggers, NegativeTime, CreateData, LookAtStrip, EndTagger, StartTagger,
              eventVars, DecideFrames, ReadTiming, UnpackTiming, ShiftFrames, Stages, Early,
              Simulating, Reading
<1>2. CASE ReadEvent \/ StripHits \/ Cluster \/ Veto \/ Objects \/ NextEvent
  BY <1>2 DEF ReadEvent, StripHits, ProduceStripHits, UnixTimestampsDiffer, Cluster, CreateCluster,
              ProduceSpacePoints, Veto, ProduceVeto, Objects, ProduceBlobs, ProduceTracks, NextEvent,
              FirstStage, Stages, Early, Late, Simulating, Reading
<1> QED BY <1>1, <1>2 DEF Next

(* The types of all the products of the chain, for every geometry and      *)
(* number of events: what AddADC makes of the charges stays within the     *)
(* saturation if the pedestal does, and each product is made of those      *)
(* before it.                                                              *)
THEOREM ChainIsTyped ==
  ASSUME PedestalBelow
  PROVE  Spec => []ChainTypeOK
<1>1. Init => ProductInv /\ ChargeInv /\ stage \in Stages
  <2> SUFFICES ASSUME Init PROVE ProductInv /\ ChargeInv /\ stage \in Stages
    OBVIOUS
  <2>1. stage \in {"fill", "timing"} /\ DOMAIN febData = {}
    BY DEF Init, FirstStage
  <2> QED BY <2>1, ProductsStart DEF ChargeInv, Stages, Early, Simulating, Reading
<1>2. /\ ChainTyped /\ SimInv /\ HitsTyped /\ ClusterInv /\ ProductInv /\ ChargeInv /\ stage \in Stages
      /\ [Next]_vars
      => (ProductInv /\ ChargeInv /\ stage \in Stages)'
  <2>1. UNCHANGED vars => UNCHANGED <<stage, fConfig, febData>>
    BY DEF vars, eventVars
  <2>2. UNCHANGED <<fConfig, febData>> => ChargeInv' = ChargeInv
    BY DEF ChargeInv, IsSaturated, SiPMsOf, StripsOf
  <2> QED BY <2>1, <2>2, PedestalBelow, ProductsKept, ChargesKept, StagesKept, ProductsStutter DEF Stages
<1>3. ChainTyped /\ SimInv /\ HitsTyped /\ ClusterInv /\ ProductInv /\ ChargeInv /\ stage \in Stages
        => ChainTypeOK
  <2> SUFFICES ASSUME ChainTyped, HitsTyped, ClusterInv, ProductInv, ChargeInv, stage \in Stages
               PROVE  ChainTypeOK
    OBVIOUS
  <2>1. fConfig \in Configs /\ \A i \in Indices : febData[i].mac5 \in FEBs /\ febData[i].ts \in Nat
    BY DEF ChainTyped, IsEvent, Indices
  <2>2. \A i \in Indices : fConfig.mc =>
          \A c \in SiPMsOf(febData[i].mac5) : febData[i].adc[c] \in 0 .. AdcSaturation
    BY DEF ChargeInv, IsSaturated, Indices
  <2>3. /\ \A h \in stripHits : h.strip \in Strips /\ h.feb \in Indices
        /\ unused \subseteq stripHits
    BY DEF HitsTyped, ClusterInv, Indices
  <2>4. /\ spacePoints \subseteq clusters /\ veto.points \subseteq spacePoints
        /\ \A c \in clusters : c # {} /\ c \subseteq stripHits
    BY DEF ProductInv, IsPoint
  <2>5. \A o \in ToSet(blobs \o tracks) : o # {} /\ o \subseteq spacePoints
    <3> DEFINE V == SUBSET spacePoints
    <3>1. /\ blobs \in Seq(V) /\ tracks \in Seq(V)
          /\ \A o \in ToSet(blobs) \cup ToSet(tracks) : o # {} /\ o \subseteq spacePoints
      BY DEF ProductInv, OfPoints
    <3> HIDE DEF V
    <3>2. ToSet(blobs \o tracks) = ToSet(blobs) \cup ToSet(tracks)
      BY <3>1, ConcatSet
    <3> QED BY <3>1, <3>2
  <2> QED BY <2>1, <2>2, <2>3, <2>4, <2>5 DEF ChainTypeOK, Stages, Early, Late, Simulating, Reading
<1> QED BY <1>1, <1>2, <1>3, CRTIsKept, PTL DEF Spec

-----------------------------------------------------------------------------
(* FrameShift.  The stamps of a channel are those that were recorded.      *)
LEMMA StampsAre ==
  ASSUME IsTiming(timing), NEW ch
  PROVE  ToSet(StampsOf(ch)) = {s.time : s \in {s \in ToSet(timing.tdc) : s.ch = ch}}
<1> DEFINE R == [ch : Nat, time : Nat]
<1>1. PICK t : t = timing.tdc
  OBVIOUS
<1> DEFINE I == {i \in DOMAIN t : t[i].ch = ch}
           own == Selected(t, I)
<1>2. t \in Seq(R) /\ I \subseteq DOMAIN t
  BY <1>1 DEF IsTiming
<1>3. ToSet(own) = {t[i] : i \in I}
  <2> HIDE DEF R, I
  <2> QED BY <1>2, SelectedElements
<1>4. {t[i] : i \in I} = {s \in ToSet(t) : s.ch = ch}
  BY DEF ToSet
<1>5. StampsOf(ch) = [i \in DOMAIN own |-> own[i].time]
  BY <1>1 DEF StampsOf
<1> HIDE DEF own, I
<1>6. ToSet(StampsOf(ch)) = {own[i].time : i \in DOMAIN own}
  BY <1>5 DEF ToSet
<1>7. {own[i].time : i \in DOMAIN own} = {s.time : s \in ToSet(own)}
  BY DEF ToSet
<1> QED BY <1>1, <1>3, <1>4, <1>6, <1>7

(* A time closer than all others is found.                                 *)
LEMMA OwnFound ==
  ASSUME NEW times \in Seq(Int), NEW ref \in Int, NEW a \in ToSet(times),
         \A x \in ToSet(times) : x # a => TimeDistance(a, ref) < TimeDistance(x, ref)
  PROVE  FindClosest(times, ref) = a
<1>1. PICK i \in DOMAIN times : a = times[i]
  BY DEF ToSet
<1>2. times # <<>>
  BY <1>1
<1>3. PICK c : c = ClosestIndex(times, ref)
  OBVIOUS
<1>4. c \in DOMAIN times /\ TimeDistance(times[c], ref) <= TimeDistance(times[i], ref)
  BY <1>1, <1>2, <1>3, ClosestIs
<1>5. times[c] \in ToSet(times) /\ times[c] \in Int /\ a \in Int
  BY <1>1, <1>4 DEF ToSet
<1>6. TimeDistance(a, ref) \in Int /\ TimeDistance(times[c], ref) \in Int
  BY <1>5 DEF TimeDistance
<1>7. times[c] = a
  <2> SUFFICES ASSUME times[c] # a PROVE FALSE
    OBVIOUS
  <2>1. TimeDistance(a, ref) < TimeDistance(times[c], ref)
    BY <1>5
  <2>2. TimeDistance(times[c], ref) <= TimeDistance(a, ref)
    BY <1>1, <1>4
  <2> QED BY <1>6, <2>1, <2>2
<1> QED BY <1>2, <1>3, <1>7 DEF FindClosest

(* The entries are those of the words' bits, and zeros.                    *)
LEMMA UnmaskedAre ==
  ASSUME IsTiming(timing)
  PROVE  /\ \A k \in DOMAIN timing.ptb : WordEntries(timing.ptb[k]) \subseteq ToSet(Unmasked)
         /\ \A e \in ToSet(Unmasked) :
              \/ e = [code |-> 0, time |-> 0]
              \/ \E k \in DOMAIN timing.ptb : e \in WordEntries(timing.ptb[k])
<1> DEFINE R == [code : Int, time : Int]
<1>1. PICK seqs \in Seq(Seq(R)), zeros \in Seq(R) : UnmaskedOf(seqs, zeros)
  BY UnmaskedParts
<1>2. /\ DOMAIN seqs = DOMAIN timing.ptb
      /\ \A k \in DOMAIN seqs : ToSet(seqs[k]) = WordEntries(timing.ptb[k])
      /\ \A k \in DOMAIN zeros : zeros[k] = [code |-> 0, time |-> 0]
      /\ Unmasked = FlattenSeq(seqs) \o zeros
  BY <1>1 DEF UnmaskedOf
<1> HIDE DEF R
<1>3. /\ FlattenSeq(seqs) \in Seq(R)
      /\ ToSet(FlattenSeq(seqs)) = UNION {ToSet(seqs[i]) : i \in 1 .. Len(seqs)}
  BY Flattened
<1>4. DOMAIN seqs = 1 .. Len(seqs)
  OBVIOUS
<1>5. ToSet(Unmasked) = ToSet(FlattenSeq(seqs)) \cup ToSet(zeros)
  BY <1>2, <1>3, ConcatSet
<1>6. ASSUME NEW k \in DOMAIN timing.ptb PROVE WordEntries(timing.ptb[k]) \subseteq ToSet(Unmasked)
  BY <1>2, <1>3, <1>4, <1>5
<1>7. ASSUME NEW e \in ToSet(Unmasked)
      PROVE  e = [code |-> 0, time |-> 0] \/ \E k \in DOMAIN timing.ptb : e \in WordEntries(timing.ptb[k])
  <2>1. CASE e \in ToSet(zeros)
    BY <1>2, <2>1 DEF ToSet
  <2>2. CASE e \in ToSet(FlattenSeq(seqs))
    <3>1. PICK i \in 1 .. Len(seqs) : e \in ToSet(seqs[i])
      BY <1>3, <2>2
    <3> QED BY <1>2, <1>4, <3>1
  <2> QED BY <1>5, <2>1, <2>2
<1> QED BY <1>6, <1>7

WordsWith(code) == {k \in DOMAIN timing.ptb : code \in timing.ptb[k].bits}

(* Of the words with a bit, the last one counts.                           *)
LEMMA LastWord ==
  ASSUME IsTiming(timing), hlts = Unmasked, NEW code \in 1 .. 31
  PROVE  HltTime(code) = IF WordsWith(code) = {} THEN Unset
                         ELSE timing.ptb[Max(WordsWith(code))].time * PtbTick
<1> DEFINE R == [code : Int, time : Int]
           K == WordsWith(code)
           own == {i \in DOMAIN hlts : hlts[i].code = code}
<1>1. PICK seqs \in Seq(Seq(R)), zeros \in Seq(R) : UnmaskedOf(seqs, zeros)
  BY UnmaskedParts
<1> DEFINE f == FlattenSeq(seqs)
<1>2. /\ DOMAIN seqs = DOMAIN timing.ptb
      /\ \A k \in DOMAIN seqs : ToSet(seqs[k]) = WordEntries(timing.ptb[k])
      /\ \A k \in DOMAIN zeros : zeros[k] = [code |-> 0, time |-> 0]
      /\ hlts = f \o zeros
  BY <1>1 DEF UnmaskedOf
<1> HIDE DEF R
<1>3. /\ DOMAIN seqs = 1 .. Len(seqs) /\ Len(seqs) \in Nat /\ \A k \in 1 .. Len(seqs) : seqs[k] \in Seq(R)
  OBVIOUS
<1>4. f \in Seq(R)
  BY Flattened
<1>5. PICK off : Positions(off, seqs) /\ InPositions(off, seqs)
  <2>1. PICK off : Positions(off, seqs)
    BY FlattenPositions
  <2> QED BY <2>1, PositionsCover
<1>6. /\ off \in [0 .. Len(seqs) -> Nat] /\ Len(f) = off[Len(seqs)]
      /\ \A i \in 1 .. Len(seqs) :
           /\ off[i] = off[i - 1] + Len(seqs[i])
           /\ \A k \in 1 .. Len(seqs[i]) : f[off[i - 1] + k] = seqs[i][k]
      /\ \A i, j \in 0 .. Len(seqs) : i <= j => off[i] <= off[j]
      /\ \A p \in 1 .. off[Len(seqs)] : \E i \in 1 .. Len(seqs) : \E k \in 1 .. Len(seqs[i]) : p = off[i - 1] + k
  BY <1>5 DEF Positions, InPositions
<1> HIDE DEF f
<1>7. /\ DOMAIN hlts = 1 .. Len(f) + Len(zeros) /\ Len(f) \in Nat /\ Len(zeros) \in Nat
      /\ \A p \in 1 .. Len(f) : hlts[p] = f[p]
      /\ \A p \in Len(f) + 1 .. Len(f) + Len(zeros) : hlts[p] = [code |-> 0, time |-> 0]
  <2>1. Len(f) \in Nat /\ Len(zeros) \in Nat /\ DOMAIN zeros = 1 .. Len(zeros)
    BY <1>4
  <2>2. Len(hlts) = Len(f) + Len(zeros) /\ hlts \in Seq(R)
    BY <1>2, <1>4, ConcatProperties
  <2>3. \A p \in 1 .. Len(f) + Len(zeros) : hlts[p] = IF p <= Len(f) THEN f[p] ELSE zeros[p - Len(f)]
    BY <1>2, <1>4, ConcatProperties
  <2>4. DOMAIN hlts = 1 .. Len(f) + Len(zeros)
    BY <2>2
  <2>5. ASSUME NEW p \in 1 .. Len(f) PROVE hlts[p] = f[p]
    BY <2>1, <2>3
  <2>6. ASSUME NEW p \in Len(f) + 1 .. Len(f) + Len(zeros) PROVE hlts[p] = [code |-> 0, time |-> 0]
    <3>1. p - Len(f) \in DOMAIN zeros /\ ~(p <= Len(f)) /\ p \in 1 .. Len(f) + Len(zeros)
      BY <2>1
    <3> QED BY <1>2, <2>3, <3>1
  <2> QED BY <2>1, <2>4, <2>5, <2>6
(* An entry with the code is of a word with the bit, and has its time.     *)
<1>8. ASSUME NEW p \in own
      PROVE  \E i \in K : /\ i \in 1 .. Len(seqs) /\ hlts[p].time = timing.ptb[i].time * PtbTick
                          /\ off[i - 1] < p /\ p <= off[i]
  <2>1. p \in 1 .. Len(f)
    BY <1>7
  <2>9. PICK i \in 1 .. Len(seqs) : \E k \in 1 .. Len(seqs[i]) : p = off[i - 1] + k
    BY <1>6, <2>1
  <2>2. PICK k \in 1 .. Len(seqs[i]) : p = off[i - 1] + k
    BY <2>9
  <2>3. hlts[p] = seqs[i][k]
    BY <1>6, <1>7, <2>1, <2>2
  <2>4. seqs[i][k] \in ToSet(seqs[i])
    BY <1>3, <2>2 DEF ToSet
  <2>5. PICK b \in timing.ptb[i].bits : hlts[p] = [code |-> b, time |-> timing.ptb[i].time * PtbTick]
    BY <1>2, <1>3, <2>2, <2>3, <2>4 DEF WordEntries
  <2>6. i \in K
    BY <1>2, <1>3, <2>2, <2>5 DEF WordsWith
  <2>7. off[i - 1] \in Nat /\ off[i] = off[i - 1] + Len(seqs[i]) /\ Len(seqs[i]) \in Nat
    <3>1. i - 1 \in 0 .. Len(seqs)
      BY <1>3
    <3> QED BY <1>3, <1>6, <3>1
  <2>8. off[i - 1] < p /\ p <= off[i]
    BY <2>2, <2>7
  <2> QED BY <2>2, <2>5, <2>6, <2>8
(* And each word with the bit has one.                                     *)
<1>9. ASSUME NEW i \in K
      PROVE  i \in 1 .. Len(seqs) /\ \E p \in own : off[i - 1] < p
  <2>1. i \in 1 .. Len(seqs)
    BY <1>2, <1>3 DEF WordsWith
  <2>2. [code |-> code, time |-> timing.ptb[i].time * PtbTick] \in ToSet(seqs[i])
    BY <1>2, <1>3, <2>1 DEF WordEntries, WordsWith
  <2>3. PICK k \in 1 .. Len(seqs[i]) : seqs[i][k] = [code |-> code, time |-> timing.ptb[i].time * PtbTick]
    BY <1>3, <2>1, <2>2 DEF ToSet
  <2>4. f[off[i - 1] + k] = seqs[i][k] /\ off[i] = off[i - 1] + Len(seqs[i])
    BY <1>6, <2>1
  <2>5. off[i - 1] \in Nat /\ off[i] <= Len(f) /\ Len(seqs[i]) \in Nat
    <3>1. i - 1 \in 0 .. Len(seqs) /\ i \in 0 .. Len(seqs) /\ Len(seqs) \in 0 .. Len(seqs) /\ i <= Len(seqs)
      BY <1>3, <2>1
    <3>2. off[i - 1] \in Nat /\ off[i] <= off[Len(seqs)]
      BY <1>6, <3>1
    <3>3. Len(seqs[i]) \in Nat
      BY <1>3, <2>1
    <3> QED BY <1>6, <3>2, <3>3
  <2>6. off[i - 1] + k \in 1 .. Len(f) /\ off[i - 1] < off[i - 1] + k
    BY <1>7, <2>4, <2>5
  <2>7. off[i - 1] + k \in own
    BY <1>7, <2>3, <2>4, <2>6
  <2> QED BY <2>1, <2>6, <2>7
<1>10. IsFiniteSet(own) /\ (\A p \in own : p \in Int) /\ IsFiniteSet(K) /\ (\A i \in K : i \in Int)
  <2>1. own \subseteq 1 .. Len(f) + Len(zeros)
    BY <1>7
  <2>2. IsFiniteSet(1 .. Len(f) + Len(zeros)) /\ IsFiniteSet(1 .. Len(seqs))
    BY <1>3, <1>7, FS_Interval
  <2>3. K \subseteq 1 .. Len(seqs)
    BY <1>9
  <2>4. IsFiniteSet(own) /\ IsFiniteSet(K)
    BY <2>1, <2>2, <2>3, FS_Subset
  <2>5. \A p \in 1 .. Len(f) + Len(zeros) : p \in Int
    BY <1>7
  <2> QED BY <1>3, <2>1, <2>3, <2>4, <2>5
<1>11. HltTime(code) = IF own = {} THEN Unset ELSE hlts[Max(own)].time
  BY DEF HltTime
<1> HIDE DEF own, K
<1>12. own = {} <=> K = {}
  BY <1>8, <1>9
<1>13. ASSUME K # {} PROVE HltTime(code) = timing.ptb[Max(K)].time * PtbTick
  <2>1. Max(own) \in own /\ \A p \in own : p <= Max(own)
    BY <1>10, <1>12, <1>13, Extremes
  <2>2. Max(K) \in K /\ \A i \in K : i <= Max(K)
    BY <1>10, <1>13, Extremes
  <2>3. PICK m \in own : m = Max(own) /\ \A p \in own : p <= m
    BY <2>1
  <2>4. PICK x \in K : x = Max(K) /\ \A i \in K : i <= x
    BY <2>2
  <2>5. PICK i \in K : /\ i \in 1 .. Len(seqs) /\ hlts[m].time = timing.ptb[i].time * PtbTick
                       /\ off[i - 1] < m /\ m <= off[i]
    BY <1>8
  <2>6. x \in 1 .. Len(seqs) /\ \E p \in own : off[x - 1] < p
    BY <1>9
  <2>7. PICK p \in own : off[x - 1] < p /\ p <= m
    BY <2>3, <2>6
  <2>8. i = x
    <3> SUFFICES ASSUME i # x PROVE FALSE
      OBVIOUS
    <3>1. i <= x /\ i <= x - 1 /\ i \in 0 .. Len(seqs) /\ x - 1 \in 0 .. Len(seqs)
      BY <1>3, <2>4, <2>5, <2>6
    <3>2. off[i] <= off[x - 1] /\ off[i] \in Nat /\ off[x - 1] \in Nat
      BY <1>6, <3>1
    <3> QED BY <1>10, <2>5, <2>7, <3>2
  <2> QED BY <1>11, <1>12, <1>13, <2>3, <2>4, <2>5, <2>8
<1>14. ASSUME K = {} PROVE HltTime(code) = Unset
  BY <1>11, <1>12, <1>14
<1> QED BY <1>13, <1>14 DEF K

(* What is called the event's own code is that of its trigger, if its word *)
(* was recorded: no word with another trigger's code is as close.          *)
LEMMA OwnCode ==
  ASSUME IsTiming(timing), hlts = Unmasked, 0 \notin PtbEtrigHlts, OwnIsClosest(timing),
         NEW w \in ToSet(timing.ptb), timing.own.code \in w.bits, w.time * PtbTick = timing.own.etrig
  PROVE  Etrigs # <<>> /\ HltEtrig = timing.own.code
<1> DEFINE R == [code : Int, time : Int]
           I == {i \in DOMAIN hlts : hlts[i].code \in PtbEtrigHlts}
           own == timing.own
<1>1. hlts \in Seq(R)
  BY UnmaskedTyped
<1>2. PICK n \in DOMAIN timing.ptb : w = timing.ptb[n]
  BY DEF ToSet
<1>3. [code |-> own.code, time |-> own.etrig] \in ToSet(hlts)
  <2>1. [code |-> own.code, time |-> w.time * PtbTick] \in WordEntries(timing.ptb[n])
    BY <1>2 DEF WordEntries
  <2> QED BY <2>1, UnmaskedAre
<1>4. own.code \in PtbEtrigHlts
  BY DEF OwnIsClosest
<1>5. ToSet(Etrigs) = {hlts[i] : i \in I} /\ Etrigs \in Seq(R)
  <2>1. I \subseteq DOMAIN hlts /\ Etrigs = Selected(hlts, I)
    BY DEF Etrigs
  <2> HIDE DEF R, I
  <2> QED BY <1>1, <2>1, SelectedElements
<1>6. [code |-> own.code, time |-> own.etrig] \in ToSet(Etrigs)
  <2>1. PICK i \in DOMAIN hlts : hlts[i] = [code |-> own.code, time |-> own.etrig]
    BY <1>3 DEF ToSet
  <2>2. i \in I
    BY <1>4, <2>1
  <2> HIDE DEF I
  <2> QED BY <1>5, <2>1, <2>2
<1>7. ASSUME NEW e \in ToSet(Etrigs), e.code # own.code
      PROVE  TimeDistance(own.etrig, RawTs) < TimeDistance(e.time, RawTs)
  <2>1. e \in ToSet(hlts) /\ e.code \in PtbEtrigHlts
    BY <1>5 DEF ToSet
  <2>2. e # [code |-> 0, time |-> 0]
    BY <2>1
  <2>3. PICK k \in DOMAIN timing.ptb : e \in WordEntries(timing.ptb[k])
    BY <2>1, <2>2, UnmaskedAre
  <2>4. PICK b \in timing.ptb[k].bits : e = [code |-> b, time |-> timing.ptb[k].time * PtbTick]
    BY <2>3 DEF WordEntries
  <2>5. e.code = b /\ e.time = timing.ptb[k].time * PtbTick
    BY <2>4
  <2>6. timing.ptb[k] \in ToSet(timing.ptb)
    BY DEF ToSet
  <2>7. b \in timing.ptb[k].bits \cap PtbEtrigHlts /\ b # own.code
    BY <1>7, <2>1, <2>5
  <2>8. TimeDistance(own.etrig, timing.header - RawTSCorrection)
          < TimeDistance(timing.ptb[k].time * PtbTick, timing.header - RawTSCorrection)
    BY <2>6, <2>7 DEF OwnIsClosest
  <2> QED BY <2>5, <2>8 DEF RawTs
<1> HIDE DEF R, I
<1>8. PICK j \in DOMAIN Etrigs : Etrigs[j] = [code |-> own.code, time |-> own.etrig]
  BY <1>6 DEF ToSet
<1>9. DOMAIN Etrigs = 1 .. Len(Etrigs) /\ Len(Etrigs) \in Nat
      /\ \A i \in DOMAIN Etrigs : Etrigs[i] \in ToSet(Etrigs) /\ Etrigs[i].time \in Int
  <2>1. DOMAIN Etrigs = 1 .. Len(Etrigs) /\ Len(Etrigs) \in Nat /\ \A i \in DOMAIN Etrigs : Etrigs[i] \in R
    BY <1>5
  <2>2. \A e \in R : e.time \in Int
    BY DEF R
  <2>3. \A i \in DOMAIN Etrigs : Etrigs[i] \in ToSet(Etrigs)
    BY DEF ToSet
  <2> QED BY <2>1, <2>2, <2>3
<1>10. Etrigs # <<>>
  BY <1>8
<1> DEFINE times == [i \in DOMAIN Etrigs |-> Etrigs[i].time]
<1>11. times \in Seq(Int) /\ DOMAIN times = DOMAIN Etrigs
  <2> HIDE DEF I
  <2> QED BY <1>9
<1>12. times # <<>>
  BY <1>8, <1>11
<1>13. RawTs \in Int
  BY FrameShiftAssumption DEF RawTs, IsTiming
<1> HIDE DEF times
<1>14. PICK c \in DOMAIN Etrigs : /\ c = ClosestIndex(times, RawTs)
                                  /\ TimeDistance(times[c], RawTs) <= TimeDistance(times[j], RawTs)
  BY <1>8, <1>11, <1>12, <1>13, ClosestIs
<1>15. times[c] = Etrigs[c].time /\ times[j] = own.etrig
  BY <1>8 DEF times
<1>16. Etrigs[c].code = own.code
  <2> SUFFICES ASSUME Etrigs[c].code # own.code PROVE FALSE
    OBVIOUS
  <2>1. TimeDistance(own.etrig, RawTs) < TimeDistance(Etrigs[c].time, RawTs)
    BY <1>7, <1>9
  <2>2. own.etrig \in Int /\ Etrigs[c].time \in Int
    BY <1>9 DEF OwnIsClosest
  <2>3. TimeDistance(own.etrig, RawTs) \in Int /\ TimeDistance(Etrigs[c].time, RawTs) \in Int
    BY <1>13, <2>2 DEF TimeDistance
  <2> QED BY <1>14, <1>15, <2>1, <2>3
<1>17. HltEtrig = Etrigs[c].code
  BY <1>10, <1>14 DEF HltEtrig, times
<1> QED BY <1>10, <1>16, <1>17

(* What FrameShift found out of the event's record, which is kept as long  *)
(* as its frames are.                                                      *)
Unpacked == tdc = [ch \in TdcChannels |-> StampsOf(ch)] /\ hlts = Unmasked
FrameInv ==
  /\ stage \in {"timing", "unpack", "shift"} \/ fConfig.mc => frameInfo = NoFrame
  /\ stage \in {"unpack", "shift"} => timing \in Timings(fConfig)
  /\ stage = "shift" => Unpacked
  /\ frameInfo # NoFrame =>
       timing \in Timings(fConfig) /\ Unpacked /\ ~ReferenceMissing /\ frameInfo = Shifted

(* The frames depend on nothing else.                                      *)
LEMMA ShiftedStays ==
  ASSUME UNCHANGED <<timing, tdc, hlts>>
  PROVE  /\ Shifted' = Shifted /\ ReferenceMissing' = ReferenceMissing
         /\ Unpacked' = Unpacked
<1>1. RawTs' = RawTs
  BY DEF RawTs
<1>2. TdcEtrig' = TdcEtrig
  BY <1>1 DEF TdcEtrig
<1>3. Etrigs' = Etrigs
  BY DEF Etrigs
<1>4. HltEtrig' = HltEtrig
  BY <1>1, <1>3 DEF HltEtrig
<1>5. Stream' = Stream
  BY <1>4 DEF Stream
<1>6. TdcTime(0)' = TdcTime(0) /\ TdcTime(2)' = TdcTime(2)
  BY <1>2 DEF TdcTime
<1>7. FrameGate' = FrameGate
  BY <1>5, <1>6 DEF FrameGate, HltTime
<1>8. FrameCrtt1' = FrameCrtt1
  BY <1>5, <1>6 DEF FrameCrtt1, HltTime
<1>9. FrameEtrig' = FrameEtrig
  BY <1>2 DEF FrameEtrig
<1>10. Shifted' = Shifted
  BY <1>5, <1>7, <1>8, <1>9 DEF Shifted
<1>11. ReferenceMissing' = ReferenceMissing
  BY <1>3, <1>5 DEF ReferenceMissing
<1>12. Unpacked' = Unpacked
  BY DEF Unpacked, StampsOf, Unmasked
<1> QED BY <1>10, <1>11, <1>12

(* Every step keeps it.                                                    *)
LEMMA FrameInvKept ==
  ASSUME ChainTyped, FrameInv, Next
  PROVE  FrameInv'
<1>1. IsTiming(timing) /\ (stage \in Reading => ~fConfig.mc)
  BY DEF ChainTyped, FramesTyped
<1>2. CASE ReadTiming /\ UNCHANGED fConfig
  BY <1>1, <1>2 DEF ReadTiming, FrameInv, Reading
<1>3. CASE UnpackTiming /\ UNCHANGED fConfig
  <2>1. stage = "unpack" /\ frameInfo = NoFrame /\ timing \in Timings(fConfig)
    BY <1>3 DEF UnpackTiming, FrameInv
  <2>2. CASE GetTimestamps /\ stage' = "shift"
    <3>1. /\ tdc' = [ch \in TdcChannels |-> ClearedTdc[ch] \o StampsOf(ch)] /\ hlts' = Unmasked
          /\ UNCHANGED <<timing, frameInfo>>
      BY <2>2 DEF GetTimestamps
    <3>2. ASSUME NEW ch \in TdcChannels PROVE ClearedTdc[ch] \o StampsOf(ch) = StampsOf(ch)
      <4>1. StampsOf(ch) \in Seq(Int) /\ ClearedTdc[ch] = <<>>
        BY <1>1, StampsTyped DEF ClearedTdc
      <4> QED BY <4>1, ConcatEmptySeq
    <3>3. tdc' = [ch \in TdcChannels |-> StampsOf(ch)]
      BY <3>1, <3>2
    <3>4. (\A ch \in TdcChannels : StampsOf(ch)' = StampsOf(ch)) /\ Unmasked' = Unmasked
      BY <3>1 DEF StampsOf, Unmasked
    <3>5. Unpacked'
      BY <3>1, <3>3, <3>4 DEF Unpacked
    <3> QED BY <1>3, <2>1, <2>2, <3>1, <3>5 DEF FrameInv
  <2>3. CASE ResetEventVars /\ stage' = "thrown"
    BY <1>3, <2>1, <2>3 DEF ResetEventVars, FrameInv
  <2> QED BY <1>3, <2>2, <2>3 DEF UnpackTiming
<1>4. CASE ShiftFrames /\ UNCHANGED fConfig
  <2>1. stage = "shift" /\ frameInfo = NoFrame /\ timing \in Timings(fConfig) /\ Unpacked /\ ~fConfig.mc
    BY <1>1, <1>4 DEF ShiftFrames, FrameInv, Reading
  <2>2. CASE PutFrames /\ stage' = "read"
    <3>1. ~ReferenceMissing /\ frameInfo' = Shifted /\ UNCHANGED <<timing, tdc, hlts>>
      BY <2>2 DEF PutFrames
    <3>2. /\ frameInfo' = Shifted' /\ Unpacked' /\ ~ReferenceMissing'
      BY <2>1, <3>1, ShiftedStays
    <3> QED BY <1>4, <2>1, <2>2, <3>1, <3>2 DEF FrameInv
  <2>3. CASE stage' = "thrown" /\ UNCHANGED shiftVars
    BY <1>4, <2>1, <2>3 DEF FrameInv, shiftVars
  <2> QED BY <1>4, <2>2, <2>3 DEF ShiftFrames
<1>5. CASE NextEvent
  <2>1. frameInfo' = NoFrame /\ stage' \in {"fill", "timing"}
    BY <1>5 DEF NextEvent, FirstStage
  <2> QED BY <2>1 DEF FrameInv
<1>6. CASE UNCHANGED <<fConfig, shiftVars>> /\ stage' \notin {"timing", "unpack", "shift"}
  <2>1. UNCHANGED <<fConfig, timing, tdc, hlts, frameInfo>>
    BY <1>6 DEF shiftVars
  <2>2. Shifted' = Shifted /\ ReferenceMissing' = ReferenceMissing /\ Unpacked' = Unpacked
    BY <2>1, ShiftedStays
  <2>3. fConfig.mc => frameInfo = NoFrame
    BY DEF FrameInv
  <2>4. frameInfo # NoFrame =>
          timing \in Timings(fConfig) /\ Unpacked /\ ~ReferenceMissing /\ frameInfo = Shifted
    BY DEF FrameInv
  <2> QED BY <1>6, <2>1, <2>2, <2>3, <2>4 DEF FrameInv
<1>7. CASE Simulate \/ ReadEvent \/ StripHits \/ Cluster \/ Veto \/ Objects
  <2>1. CASE Simulate
    <3>1. UNCHANGED <<fConfig, shiftVars>>
      BY <2>1 DEF Simulate, FillTaggers, NegativeTime, CreateData, LookAtStrip, EndTagger, eventVars
    <3>2. stage' \notin {"timing", "unpack", "shift"}
      BY <2>1 DEF Simulate, FillTaggers, NegativeTime, CreateData, StartTagger, LookAtStrip, EndTagger,
                  eventVars
    <3> QED BY <1>6, <3>1, <3>2
  <2>2. CASE ReadEvent \/ StripHits
    BY <1>6, <2>2 DEF ReadEvent, StripHits, ProduceStripHits, UnixTimestampsDiffer
  <2>3. CASE Cluster \/ Veto \/ Objects
    BY <1>6, <2>3 DEF Cluster, CreateCluster, ProduceSpacePoints, Veto, ProduceVeto, Objects,
                      ProduceBlobs, ProduceTracks
  <2> QED BY <1>7, <2>1, <2>2, <2>3
<1>8. CASE DecideFrames
  BY <1>2, <1>3, <1>4, <1>8 DEF DecideFrames
<1> QED BY <1>5, <1>7, <1>8 DEF Next

(* The frames of a record whose neighbours are apart are its own.          *)
LEMMA OwnFrames ==
  ASSUME NeighboursApart, ChainTyped, FrameInv
  PROVE  FrameIsOwn
<1> SUFFICES ASSUME frameInfo # NoFrame PROVE FrameIsOwn
  BY DEF FrameIsOwn
<1> DEFINE own == timing.own
           etrig == own.etrig + ShiftTdcEtrig2PtbEtrig
           gate == own.gate + ShiftTdcRwm2PtbGate
           Recorded(ch, t) == [ch |-> ch, time |-> t] \in ToSet(timing.tdc)
           gateHlt == IF own.stream = "beam" THEN BeamGateHlt ELSE OffbeamGateHlt
           gates == Selected(timing.ptb, {i \in DOMAIN timing.ptb : gateHlt \in timing.ptb[i].bits})
           tdcGate == own.stream = "beam" /\ \E s \in ToSet(timing.tdc) : s.ch = 2
           sameStream == \E w \in ToSet(timing.ptb) :
                           own.code \in w.bits /\ w.time * PtbTick = own.etrig
           ownEtrig == Recorded(4, etrig)
<1>1. /\ timing \in Timings(fConfig) /\ Unpacked /\ ~ReferenceMissing /\ frameInfo = Shifted
      /\ ~fConfig.mc
  BY DEF FrameInv
<1>2. fConfig \in Configs
  BY DEF ChainTyped
<1>3. IsTiming(timing) /\ OwnIsClosest(timing) /\ 0 \notin PtbEtrigHlts
  BY <1>1, <1>2, InputsAssumption DEF NeighboursApart
<1>4. /\ own.code \in PtbEtrigHlts /\ own.stream = StreamOf(own.code)
      /\ own.etrig \in Nat /\ own.gate \in Nat
  BY <1>3 DEF OwnIsClosest
<1>5. /\ tdc[4] = StampsOf(4) /\ tdc[2] = StampsOf(2) /\ hlts = Unmasked
      /\ StampsOf(4) \in Seq(Int) /\ StampsOf(2) \in Seq(Int)
  BY <1>1, <1>3, StampsTyped DEF Unpacked, TdcChannels
<1>6. /\ ShiftTdcEtrig2PtbEtrig \in Nat /\ ShiftTdcRwm2PtbGate \in Nat /\ PtbTick \in Nat
      /\ BeamGateHlt \in 1 .. 31 /\ OffbeamGateHlt \in 1 .. 31
  BY FrameShiftAssumption
<1>7. RawTs \in Int /\ RawTs = timing.header - RawTSCorrection
  BY <1>3, FrameShiftAssumption DEF RawTs, IsTiming
<1>8. frameInfo.etrig = FromTdc(TdcEtrig, ShiftTdcEtrig2PtbEtrig)
  BY <1>1 DEF Shifted, FrameEtrig
<1>9. ASSUME ownEtrig PROVE TdcEtrig = etrig
  <2>1. etrig \in ToSet(StampsOf(4))
    BY <1>3, <1>9, StampsAre
  <2>2. ASSUME NEW x \in ToSet(StampsOf(4)), x # etrig
        PROVE  TimeDistance(etrig, RawTs) < TimeDistance(x, RawTs)
    <3>1. PICK s \in ToSet(timing.tdc) : s.ch = 4 /\ s.time = x
      BY <1>3, StampsAre
    <3> QED BY <1>3, <1>7, <2>2, <3>1 DEF OwnIsClosest
  <2> QED BY <1>5, <1>7, <2>1, <2>2, OwnFound DEF TdcEtrig
<1>10. ASSUME ownEtrig PROVE frameInfo.etrig.time = own.etrig
  <2>1. frameInfo.etrig.time = etrig - ShiftTdcEtrig2PtbEtrig
    BY <1>8, <1>9, <1>10 DEF FromTdc
  <2> QED BY <1>4, <1>6, <2>1
<1>11. ASSUME sameStream PROVE Stream = own.stream
  <2>1. PICK w \in ToSet(timing.ptb) : own.code \in w.bits /\ w.time * PtbTick = own.etrig
    BY <1>11
  <2>2. HltEtrig = own.code
    BY <1>3, <1>5, <2>1, OwnCode
  <2> QED BY <1>4, <2>2 DEF Stream
<1>12. ASSUME sameStream, own.stream = "xmuon" PROVE frameInfo.default = frameInfo.etrig
  BY <1>1, <1>11, <1>12 DEF Shifted
<1>13. ASSUME sameStream, own.stream # "xmuon"
       PROVE  \/ frameInfo.default.time = own.gate
              \/ tdcGate /\ ~(ownEtrig /\ Recorded(2, gate))
              \/ ~tdcGate /\ gates # <<>> /\ Last(gates).time * PtbTick # own.gate
              \/ ~tdcGate /\ gates = <<>> /\ frameInfo.default = NoShift
  <2>1. frameInfo.default = FrameGate /\ Stream = own.stream
    BY <1>1, <1>11, <1>13 DEF Shifted
  <2>2. FrameGate = FirstOf(IF own.stream = "beam" THEN TdcTime(2) ELSE Unset, ShiftTdcRwm2PtbGate,
                            HltTime(gateHlt))
    BY <2>1 DEF FrameGate
  <2>3. ASSUME tdcGate, ownEtrig, Recorded(2, gate) PROVE frameInfo.default.time = own.gate
    <3>1. TdcEtrig = etrig /\ etrig \in Int
      BY <1>4, <1>6, <1>9, <2>3
    <3>2. gate \in ToSet(StampsOf(2))
      BY <1>3, <2>3, StampsAre
    <3>3. ASSUME NEW x \in ToSet(StampsOf(2)), x # gate
          PROVE  TimeDistance(gate, etrig) < TimeDistance(x, etrig)
      <4>1. PICK s \in ToSet(timing.tdc) : s.ch = 2 /\ s.time = x
        BY <1>3, StampsAre
      <4> QED BY <1>3, <3>3, <4>1 DEF OwnIsClosest
    <3>4. TdcTime(2) = gate
      BY <1>5, <3>1, <3>2, <3>3, OwnFound DEF TdcTime
    <3>5. gate # Unset /\ gate - ShiftTdcRwm2PtbGate = own.gate
      BY <1>4, <1>6 DEF Unset
    <3> QED BY <2>1, <2>2, <2>3, <3>4, <3>5 DEF FirstOf, FromTdc
  <2>4. ASSUME ~tdcGate
        PROVE  \/ frameInfo.default.time = own.gate
               \/ gates # <<>> /\ Last(gates).time * PtbTick # own.gate
               \/ gates = <<>> /\ frameInfo.default = NoShift
    <3>1. own.stream = "beam" => TdcTime(2) = Unset
      <4> SUFFICES ASSUME own.stream = "beam" PROVE TdcTime(2) = Unset
        OBVIOUS
      <4>1. ToSet(StampsOf(2)) = {}
        BY <1>3, <2>4, StampsAre
      <4>2. StampsOf(2) = <<>>
        <5>1. DOMAIN StampsOf(2) = {}
          BY <4>1 DEF ToSet
        <5> QED BY <1>5, <5>1, EmptySeq
      <4> QED BY <1>5, <4>2 DEF TdcTime, FindClosest
    <3>2. FrameGate = IF HltTime(gateHlt) # Unset THEN FromPtb(HltTime(gateHlt)) ELSE NoShift
      BY <2>2, <3>1 DEF FirstOf
    <3>3. gateHlt \in 1 .. 31
      BY <1>6
    <3> DEFINE W == WordsWith(gateHlt)
    <3>4. HltTime(gateHlt) = IF W = {} THEN Unset ELSE timing.ptb[Max(W)].time * PtbTick
      BY <1>3, <1>5, <3>3, LastWord
    <3>5. /\ W = {} => gates = <<>>
          /\ W # {} => gates # <<>> /\ Last(gates) = timing.ptb[Max(W)]
      <4>1. PICK p : p = timing.ptb
        OBVIOUS
      <4> DEFINE R == [bits : SUBSET (0 .. 31), time : Nat]
      <4>2. p \in Seq(R) /\ W \subseteq DOMAIN p /\ gates = Selected(p, W)
        BY <1>3, <4>1 DEF IsTiming, WordsWith
      <4> HIDE DEF R, W, gates
      <4>3. /\ W = {} => Selected(p, W) = <<>>
            /\ W # {} => Selected(p, W) # <<>> /\ Last(Selected(p, W)) = p[Max(W)]
        BY <4>2, SelectedLast
      <4> QED BY <4>1, <4>2, <4>3
    <3>6. CASE W = {}
      BY <2>1, <3>2, <3>4, <3>5, <3>6
    <3>7. CASE W # {}
      <4>1. Max(W) \in DOMAIN timing.ptb
        <5>1. W \subseteq DOMAIN timing.ptb
          BY DEF WordsWith
        <5>2. DOMAIN timing.ptb = 1 .. Len(timing.ptb) /\ Len(timing.ptb) \in Nat
          BY <1>3 DEF IsTiming
        <5> HIDE DEF W
        <5>3. IsFiniteSet(W) /\ \A x \in W : x \in Int
          <6>1. IsFiniteSet(1 .. Len(timing.ptb))
            BY <5>2, FS_Interval
          <6>2. W \subseteq 1 .. Len(timing.ptb)
            BY <5>1, <5>2
          <6>3. IsFiniteSet(W)
            BY <6>1, <6>2, FS_Subset
          <6> QED BY <6>2, <6>3
        <5> QED BY <3>7, <5>1, <5>3, Extremes
      <4>2. timing.ptb[Max(W)].time \in Nat
        <5> DEFINE R == [bits : SUBSET (0 .. 31), time : Nat]
        <5>1. PICK p, m : p = timing.ptb /\ m = Max(W)
          OBVIOUS
        <5>2. p \in Seq(R) /\ m \in DOMAIN p
          BY <1>3, <4>1, <5>1 DEF IsTiming
        <5> HIDE DEF R
        <5>3. p[m] \in R
          BY <5>2
        <5>4. p[m].time \in Nat
          BY <5>3 DEF R
        <5> QED BY <5>1, <5>4
      <4>3. timing.ptb[Max(W)].time * PtbTick \in Nat
        BY <1>6, <4>2
      <4> HIDE DEF W, gates, gateHlt
      <4>4. HltTime(gateHlt) = timing.ptb[Max(W)].time * PtbTick /\ HltTime(gateHlt) # Unset
        BY <3>4, <3>7, <4>3 DEF Unset
      <4>5. frameInfo.default.time = timing.ptb[Max(W)].time * PtbTick
        BY <2>1, <3>2, <4>4 DEF FromPtb
      <4> QED BY <3>5, <3>7, <4>5
    <3> QED BY <3>6, <3>7
  <2> QED BY <2>3, <2>4
<1> QED BY <1>10, <1>12, <1>13 DEF FrameIsOwn

(* Whatever the events before it left, the frames of an event whose        *)
(* neighbours are apart are those of the event itself, for every record    *)
(* that is typed: its trigger's if its stamp was recorded, its gate's but  *)
(* for the three ways FrameIsOwn lists (FrameShift::produce).              *)
THEOREM FramesAreOwn ==
  ASSUME NeighboursApart
  PROVE  Spec => []FrameIsOwn
<1>1. Init => FrameInv
  <2>1. Init => frameInfo = NoFrame /\ stage \in {"fill", "timing"}
    BY DEF Init, FirstStage
  <2> QED BY <2>1 DEF FrameInv
<1>2. ChainTyped /\ FrameInv /\ [Next]_vars => FrameInv'
  <2> SUFFICES ASSUME ChainTyped, FrameInv, [Next]_vars PROVE FrameInv'
    OBVIOUS
  <2>1. CASE Next
    BY <2>1, FrameInvKept
  <2>2. CASE UNCHANGED vars
    <3>1. UNCHANGED <<fConfig, stage, timing, tdc, hlts, frameInfo>>
      BY <2>2 DEF vars, eventVars, shiftVars
    <3>2. Shifted' = Shifted /\ ReferenceMissing' = ReferenceMissing /\ Unpacked' = Unpacked
      BY <3>1, ShiftedStays
    <3> QED BY <3>1, <3>2 DEF FrameInv
  <2> QED BY <2>1, <2>2
<1>3. ChainTyped /\ FrameInv => FrameIsOwn
  BY OwnFrames
<1> QED BY <1>1, <1>2, <1>3, CRTIsKept, PTL DEF Spec

-----------------------------------------------------------------------------
(* CRTVetoProducer.  The times of the hits of a pair, by the reference,    *)
LEMMA GateTimesAdd ==
  ASSUME NEW S, IsFiniteSet(S), \A h \in S : FromGate(h) - TimingCorrection[h.strip] \in Int
  PROVE  PairTimes(S) = SumFunctionOnSet([h \in S |-> FromGate(h) - TimingCorrection[h.strip]], S)
<1> DEFINE f == [h \in S |-> FromGate(h) - TimingCorrection[h.strip]]
           Sums(g) == g = [s \in SUBSET S |->
                             IF s = {} THEN 0
                             ELSE LET x == CHOOSE x \in s : TRUE
                                  IN FromGate(x) - TimingCorrection[x.strip] + g[s \ {x}]]
           iter == CHOOSE g : Sums(g)
<1>1. \A h \in S : f[h] = FromGate(h) - TimingCorrection[h.strip] /\ f[h] \in Int
  OBVIOUS
<1> HIDE DEF f
<1>2. ASSUME NEW g PROVE Sums(g) <=> IsSum(g, S, f)
  <2>1. ASSUME NEW s \in SUBSET S, s # {}
        PROVE  LET x == CHOOSE x \in s : TRUE IN f[x] = FromGate(x) - TimingCorrection[x.strip]
    BY <1>1, <2>1
  <2> QED BY <2>1 DEF IsSum
<1>3. PICK g \in [SUBSET S -> Int] : IsSum(g, S, f)
  BY <1>1, SumExists
<1>4. Sums(iter)
  <2>1. Sums(g)
    BY <1>2, <1>3
  <2> HIDE DEF Sums
  <2> QED BY <2>1
<1>5. iter = g
  <2>1. IsSum(iter, S, f)
    BY <1>2, <1>4
  <2> HIDE DEF iter, Sums
  <2> QED BY <1>3, <2>1, SumIsUnique
<1>6. PairTimes(S) = iter[S]
  BY DEF PairTimes, MapThenSumSet, MapThenFoldSet
<1> HIDE DEF iter
<1>7. SumFunctionOnSet(f, S) = g[S]
  BY <1>3, SumOfSubsets
<1> QED BY <1>5, <1>6, <1>7 DEF f

(* by the strip hits,                                                      *)
LEMMA Ts0TimesAdd ==
  ASSUME NEW S, IsFiniteSet(S), \A h \in S : HitTime0(h) \in Int
  PROVE  MapThenSumSet(HitTime0, S) = SumFunctionOnSet([h \in S |-> HitTime0(h)], S)
<1> DEFINE f == [h \in S |-> HitTime0(h)]
           Sums(g) == g = [s \in SUBSET S |->
                             IF s = {} THEN 0
                             ELSE LET x == CHOOSE x \in s : TRUE IN HitTime0(x) + g[s \ {x}]]
           iter == CHOOSE g : Sums(g)
<1>1. \A h \in S : f[h] = HitTime0(h) /\ f[h] \in Int
  OBVIOUS
<1> HIDE DEF f
<1>2. ASSUME NEW g PROVE Sums(g) <=> IsSum(g, S, f)
  <2>1. ASSUME NEW s \in SUBSET S, s # {}
        PROVE  f[CHOOSE x \in s : TRUE] = HitTime0(CHOOSE x \in s : TRUE)
    BY <1>1, <2>1
  <2> QED BY <2>1 DEF IsSum
<1>3. PICK g \in [SUBSET S -> Int] : IsSum(g, S, f)
  BY <1>1, SumExists
<1>4. Sums(iter)
  <2>1. Sums(g)
    BY <1>2, <1>3
  <2> HIDE DEF Sums
  <2> QED BY <2>1
<1>5. iter = g
  <2>1. IsSum(iter, S, f)
    BY <1>2, <1>4
  <2> HIDE DEF iter, Sums
  <2> QED BY <1>3, <2>1, SumIsUnique
<1>6. MapThenSumSet(HitTime0, S) = iter[S]
  BY DEF MapThenSumSet, MapThenFoldSet
<1> HIDE DEF iter
<1>7. SumFunctionOnSet(f, S) = g[S]
  BY <1>3, SumOfSubsets
<1> QED BY <1>5, <1>6, <1>7 DEF f

(* and of the pairs of a cluster.                                          *)
LEMMA ClusterTimesAdd ==
  ASSUME NEW c, IsFiniteSet(CompletePairs(c)),
         \A p \in CompletePairs(c) : MapThenSumSet(HitTime0, p) \in Int
  PROVE  PairSum(c) = SumFunctionOnSet([p \in CompletePairs(c) |-> MapThenSumSet(HitTime0, p)],
                                       CompletePairs(c))
<1> DEFINE S == CompletePairs(c)
           f == [p \in S |-> MapThenSumSet(HitTime0, p)]
           Sums(g) == g = [s \in SUBSET S |->
                             IF s = {} THEN 0
                             ELSE LET x == CHOOSE x \in s : TRUE IN MapThenSumSet(HitTime0, x) + g[s \ {x}]]
           iter == CHOOSE g : Sums(g)
<1>1. PairSum(c) = iter[S]
  BY DEF PairSum, MapThenSumSet, MapThenFoldSet
<1>2. \A p \in S : f[p] = MapThenSumSet(HitTime0, p) /\ f[p] \in Int
  OBVIOUS
<1> HIDE DEF f, S
<1>3. ASSUME NEW g PROVE Sums(g) <=> IsSum(g, S, f)
  <2>1. ASSUME NEW s \in SUBSET S, s # {}
        PROVE  f[CHOOSE x \in s : TRUE] = MapThenSumSet(HitTime0, CHOOSE x \in s : TRUE)
    BY <1>2, <2>1
  <2> QED BY <2>1 DEF IsSum
<1>4. IsFiniteSet(S)
  BY DEF S
<1>5. PICK g \in [SUBSET S -> Int] : IsSum(g, S, f)
  BY <1>2, <1>4, SumExists
<1>6. Sums(iter)
  <2>1. Sums(g)
    BY <1>3, <1>5
  <2> HIDE DEF Sums
  <2> QED BY <2>1
<1>7. iter = g
  <2>1. IsSum(iter, S, f)
    BY <1>3, <1>6
  <2> HIDE DEF iter, Sums
  <2> QED BY <1>5, <1>4, <2>1, SumIsUnique
<1> HIDE DEF iter
<1>8. SumFunctionOnSet(f, S) = g[S]
  BY <1>5, <1>4, SumOfSubsets
<1> QED BY <1>1, <1>7, <1>8 DEF f, S

(* The hits of a cluster are of one tagger and close in time.              *)
GroupsInTime ==
  \A c \in clusters : \A g, h \in c :
    /\ TaggerOfHit(g) = TaggerOfHit(h)
    /\ ClusterTime(g) - ClusterTime(h) < CoincidenceTimeRequirement

(* Space points are the clusters that can be one.                          *)
PointsAre ==
  stage \in Late => spacePoints = {c \in clusters : IsComplete(c) \/ IsSingleBottom(c)}

(* Data that are read have frames, which may be those without a shift.     *)
HasFrames ==
  ~fConfig.mc /\ stage \in {"read", "hits", "clusters"} \cup Late =>
    frameInfo.default.type \in {"tdc", "ptb", "none"}

(* The flags are those of the space points.                                *)
FlagsOfPoints ==
  IF ~fConfig.mc /\ frameInfo.default.type \notin {"tdc", "ptb"} THEN NoVeto
  ELSE VetoFlags({c \in spacePoints : InVetoWindow(c)})
FlagsAre == stage \in {"blobs", "tracks", "done"} => veto = FlagsOfPoints

(* The two times of hits that are clustered by the second differ alike.    *)
HitsAlike ==
  fConfig.UseTs0 \/ \A g, h \in stripHits :
    TaggerOfHit(g) = TaggerOfHit(h) /\ TaggerOfHit(g) \notin BottomTaggers =>
      g.ts0 - g.ts1 = h.ts0 - h.ts1

(* The flags depend on nothing else.                                       *)
LEMMA FlagsStay ==
  ASSUME UNCHANGED <<fConfig, frameInfo, spacePoints>>
  PROVE  FlagsOfPoints' = FlagsOfPoints
<1>1. \A c : CompletePairs(c)' = CompletePairs(c) /\ Halves(c)' = Halves(c)
  BY DEF Halves, CompletePairs
<1>2. \A c : PairSum(c)' = PairSum(c)
  BY DEF PairSum, MapThenSumSet, MapThenFoldSet, HitTime0, CompletePairs
<1>3. \A c : InVetoWindow(c)' <=> InVetoWindow(c)
  BY <1>1, <1>2 DEF InVetoWindow
<1>4. \A P : VetoFlags(P)' = VetoFlags(P)
  BY DEF VetoFlags, WallOf, TaggerOfHit, TaggerOfStrip
<1>5. PICK P : P = {c \in spacePoints : InVetoWindow(c)}
  OBVIOUS
<1>6. P = {c \in spacePoints : InVetoWindow(c)}'
  BY <1>3, <1>5
<1> QED BY <1>4, <1>5, <1>6 DEF FlagsOfPoints, NoVeto

(* Every step keeps what is said of the clusters,                          *)
LEMMA GroupsKept ==
  ASSUME HitsTyped, ClusterInv, GroupsInTime, Next
  PROVE  GroupsInTime'
<1>1. CASE UNCHANGED <<fConfig, clusters>>
  BY <1>1 DEF GroupsInTime, ClusterTime, TaggerOfHit, TaggerOfStrip
<1>2. CASE clusters' = {}
  BY <1>2 DEF GroupsInTime
<1>3. CASE CreateCluster
  <2> DEFINE H == TaggerHits
             e == Earliest(H)
             group == TimeGroup(H)
  <2>1. clusters' = clusters \cup SplitCluster(group) /\ UNCHANGED fConfig
    BY <1>3 DEF CreateCluster
  <2>2. H \subseteq stripHits /\ \A g, h \in H : TaggerOfHit(g) <= TaggerOfHit(h)
    BY DEF TaggerHits, ClusterInv
  <2>3. group \subseteq H /\ \A h \in group : ClusterTime(h) - ClusterTime(e) < CoincidenceTimeRequirement
    BY DEF TimeGroup
  <2>4. H # {} => e \in H /\ \A g \in H : ClusterTime(e) <= ClusterTime(g)
    <3> HIDE DEF H
    <3> QED BY <2>2, EarliestIs
  <2>5. \A h \in H : TaggerOfHit(h) \in Int /\ ClusterTime(h) \in Int
    <3> HIDE DEF H
    <3>1. \A h \in H : h.strip \in Strips /\ h.ts0 \in Int /\ h.ts1 \in Int
      BY <2>2 DEF HitsTyped
    <3>2. \A h \in H : TaggerOfHit(h) \in Nat
      BY <3>1, Geometry DEF TaggerOfHit, TaggerOfStrip
    <3>3. \A h \in H : ClusterTime(h) \in Int
      BY <3>1 DEF ClusterTime
    <3> QED BY <3>2, <3>3
  <2>6. CoincidenceTimeRequirement \in Int
    BY ClusterAssumption
  <2> HIDE DEF H, e, group
  <2>7. ASSUME NEW c \in SplitCluster(group), NEW g \in c, NEW h \in c
        PROVE  /\ TaggerOfHit(g) = TaggerOfHit(h)
               /\ ClusterTime(g) - ClusterTime(h) < CoincidenceTimeRequirement
    <3>1. g \in group /\ h \in group /\ g \in H /\ h \in H
      BY <2>3, <2>7, ClustersOfHits
    <3>2. e \in H /\ ClusterTime(e) <= ClusterTime(h)
      BY <2>4, <3>1
    <3>3. ClusterTime(g) - ClusterTime(e) < CoincidenceTimeRequirement
      BY <2>3, <3>1
    <3>4. /\ TaggerOfHit(g) \in Int /\ TaggerOfHit(h) \in Int
          /\ ClusterTime(g) \in Int /\ ClusterTime(h) \in Int /\ ClusterTime(e) \in Int
      BY <2>5, <3>1, <3>2
    <3>5. TaggerOfHit(g) <= TaggerOfHit(h) /\ TaggerOfHit(h) <= TaggerOfHit(g)
      BY <2>2, <3>1
    <3> QED BY <2>6, <3>2, <3>3, <3>4, <3>5
  <2>8. ASSUME NEW c \in clusters', NEW g \in c, NEW h \in c
        PROVE  /\ TaggerOfHit(g) = TaggerOfHit(h)
               /\ ClusterTime(g) - ClusterTime(h) < CoincidenceTimeRequirement
    BY <2>1, <2>7 DEF GroupsInTime
  <2> QED BY <2>1, <2>8 DEF GroupsInTime, ClusterTime, TaggerOfHit, TaggerOfStrip
<1>4. CASE Simulate \/ DecideFrames \/ ReadEvent \/ StripHits
  <2>1. UNCHANGED <<fConfig, clusters>>
    BY <1>4 DEF Simulate, FillTaggers, NegativeTime, CreateData, LookAtStrip, EndTagger, StartTagger,
                eventVars, DecideFrames, ReadEvent, StripHits, ProduceStripHits, UnixTimestampsDiffer
  <2> QED BY <1>1, <2>1
<1>5. CASE Cluster
  <2>1. CASE ProduceSpacePoints
    BY <1>1, <2>1 DEF ProduceSpacePoints
  <2> QED BY <1>3, <1>5, <2>1 DEF Cluster
<1>6. CASE Veto \/ Objects
  BY <1>1, <1>6 DEF Veto, ProduceVeto, Objects, ProduceBlobs, ProduceTracks
<1>7. CASE NextEvent
  BY <1>2, <1>7 DEF NextEvent
<1> QED BY <1>4, <1>5, <1>6, <1>7 DEF Next

(* the space points and the flags,                                         *)
LEMMA FlagsKept ==
  ASSUME PointsAre, FlagsAre, Next
  PROVE  PointsAre' /\ FlagsAre'
<1>1. CASE Simulate \/ DecideFrames \/ ReadEvent \/ StripHits \/ NextEvent
  <2>1. stage' \notin Late
    BY <1>1 DEF Simulate, FillTaggers, NegativeTime, CreateData, LookAtStrip, EndTagger, StartTagger,
                eventVars, DecideFrames, ReadTiming, UnpackTiming, ShiftFrames, ReadEvent, StripHits,
                ProduceStripHits, UnixTimestampsDiffer, NextEvent, FirstStage, Late
  <2> QED BY <2>1 DEF PointsAre, FlagsAre, Late
<1>2. CASE Cluster /\ CreateCluster
  <2>1. stage' = "clusters"
    BY <1>2 DEF CreateCluster
  <2> QED BY <2>1 DEF PointsAre, FlagsAre, Late
<1>3. CASE Cluster /\ ProduceSpacePoints
  <2>1. /\ spacePoints' = {c \in clusters : IsComplete(c) \/ IsSingleBottom(c)}
        /\ stage' = "points" /\ UNCHANGED clusters
    BY <1>3 DEF ProduceSpacePoints
  <2>2. PointsAre'
    BY <2>1 DEF PointsAre, IsComplete, CompletePairs, IsSingleBottom, TaggerOfHit, TaggerOfStrip
  <2> QED BY <2>1, <2>2 DEF FlagsAre
<1>4. CASE Veto
  <2>1. /\ stage = "points" /\ stage' = "blobs" /\ veto' = FlagsOfPoints
        /\ UNCHANGED <<fConfig, clusters, spacePoints, frameInfo>>
    BY <1>4 DEF Veto, ProduceVeto, shiftVars, FlagsOfPoints
  <2>2. FlagsOfPoints' = FlagsOfPoints
    BY <2>1, FlagsStay
  <2>3. PointsAre'
    BY <2>1 DEF PointsAre, Late, IsComplete, CompletePairs, IsSingleBottom, TaggerOfHit, TaggerOfStrip
  <2> QED BY <2>1, <2>2, <2>3 DEF FlagsAre
<1>5. CASE Objects
  <2>1. /\ stage \in {"blobs", "tracks"} /\ UNCHANGED <<fConfig, clusters, spacePoints, frameInfo, veto>>
    BY <1>5 DEF Objects, ProduceBlobs, ProduceTracks, shiftVars
  <2>2. FlagsOfPoints' = FlagsOfPoints
    BY <2>1, FlagsStay
  <2>3. PointsAre'
    BY <2>1 DEF PointsAre, Late, IsComplete, CompletePairs, IsSingleBottom, TaggerOfHit, TaggerOfStrip
  <2> QED BY <2>1, <2>2, <2>3 DEF FlagsAre
<1> QED BY <1>1, <1>2, <1>3, <1>4, <1>5 DEF Next, Cluster

(* the frames,                                                             *)
LEMMA TypesKept ==
  ASSUME ChainTyped, HasFrames, Next
  PROVE  HasFrames'
<1>1. stage \in Simulating => fConfig.mc
  BY DEF ChainTyped
<1>2. CASE Simulate
  <2>1. stage \in Simulating /\ UNCHANGED fConfig
    BY <1>2 DEF Simulate, FillTaggers, NegativeTime, CreateData, LookAtStrip, EndTagger, eventVars,
                Simulating
  <2> QED BY <1>1, <2>1 DEF HasFrames
<1>3. CASE DecideFrames
  <2>1. CASE PutFrames /\ UNCHANGED fConfig
    <3>1. frameInfo' = Shifted
      BY <2>1 DEF PutFrames
    <3>2. Shifted.default.type \in {"tdc", "ptb", "none"}
      <4>1. FrameEtrig.type = "tdc" /\ FrameGate.type \in {"tdc", "ptb", "none"}
        BY DEF FrameEtrig, FrameGate, FirstOf, FromTdc, FromPtb, NoShift
      <4> QED BY <4>1 DEF Shifted
    <3> QED BY <3>1, <3>2 DEF HasFrames
  <2>2. CASE stage' \notin {"read", "hits", "clusters"} \cup Late
    BY <2>2 DEF HasFrames
  <2> QED BY <1>3, <2>1, <2>2 DEF DecideFrames, ReadTiming, UnpackTiming, ShiftFrames, Late
<1>4. CASE ReadEvent \/ StripHits \/ Cluster \/ Veto \/ Objects
  <2>1. UNCHANGED <<fConfig, frameInfo>>
    BY <1>4 DEF ReadEvent, StripHits, ProduceStripHits, UnixTimestampsDiffer, Cluster, CreateCluster,
                ProduceSpacePoints, Veto, ProduceVeto, Objects, ProduceBlobs, ProduceTracks, shiftVars
  <2>2. stage \in {"read", "hits", "clusters"} \cup Late
    BY <1>4 DEF ReadEvent, StripHits, ProduceStripHits, UnixTimestampsDiffer, Cluster, CreateCluster,
                ProduceSpacePoints, Veto, ProduceVeto, Objects, ProduceBlobs, ProduceTracks, Late
  <2> QED BY <2>1, <2>2 DEF HasFrames
<1>5. CASE NextEvent
  <2>1. stage' \notin {"read", "hits", "clusters"} \cup Late
    BY <1>5 DEF NextEvent, FirstStage, Late
  <2> QED BY <2>1 DEF HasFrames
<1> QED BY <1>2, <1>3, <1>4, <1>5 DEF Next

(* and of the times of hits: what differs between two boards are the       *)
(* delays.                                                                 *)
LEMMA AlikeKept ==
  ASSUME HitsReferenced, ChainTyped, SimInv, HitsTyped, HitsAlike, Next
  PROVE  HitsAlike'
<1>1. CASE stripHits' = {}
  BY <1>1 DEF HitsAlike
<1>2. CASE UNCHANGED <<fConfig, stripHits>>
  BY <1>2 DEF HitsAlike, TaggerOfHit, TaggerOfStrip
<1>3. CASE ProduceStripHits /\ UNCHANGED shiftVars
  <2>1. stripHits' = UNION {CreateStripHits(i) : i \in DOMAIN febData} /\ UNCHANGED fConfig
    BY <1>3 DEF ProduceStripHits
  <2>2. SUFFICES ASSUME ~fConfig.UseTs0, NEW i \in DOMAIN febData, NEW g \in CreateStripHits(i),
                        NEW j \in DOMAIN febData, NEW h \in CreateStripHits(j),
                        TaggerOfHit(g) = TaggerOfHit(h), TaggerOfHit(g) \notin BottomTaggers
                 PROVE  g.ts0 - g.ts1 = h.ts0 - h.ts1
    BY <2>1 DEF HitsAlike, TaggerOfHit, TaggerOfStrip
  <2>3. /\ fConfig.mc
        /\ \A f, k \in FEBs :
             TaggerOf[f] = TaggerOf[k] /\ TaggerOf[f] \notin BottomTaggers =>
               t0DelayCorrection[f] - t1DelayCorrection[f] = t0DelayCorrection[k] - t1DelayCorrection[k]
    BY <2>2 DEF HitsReferenced, ChainTyped
  <2>4. Made(febData)
    BY <2>3 DEF SimInv
  <2> DEFINE D(f) == t0DelayCorrection[f.mac5] - t1DelayCorrection[f.mac5]
  <2>5. PICK r \in Int, ns \in Int : r = RefTimeS /\ ns = RefTimeNs
    BY ReferenceTyped
  <2> DEFINE moved == (IF fConfig.CorrectForDifferentSecond THEN Seconds(r) ELSE 0)
                        - (IF fConfig.ReferenceTs0 THEN ns ELSE 0)
  <2>6. moved \in Int
    <3>1. Seconds(r) \in Int
      BY HitAssumption DEF Seconds
    <3> QED BY <2>5, <3>1
  <2>7. ASSUME NEW k \in DOMAIN febData, NEW x \in CreateStripHits(k)
        PROVE  /\ x.ts0 - x.ts1 = D(febData[k]) + moved
               /\ febData[k].mac5 \in FEBs /\ TaggerOfHit(x) = TaggerOf[febData[k].mac5]
    <3>1. PICK f : f = febData[k]
      OBVIOUS
    <3>2. f.mac5 \in FEBs /\ f.unixs = 0 /\ f.ts \in Nat
      BY <2>4, <3>1 DEF Made, FromStrips
    <3>3. x.ts0 = Time0(f) /\ x.ts1 = Time1(f) /\ x.strip \in StripsOf(f.mac5)
      <4>1. CreateStripHits(k) # {}
        BY <2>7
      <4>2. CreateStripHits(k) = {[strip |-> s, ts0 |-> Time0(f), ts1 |-> Time1(f), feb |-> k] :
                                    s \in {s \in StripsOf(f.mac5) : IsHit(f, s)}}
        BY <3>1, <4>1 DEF CreateStripHits
      <4>3. PICK s \in StripsOf(f.mac5) :
              x = [strip |-> s, ts0 |-> Time0(f), ts1 |-> Time1(f), feb |-> k]
        BY <2>7, <4>2
      <4> QED BY <4>3
    <3>4. PICK d0 \in Int, d1 \in Int : d0 = t0DelayCorrection[f.mac5] /\ d1 = t1DelayCorrection[f.mac5]
      BY <3>2, HitAssumption
    <3>5. UnixDiff(f) = r
      BY <2>5, <3>2 DEF UnixDiff
    <3>6. Time1(f) = f.ts + d1 /\ D(f) = d0 - d1
      BY <3>4 DEF Time1
    <3>7. PICK a \in Int, b \in Int :
            /\ a = (IF fConfig.CorrectForDifferentSecond THEN Seconds(r) ELSE 0)
            /\ b = (IF fConfig.ReferenceTs0 THEN ns ELSE 0)
      <4>1. Seconds(r) \in Int
        BY HitAssumption DEF Seconds
      <4> QED BY <2>5, <4>1
    <3>8. Time0(f) = (f.ts + d0) + a - b /\ moved = a - b
      BY <2>5, <3>4, <3>5, <3>7 DEF Time0, Raw
    <3>9. TaggerOfHit(x) = TaggerOf[f.mac5]
      BY <3>3 DEF TaggerOfHit, TaggerOfStrip, StripsOf
    <3> HIDE DEF moved, D
    <3> QED BY <3>1, <3>2, <3>3, <3>4, <3>6, <3>7, <3>8, <3>9
  <2> HIDE DEF moved
  <2>8. D(febData[i]) = D(febData[j])
    BY <2>2, <2>3, <2>7
  <2> HIDE DEF D
  <2> QED BY <2>7, <2>8
<1> QED BY <1>1, <1>2, <1>3, HitSteps

VetoInv == GroupsInTime /\ PointsAre /\ FlagsAre /\ HasFrames /\ HitsAlike

(* A time is its whole seconds and what is left.                           *)
LEMMA SecondsAndRest ==
  ASSUME NEW t \in Int, NEW S \in Nat \ {0}
  PROVE  ((t \div S) * S) + (t % S) = t
OBVIOUS

(* Hits that have a reference are as far from it as they say.              *)
LEMMA GateTimes ==
  ASSUME HitsReferenced, ChainTyped, HitsTimed, Referenced, NEW h \in stripHits
  PROVE  FromGate(h) = h.ts0
<1>1. CASE fConfig.mc
  BY <1>1 DEF FromGate
<1>2. CASE ~fConfig.mc
  <2>1. fConfig.ReferenceTs0
    BY <1>2 DEF HitsReferenced, ChainTyped
  <2>2. PICK t \in Int, S \in Nat \ {0} : t = frameInfo.default.time /\ S = Second
    BY HitAssumption DEF ChainTyped, FramesTyped
  <2>3. Reference = ((t \div S) * S) + (t % S)
    BY <1>2, <2>1, <2>2 DEF Reference, RefTimeS, RefTimeNs, RefTime, Referenced
  <2>4. ((t \div S) * S) + (t % S) = t
    BY <2>2, SecondsAndRest
  <2> QED BY <1>2, <2>1, <2>2, <2>3, <2>4 DEF FromGate, HitsTimed
<1> QED BY <1>1, <1>2

(* Those of one cluster outside the bottom are close in that time.         *)
LEMMA ClusterClose ==
  ASSUME HitsReferenced, ChainTyped, HitsTyped, HitsTimed, Referenced, GroupsInTime, HitsAlike,
         NEW c \in clusters, c \subseteq stripHits, NEW g \in c, NEW h \in c
  PROVE  /\ TaggerOfHit(g) = TaggerOfHit(h)
         /\ TaggerOfHit(g) \notin BottomTaggers =>
              Distance(FromGate(g), FromGate(h)) < CoincidenceTimeRequirement
<1>1. /\ TaggerOfHit(g) = TaggerOfHit(h)
      /\ ClusterTime(g) - ClusterTime(h) < CoincidenceTimeRequirement
      /\ ClusterTime(h) - ClusterTime(g) < CoincidenceTimeRequirement
  BY DEF GroupsInTime
<1>2. FromGate(g) = g.ts0 /\ FromGate(h) = h.ts0
  BY GateTimes
<1>3. g.ts0 \in Int /\ h.ts0 \in Int /\ g.ts1 \in Int /\ h.ts1 \in Int
  BY DEF HitsTyped
<1>4. ASSUME TaggerOfHit(g) \notin BottomTaggers
      PROVE  ClusterTime(g) - ClusterTime(h) = g.ts0 - h.ts0 /\ ClusterTime(h) - ClusterTime(g) = h.ts0 - g.ts0
  <2>1. CASE fConfig.UseTs0
    BY <2>1 DEF ClusterTime
  <2>2. CASE ~fConfig.UseTs0
    <3>1. g.ts0 - g.ts1 = h.ts0 - h.ts1
      BY <1>1, <1>4, <2>2 DEF HitsAlike
    <3>2. ClusterTime(g) = g.ts1 /\ ClusterTime(h) = h.ts1
      BY <2>2 DEF ClusterTime
    <3> QED BY <1>3, <3>1, <3>2
  <2> QED BY <2>1, <2>2
<1> QED BY <1>1, <1>2, <1>3, <1>4 DEF Distance

(* The pairs of a set of hits are some of those of all hits.               *)
LEMMA PairsAmong ==
  ASSUME NEW S, IsFiniteSet(S), NEW c, c \subseteq S
  PROVE  /\ IsFiniteSet(c) /\ IsFiniteSet(CompletePairs(c)) /\ CompletePairs(c) \subseteq CompletePairs(S)
         /\ \A p \in CompletePairs(c) : p # {} /\ p \subseteq c /\ IsFiniteSet(p) /\ Cardinality(p) = 2
         /\ CompletePairs(c) # {} => Cardinality(c) # 1
<1> DEFINE I == {y \in c \X c :
                   /\ Orientation[ModuleOf[y[1].strip]] # Orientation[ModuleOf[y[2].strip]]
                   /\ CheckOverlap(Crossing, y[1].strip, y[2].strip)}
           f == [x \in I |-> {x[1], x[2]}]
           pairs == CompletePairs(c)
<1>1. pairs = {f[x] : x \in I}
  BY DEF CompletePairs
<1>2. IsFiniteSet(c)
  BY FS_Subset
<1>3. IsFiniteSet(I)
  <2>1. IsFiniteSet(c \X c)
    BY <1>2, FS_Product
  <2>2. I \subseteq c \X c
    OBVIOUS
  <2> HIDE DEF I
  <2> QED BY <2>1, <2>2, FS_Subset
<1>4. IsFiniteSet(pairs)
  <2> HIDE DEF f, I, pairs
  <2> QED BY <1>1, <1>3, ImageOf
<1>5. pairs \subseteq CompletePairs(S)
  BY DEF CompletePairs
<1>6. ASSUME NEW p \in pairs
      PROVE  p # {} /\ p \subseteq c /\ IsFiniteSet(p) /\ Cardinality(p) = 2 /\ Cardinality(c) # 1
  <2>1. PICK x \in I : p = {x[1], x[2]}
    BY <1>1, <1>6
  <2>2. PICK g \in c, h \in c : p = {g, h} /\ g # h
    <3>1. x[1] \in c /\ x[2] \in c /\ x[1] # x[2]
      OBVIOUS
    <3> QED BY <2>1, <3>1
  <2>3. IsFiniteSet({g}) /\ Cardinality({g}) = 1 /\ p = {g} \cup {h}
    BY <2>2, FS_Singleton
  <2>4. IsFiniteSet(p) /\ Cardinality(p) = 2
    <3>1. h \notin {g}
      BY <2>2
    <3>2. Cardinality({g} \cup {h}) = Cardinality({g}) + 1 /\ IsFiniteSet({g} \cup {h})
      BY <2>3, <3>1, FS_AddElement
    <3> QED BY <2>3, <3>2
  <2>5. Cardinality(c) # 1
    <3>1. Cardinality(p) <= Cardinality(c) /\ Cardinality(c) \in Nat
      BY <1>2, <2>2, FS_Subset, FS_CardinalityType
    <3> QED BY <2>4, <3>1
  <2> QED BY <2>2, <2>4, <2>5
<1> QED BY <1>2, <1>4, <1>5, <1>6

(* A pair's times are those of its hits.                                   *)
LEMMA PairTimesAre ==
  ASSUME HitsReferenced, ChainTyped, HitsTyped, HitsTimed, Referenced,
         NEW p, p \subseteq stripHits, IsFiniteSet(p)
  PROVE  PairTimes(p) = MapThenSumSet(HitTime0, p) /\ PairTimes(p) \in Int
<1> DEFINE f == [h \in p |-> HitTime0(h)]
           g == [h \in p |-> FromGate(h) - TimingCorrection[h.strip]]
<1>1. ASSUME NEW h \in p
      PROVE  FromGate(h) - TimingCorrection[h.strip] = HitTime0(h) /\ HitTime0(h) \in Int
  <2>1. FromGate(h) = h.ts0 /\ h.ts0 \in Int /\ h.strip \in Strips
    BY GateTimes DEF HitsTyped
  <2>2. TimingCorrection[h.strip] \in Nat
    BY <2>1, VetoAssumption
  <2> QED BY <2>1, <2>2 DEF HitTime0
<1>2. f = g /\ \A h \in p : f[h] \in Int
  BY <1>1
<1>3. MapThenSumSet(HitTime0, p) = SumFunctionOnSet(f, p)
  BY <1>1, Ts0TimesAdd
<1>4. PairTimes(p) = SumFunctionOnSet(g, p)
  BY <1>1, GateTimesAdd
<1> HIDE DEF f, g
<1>5. SumFunctionOnSet(f, p) \in Int
  BY <1>2, SumType
<1> QED BY <1>2, <1>3, <1>4, <1>5

(* A mean over twice as many times as pairs, within the window.            *)
LEMMA MeanWithin ==
  ASSUME NEW N \in Nat \ {0}, NEW V \in Int, NEW O \in Int, NEW s \in Int
  PROVE  /\ s + (2 * N) * O <= (2 * N) * V => s < (2 * (V - O) + 1) * N
         /\ (2 * N) * V <= s + (2 * N) * O => (2 * (V - O) - 1) * N < s
<1>1. PICK a \in Int, b \in Int : a = N * O /\ b = N * V
  OBVIOUS
<1>2. (2 * N) * O = 2 * a /\ (2 * N) * V = 2 * b
  BY <1>1
<1>3. (2 * (V - O) + 1) * N = (2 * b - 2 * a) + N /\ (2 * (V - O) - 1) * N = (2 * b - 2 * a) - N
  BY <1>1
<1> QED BY <1>2, <1>3

(* Whatever the pairs of a space point in the window, one is not after the *)
(* window and one is not before it.                                        *)
LEMMA MeanIsAmong ==
  ASSUME HitsReferenced, ChainTyped, HitsTyped, HitsTimed, Referenced,
         NEW c, c \subseteq stripHits, IsComplete(c), InVetoWindow(c)
  PROVE  \E p, q \in CompletePairs(c) : PairTimes(p) <= WindowEnd /\ WindowStart <= PairTimes(q)
<1> DEFINE S == CompletePairs(c)
           f == [p \in S |-> MapThenSumSet(HitTime0, p)]
<1>1. /\ IsFiniteSet(S) /\ S # {} /\ Cardinality(c) # 1
      /\ \A p \in S : p \subseteq stripHits /\ IsFiniteSet(p)
  BY PairsAmong DEF HitsTyped, IsComplete
<1>2. \A p \in S : PairTimes(p) = MapThenSumSet(HitTime0, p) /\ PairTimes(p) \in Int
  BY <1>1, PairTimesAre
<1>3. PICK N \in Nat \ {0} : N = Cardinality(S)
  <2> HIDE DEF S
  <2> QED BY <1>1, FS_EmptySet, FS_CardinalityType
<1>4. PairSum(c) = SumFunctionOnSet(f, S)
  BY <1>1, <1>2, ClusterTimesAdd
<1>5. \A p \in S : f[p] = PairTimes(p) /\ f[p] \in Int
  BY <1>2
<1>6. PICK O \in Int, V \in Int, W \in Int :
        O = fConfig.TimeOffset /\ V = fConfig.VetoWindow[1] /\ W = fConfig.VetoWindow[2]
  BY InputsAssumption DEF ChainTyped
<1>7. (2 * N) * V <= PairSum(c) + (2 * N) * O /\ PairSum(c) + (2 * N) * O <= (2 * N) * W
  BY <1>1, <1>3, <1>6 DEF InVetoWindow, Halves
<1> HIDE DEF S, f
<1>8. PICK s \in Int : s = SumFunctionOnSet(f, S)
  BY <1>1, <1>5, SumType
<1>9. s < (2 * (W - O) + 1) * N /\ (2 * (V - O) - 1) * N < s
  BY <1>4, <1>7, <1>8, MeanWithin
<1>10. \E p \in S : f[p] <= 2 * (W - O)
  <2> DEFINE m == 2 * (W - O) + 1
  <2>1. m \in Int /\ m * N \in Int /\ s < m * N
    BY <1>9
  <2>2. (\A p \in S : m <= f[p]) => m * N <= s
    <3> HIDE DEF m
    <3> QED BY <1>1, <1>3, <1>5, <1>8, <2>1, SumBounds
  <2>3. PICK p \in S : ~(m <= f[p])
    <3> HIDE DEF m
    <3> QED BY <2>1, <2>2
  <2> QED BY <1>5, <2>3
<1>11. \E q \in S : 2 * (V - O) <= f[q]
  <2> DEFINE m == 2 * (V - O) - 1
  <2>1. m \in Int /\ m * N \in Int /\ m * N < s
    BY <1>9
  <2>2. (\A p \in S : f[p] <= m) => s <= m * N
    <3> HIDE DEF m
    <3> QED BY <1>1, <1>3, <1>5, <1>8, <2>1, SumBounds
  <2>3. PICK p \in S : ~(f[p] <= m)
    <3> HIDE DEF m
    <3> QED BY <2>1, <2>2
  <2> QED BY <1>5, <2>3
<1> QED BY <1>5, <1>6, <1>10, <1>11 DEF WindowStart, WindowEnd, S

(* A pair is close by the time that clusters are made by, too.             *)
LEMMA PairIsClose ==
  ASSUME HitsReferenced, ChainTyped, HitsTyped, HitsTimed, Referenced, HitsAlike, NEW p \in ClosePairs
  PROVE  \E g, h \in stripHits :
           /\ p = {g, h} /\ Close(g, h)
           /\ CompletePairs(p) = {p}
<1>1. PICK g \in stripHits, h \in stripHits :
        /\ p = {g, h} /\ CheckOverlap(Crossing, g.strip, h.strip)
        /\ Orientation[ModuleOf[g.strip]] # Orientation[ModuleOf[h.strip]]
  <2>1. PICK y \in stripHits \X stripHits :
          /\ Orientation[ModuleOf[y[1].strip]] # Orientation[ModuleOf[y[2].strip]]
          /\ CheckOverlap(Crossing, y[1].strip, y[2].strip) /\ p = {y[1], y[2]}
    BY DEF ClosePairs, CompletePairs
  <2> QED BY <2>1
<1>2. CheckOverlap(Near, g.strip, h.strip) /\ CheckOverlap(Near, h.strip, g.strip)
  <2>1. {h.strip, g.strip} = {g.strip, h.strip}
    OBVIOUS
  <2> QED BY <1>1, <2>1, GeometryAssumption DEF CheckOverlap
<1>3. /\ TaggerOfHit(g) = TaggerOfHit(h) /\ TaggerOfHit(g) \notin BottomTaggers
      /\ Distance(FromGate(g), FromGate(h)) < CoincidenceTimeRequirement
  BY <1>1 DEF ClosePairs
<1>4. FromGate(g) = g.ts0 /\ FromGate(h) = h.ts0
  BY GateTimes
<1>5. g.ts0 \in Int /\ h.ts0 \in Int /\ g.ts1 \in Int /\ h.ts1 \in Int /\ CoincidenceTimeRequirement \in Int
  BY ClusterAssumption DEF HitsTyped
<1>6. /\ ClusterTime(g) - ClusterTime(h) = g.ts0 - h.ts0 /\ ClusterTime(h) - ClusterTime(g) = h.ts0 - g.ts0
      /\ ClusterTime(g) \in Int /\ ClusterTime(h) \in Int
  <2>1. CASE fConfig.UseTs0
    BY <1>5, <2>1 DEF ClusterTime
  <2>2. CASE ~fConfig.UseTs0
    <3>1. g.ts0 - g.ts1 = h.ts0 - h.ts1
      BY <1>3, <2>2 DEF HitsAlike
    <3>2. ClusterTime(g) = g.ts1 /\ ClusterTime(h) = h.ts1
      BY <2>2 DEF ClusterTime
    <3> QED BY <1>5, <3>1, <3>2
  <2> QED BY <2>1, <2>2
<1>7. /\ ClusterTime(g) - ClusterTime(h) < CoincidenceTimeRequirement
      /\ ClusterTime(h) - ClusterTime(g) < CoincidenceTimeRequirement
  BY <1>3, <1>4, <1>5, <1>6 DEF Distance
<1>8. Close(g, h) \/ Close(h, g)
  BY <1>2, <1>5, <1>6, <1>7 DEF Close
<1>9. CompletePairs(p) = {p}
  <2>1. ASSUME NEW q \in CompletePairs(p)
        PROVE  q = p
    <3>1. PICK y \in p \X p :
            /\ Orientation[ModuleOf[y[1].strip]] # Orientation[ModuleOf[y[2].strip]] /\ q = {y[1], y[2]}
      BY <2>1 DEF CompletePairs
    <3>2. y[1] \in p /\ y[2] \in p /\ y[1] # y[2]
      BY <3>1
    <3> QED BY <1>1, <3>1, <3>2
  <2>2. p \in CompletePairs(p)
    <3> DEFINE y == <<g, h>>
    <3>1. y \in p \X p /\ y[1] = g /\ y[2] = h
      BY <1>1
    <3> QED BY <1>1, <3>1 DEF CompletePairs
  <2> QED BY <2>1, <2>2
<1> QED BY <1>1, <1>8, <1>9

(* One that is alone is a space point, in the window as its times are.     *)
LEMMA LoneIsPoint ==
  ASSUME HitsReferenced, ChainTyped, HitsTyped, HitsTimed, Referenced, ClusterInv, ProductInv,
         GroupsInTime, PointsAre, HitsAlike, stage \in Late, NEW p \in LonePairs
  PROVE  p \in spacePoints /\ InVetoWindow(p)
<1>1. p \in ClosePairs /\ p \in CompletePairs(stripHits)
  BY DEF LonePairs, ClosePairs
<1>2. PICK g \in stripHits, h \in stripHits : p = {g, h} /\ Close(g, h) /\ CompletePairs(p) = {p}
  BY <1>1, PairIsClose
<1>3. p # {} /\ p \subseteq stripHits /\ IsFiniteSet(p) /\ Cardinality(p) = 2
  BY <1>1, PairsAmong DEF HitsTyped
<1>4. \A x \in stripHits : (TaggerOfHit(x) = TaggerOfHit(g) \/ TaggerOfHit(x) = TaggerOfHit(h)) => x \in p
  BY <1>2 DEF LonePairs
<1>5. Together(g, h) \/ Parted(g, h)
  <2>1. unused = {}
    BY DEF ClusterInv
  <2> QED BY <1>2, <2>1 DEF ClusterInv
<1>6. ~Parted(g, h)
  <2>1. SUFFICES ASSUME NEW e \in stripHits, TaggerOfHit(e) = TaggerOfHit(g), ClusterTime(e) < ClusterTime(g)
                 PROVE  FALSE
    BY DEF Parted
  <2>2. e = g \/ e = h
    BY <1>2, <1>4, <2>1
  <2>3. ClusterTime(g) <= ClusterTime(h)
    BY <1>2 DEF Close
  <2>4. ClusterTime(g) \in Int /\ ClusterTime(h) \in Int
    BY DEF ClusterTime, HitsTyped
  <2> QED BY <2>1, <2>2, <2>3, <2>4
<1>7. PICK c \in clusters : {g, h} \subseteq c
  BY <1>5, <1>6 DEF Together
<1>8. c = p
  <2>1. \A x \in c : TaggerOfHit(x) = TaggerOfHit(g) /\ x \in stripHits
    BY <1>7 DEF GroupsInTime, ProductInv
  <2> QED BY <1>2, <1>4, <1>7, <2>1
<1>9. p \in spacePoints
  BY <1>2, <1>7, <1>8 DEF PointsAre, IsComplete
<1>10. PICK x \in Int : x = PairTimes(p) /\ MapThenSumSet(HitTime0, p) = x
  BY <1>3, PairTimesAre
<1>11. PairSum(p) = x /\ Halves(p) = 2
  <2> DEFINE f == [q \in {p} |-> MapThenSumSet(HitTime0, q)]
  <2>1. IsFiniteSet({p}) /\ Cardinality({p}) = 1
    BY FS_Singleton
  <2>2. Halves(p) = 2
    <3>1. Cardinality(CompletePairs(p)) = 1
      BY <1>2, <2>1
    <3> QED BY <3>1 DEF Halves
  <2>3. PairSum(p) = SumFunctionOnSet(f, {p})
    <3>1. IsFiniteSet(CompletePairs(p)) /\ \A q \in CompletePairs(p) : MapThenSumSet(HitTime0, q) \in Int
      BY <1>2, <1>10, <2>1
    <3>2. PairSum(p) = SumFunctionOnSet([q \in CompletePairs(p) |-> MapThenSumSet(HitTime0, q)], CompletePairs(p))
      BY <3>1, ClusterTimesAdd
    <3> QED BY <1>2, <3>2
  <2>4. f[p] = x /\ \A q \in {p} : f[q] \in Int
    BY <1>10
  <2> HIDE DEF f
  <2>5. SumFunctionOnSet(f, {p}) = f[p] + SumFunctionOnSet(f, {p} \ {p})
    BY <2>1, <2>4, SumStep
  <2>6. SumFunctionOnSet(f, {}) = 0 /\ {p} \ {p} = {}
    BY <2>1, <2>4, SumType
  <2> QED BY <2>2, <2>3, <2>4, <2>5, <2>6
<1>12. PICK O \in Int, V \in Int, W \in Int :
         O = fConfig.TimeOffset /\ V = fConfig.VetoWindow[1] /\ W = fConfig.VetoWindow[2]
  BY InputsAssumption DEF ChainTyped
<1>13. 2 * (V - O) <= x /\ x <= 2 * (W - O)
  BY <1>10, <1>12 DEF LonePairs, WindowStart, WindowEnd
<1>14. 2 * V <= x + 2 * O /\ x + 2 * O <= 2 * W
  BY <1>13
<1>15. InVetoWindow(p)
  BY <1>3, <1>11, <1>12, <1>14 DEF InVetoWindow
<1> QED BY <1>9, <1>15

(* A space point outside the bottom and in the window has pairs that raise *)
(* its wall.                                                               *)
LEMMA PointsHavePairs ==
  ASSUME HitsReferenced, ChainTyped, HitsTyped, HitsTimed, Referenced, ProductInv,
         GroupsInTime, PointsAre, HitsAlike, stage \in Late,
         NEW c \in spacePoints, InVetoWindow(c), WallOf(c) # "bottom"
  PROVE  \E p, q \in ClosePairs : WallOfPair(p) = WallOf(c) /\ Raises(p, q)
<1>1. c \in clusters /\ c # {} /\ c \subseteq stripHits /\ (IsComplete(c) \/ IsSingleBottom(c))
  BY DEF PointsAre, ProductInv
<1>2. PICK h \in c : h = (CHOOSE x \in c : TRUE)
  BY <1>1
<1>3. \A g \in c : TaggerOfHit(g) = TaggerOfHit(h)
  BY <1>1 DEF GroupsInTime
<1>4. TaggerOfHit(h) \in Taggers
  BY <1>1, Geometry DEF HitsTyped, TaggerOfHit, TaggerOfStrip
<1>5. TaggerOfHit(h) \notin BottomTaggers
  BY <1>2, <1>4, VetoAssumption DEF WallOf
<1>6. IsComplete(c)
  BY <1>1, <1>5 DEF IsSingleBottom
<1>7. PICK p, q \in CompletePairs(c) : PairTimes(p) <= WindowEnd /\ WindowStart <= PairTimes(q)
  BY <1>1, <1>6, MeanIsAmong
<1>8. ASSUME NEW s \in CompletePairs(c)
      PROVE  s \in ClosePairs /\ s \subseteq c /\ WallOfPair(s) = WallOf(c)
  <2>1. s \in CompletePairs(stripHits) /\ s # {} /\ s \subseteq c
    BY <1>1, PairsAmong DEF HitsTyped
  <2>2. ASSUME NEW x \in s, NEW y \in s
        PROVE  /\ TaggerOfHit(x) = TaggerOfHit(y) /\ TaggerOfHit(x) \notin BottomTaggers
               /\ Distance(FromGate(x), FromGate(y)) < CoincidenceTimeRequirement
    <3>1. x \in c /\ y \in c
      BY <2>1
    <3>2. TaggerOfHit(x) \notin BottomTaggers
      BY <1>3, <1>5, <3>1
    <3> QED BY <1>1, <3>1, <3>2, ClusterClose
  <2>3. WallOfPair(s) = WallOf(c)
    <3>1. PICK x \in s : x = (CHOOSE y \in s : TRUE)
      BY <2>1
    <3>2. TaggerOfHit(x) = TaggerOfHit(h)
      BY <1>3, <2>1, <3>1
    <3> QED BY <1>2, <3>1, <3>2 DEF WallOf, WallOfPair
  <2> QED BY <2>1, <2>2, <2>3 DEF ClosePairs
<1>9. ASSUME NEW x \in c, NEW y \in c
      PROVE  Distance(FromGate(x), FromGate(y)) < CoincidenceTimeRequirement
  <2>1. TaggerOfHit(x) \notin BottomTaggers
    BY <1>3, <1>5
  <2> QED BY <1>1, <2>1, ClusterClose
<1> QED BY <1>7, <1>8, <1>9 DEF Raises

(* The walls of pairs.                                                     *)
LEMMA WallsOfPairs ==
  ASSUME HitsTyped, NEW p \in ClosePairs
  PROVE  WallOfPair(p) \in Sides \cup {"topLow", "topHigh"}
<1>1. p # {} /\ p \subseteq stripHits
  BY PairsAmong DEF HitsTyped, ClosePairs
<1>2. PICK h \in p : h = (CHOOSE x \in p : TRUE)
  BY <1>1
<1>3. TaggerOfHit(h) \in Taggers
  BY <1>1, Geometry DEF HitsTyped, TaggerOfHit, TaggerOfStrip
<1>4. TaggerOfHit(h) \notin BottomTaggers
  BY DEF ClosePairs
<1> QED BY <1>2, <1>3, <1>4, VetoAssumption DEF WallOfPair, Sides

(* The flags are those of pairs, and of those that are alone.              *)
LEMMA FlagsOfPairs ==
  ASSUME HitsReferenced, ChainTyped, HitsTyped, HitsTimed, ClusterInv, ProductInv, VetoInv
  PROVE  VetoHasReadouts
<1> SUFFICES ASSUME stage = "done" PROVE VetoHasReadouts
  BY DEF VetoHasReadouts
<1> USE DEF VetoInv
<1> DEFINE walls   == RaisedWalls
           points  == {c \in spacePoints : InVetoWindow(c)}
           hit     == {WallOf(c) : c \in points} \ {"bottom"}
<1>1. stage \in Late /\ veto = FlagsOfPoints
  BY DEF Late, FlagsAre
<1>2. ASSUME Referenced
      PROVE  /\ veto = VetoFlags(points)
             /\ hit \subseteq walls /\ walls \subseteq Sides \cup {"topLow", "topHigh"}
             /\ \A p \in LonePairs : WallOfPair(p) \in hit
  <2>1. veto = VetoFlags(points)
    <3>1. fConfig.mc \/ frameInfo.default.type \in {"tdc", "ptb"}
      BY <1>1, <1>2 DEF Referenced, HasFrames, Late
    <3> QED BY <1>1, <3>1 DEF FlagsOfPoints
  <2>2. ASSUME NEW w \in hit PROVE w \in walls
    <3>1. PICK c \in points : w = WallOf(c) /\ w # "bottom"
      BY <2>2
    <3>2. PICK p, q \in ClosePairs : WallOfPair(p) = WallOf(c) /\ Raises(p, q)
      BY <1>1, <1>2, <3>1, PointsHavePairs
    <3> DEFINE x == <<p, q>>
    <3>3. x \in ClosePairs \X ClosePairs /\ WallOfPair(x[1]) = w /\ Raises(x[1], x[2])
      BY <3>1, <3>2
    <3> QED BY <3>3 DEF RaisedWalls
  <2>3. walls \subseteq Sides \cup {"topLow", "topHigh"}
    BY WallsOfPairs DEF RaisedWalls
  <2>4. ASSUME NEW p \in LonePairs PROVE WallOfPair(p) \in hit
    <3>1. p \in points
      BY <1>1, <1>2, LoneIsPoint
    <3>2. WallOf(p) # "bottom" /\ WallOfPair(p) = WallOf(p)
      BY WallsOfPairs DEF LonePairs, WallOf, WallOfPair, Sides
    <3> HIDE DEF points
    <3> QED BY <3>1, <3>2
  <2> QED BY <2>1, <2>2, <2>3, <2>4
<1>3. ASSUME ~Referenced
      PROVE  veto = NoVeto
  <2>1. ~fConfig.mc /\ frameInfo.default.type \notin {"tdc", "ptb"}
    BY <1>3 DEF Referenced
  <2> QED BY <1>1, <2>1 DEF FlagsOfPoints
<1> HIDE DEF walls, points, hit
<1>4. ASSUME Referenced
      PROVE  /\ veto.v0 <=> hit # {}
             /\ veto.v1 <=> hit \ {"topLow", "topHigh"} # {} \/ {"topLow", "topHigh"} \subseteq hit
             /\ veto.v2 <=> hit \ {"north"} # {}
             /\ veto.v3 <=> (hit \ {"north"}) \ {"topLow", "topHigh"} # {}
                              \/ {"topLow", "topHigh"} \subseteq hit
             /\ veto.v4 <=> "south" \in hit
  <2>1. veto = [v0 |-> hit # {},
                v1 |-> hit \ {"topLow", "topHigh"} # {} \/ {"topLow", "topHigh"} \subseteq hit,
                v2 |-> hit \ {"north"} # {},
                v3 |-> (hit \ {"north"}) \ {"topLow", "topHigh"} # {}
                         \/ {"topLow", "topHigh"} \subseteq hit,
                v4 |-> "south" \in hit, points |-> points]
    BY <1>2, <1>4 DEF VetoFlags, hit
  <2> QED BY <2>1
<1>5. /\ veto.v0 => Referenced /\ walls # {}
      /\ veto.v1 => Referenced /\ (walls \cap Sides # {} \/ {"topLow", "topHigh"} \subseteq walls)
      /\ veto.v4 => Referenced /\ "south" \in walls
  <2>1. CASE Referenced
    BY <1>2, <1>4, <2>1
  <2>2. CASE ~Referenced
    BY <1>3, <2>2 DEF NoVeto
  <2> QED BY <2>1, <2>2
<1>6. ASSUME Referenced, NEW p \in LonePairs
      PROVE  /\ veto.v0 /\ (WallOfPair(p) = "south" => veto.v4)
             /\ (WallOfPair(p) # "north" => veto.v2) /\ (WallOfPair(p) \in Sides => veto.v1)
             /\ \A q \in LonePairs : {WallOfPair(p), WallOfPair(q)} = {"topLow", "topHigh"} => veto.v3
  <2>1. WallOfPair(p) \in hit /\ \A q \in LonePairs : WallOfPair(q) \in hit
    BY <1>2, <1>6
  <2>2. \A q \in LonePairs : {WallOfPair(p), WallOfPair(q)} = {"topLow", "topHigh"} =>
          {"topLow", "topHigh"} \subseteq hit
    BY <2>1
  <2> QED BY <1>4, <1>6, <2>1, <2>2 DEF Sides
<1> QED BY <1>1, <1>5, <1>6 DEF VetoHasReadouts, walls

(* The veto's invariant, at the start and where nothing happens.           *)
LEMMA VetoStarts ==
  ASSUME Init
  PROVE  VetoInv
<1>1. stage \in {"fill", "timing"} /\ clusters = {} /\ stripHits = {}
  BY DEF Init, FirstStage
<1> QED BY <1>1 DEF VetoInv, GroupsInTime, PointsAre, FlagsAre, HasFrames, HitsAlike, Late

(* Where nothing happens, the flags stay what they are.                    *)
LEMMA VetoStutters ==
  ASSUME VetoInv, UNCHANGED vars
  PROVE  VetoInv'
<1>1. UNCHANGED <<stage, fConfig, frameInfo, stripHits, clusters, spacePoints, veto>>
  BY DEF vars, eventVars, shiftVars, recoVars
<1>2. FlagsOfPoints' = FlagsOfPoints
  BY <1>1, FlagsStay
<1>3. FlagsAre' /\ HasFrames'
  BY <1>1, <1>2 DEF VetoInv, FlagsAre, HasFrames
<1>4. GroupsInTime' /\ HitsAlike'
  BY <1>1 DEF VetoInv, GroupsInTime, HitsAlike, ClusterTime, TaggerOfHit, TaggerOfStrip
<1>5. PointsAre'
  BY <1>1 DEF VetoInv, PointsAre, IsComplete, CompletePairs, IsSingleBottom, TaggerOfHit, TaggerOfStrip
<1> QED BY <1>3, <1>4, <1>5 DEF VetoInv

(* Flags are raised by pairs of crossing strips outside the bottom, one    *)
(* with readouts that are not after the window and one with readouts not   *)
(* before it, close in time, and only if there is a reference; and a pair  *)
(* in the window that is alone in its tagger raises those of its wall:     *)
(* from CreateStripHits to produce, however many pairs a space point's     *)
(* time is the mean of, for hits referenced and clustered as they are in   *)
(* the jobs for data and simulation.                                       *)
THEOREM VetoIsOfReadouts ==
  ASSUME HitsReferenced
  PROVE  Spec => []VetoHasReadouts
<1>1. Init => HitsTimed /\ ProductInv /\ VetoInv
  BY CRTStarts, ProductsStart, VetoStarts
<1>2. ChainTyped /\ HitsTyped /\ HitsTimed /\ [Next]_vars => HitsTimed'
  <2>1. OneFrame
    BY HitsReferenced DEF HitsReferenced, OneFrame
  <2> QED BY <2>1, TimedKept, CRTStutters
<1>3. HitsTyped /\ ClusterInv /\ ProductInv /\ [Next]_vars => ProductInv'
  BY ProductsKept, ProductsStutter
<1>4. ChainTyped /\ SimInv /\ HitsTyped /\ ClusterInv /\ VetoInv /\ [Next]_vars => VetoInv'
  <2>1. ASSUME ChainTyped, SimInv, HitsTyped, ClusterInv, VetoInv, Next
        PROVE  VetoInv'
    BY <2>1, HitsReferenced, GroupsKept, FlagsKept, TypesKept, AlikeKept DEF VetoInv
  <2> QED BY <2>1, VetoStutters
<1>5. ChainTyped /\ HitsTyped /\ HitsTimed /\ ClusterInv /\ ProductInv /\ VetoInv => VetoHasReadouts
  BY HitsReferenced, FlagsOfPairs
<1> QED BY <1>1, <1>2, <1>3, <1>4, <1>5, CRTIsKept, PTL DEF Spec

-----------------------------------------------------------------------------
(* From the deposit to the space point.  What of a charge is at least      *)
(* seen.                                                                   *)
Visible(q) == IF q < AdcSaturation THEN q ELSE AdcSaturation

(* A charge that fits is added to what a SiPM has, or saturates it, and no *)
(* other takes anything away.                                              *)
LEMMA ChargeGrows ==
  ASSUME NEW I, NEW adcs \in [I -> 0 .. AdcSaturation], NEW c, NEW q \in Nat, q + AdcSaturation < 2^16
  PROVE  /\ \A i \in I : adcs[i] <= AddADC(adcs, c, q)[i]
         /\ c \in I => Visible(q) <= AddADC(adcs, c, q)[c]
<1>1. AdcSaturation \in Nat /\ 2^16 \in Int
  BY SimAssumption
<1>2. ASSUME c \in I
      PROVE  LET sum == (adcs[c] + q) % 2^16
                 new == IF sum > AdcSaturation THEN AdcSaturation ELSE sum
             IN adcs[c] <= new /\ Visible(q) <= new
  <2>1. PICK a \in Nat : a = adcs[c] /\ a <= AdcSaturation
    BY <1>1, <1>2
  <2>2. PICK K \in Int : K = 2^16
    BY <1>1
  <2>3. a + q \in Nat /\ a + q < K
    BY <1>1, <2>1, <2>2
  <2>4. (a + q) % K = a + q
    BY <2>2, <2>3
  <2> QED BY <1>1, <2>1, <2>2, <2>4 DEF Visible
<1>3. ASSUME NEW i \in I, i # c PROVE AddADC(adcs, c, q)[i] = adcs[i] /\ adcs[i] \in Int
  BY <1>1, <1>3 DEF AddADC
<1>4. ASSUME c \in I
      PROVE  AddADC(adcs, c, q)[c] = (IF (adcs[c] + q) % 2^16 > AdcSaturation THEN AdcSaturation
                                      ELSE (adcs[c] + q) % 2^16)
  BY <1>4 DEF AddADC
<1> QED BY <1>2, <1>3, <1>4

(* A signal is seen with no more than its charge, and with all of it when  *)
(* it is prompt.                                                           *)
LEMMA ChargeKept ==
  ASSUME NEW d, NEW q \in Nat, q + AdcSaturation < 2^16
  PROVE  /\ WaveformEmulation(d, q) \in Nat /\ WaveformEmulation(d, q) <= q
         /\ d = 0 => WaveformEmulation(d, q) = q
<1>1. PICK K \in Int : K = 2^16 /\ q < K
  BY SimAssumption
<1>2. CASE d \in DOMAIN Waveform
  <2>1. PICK w \in Nat : w = Waveform[d] /\ w <= 100
    BY <1>2, SimAssumption
  <2>2. PICK m \in Int : m = w * q /\ 0 <= m /\ m <= 100 * q /\ (w = 100 => m = 100 * q)
    <3>1. w * q \in Int /\ 0 <= w * q /\ w * q <= 100 * q
      BY <2>1
    <3> QED BY <3>1
  <2>3. PICK a \in Int : a = m \div 100 /\ 0 <= a /\ a <= q /\ (w = 100 => a = q)
    BY <2>2
  <2>4. a % K = a
    BY <1>1, <2>3
  <2>5. WaveformEmulation(d, q) = a
    BY <1>1, <1>2, <2>1, <2>2, <2>3, <2>4 DEF WaveformEmulation
  <2>6. d = 0 => w = 100
    BY <2>1, SimAssumption
  <2> QED BY <2>3, <2>5, <2>6
<1>3. CASE d \notin DOMAIN Waveform
  <2>1. d # 0
    BY <1>3, SimAssumption
  <2> QED BY <1>3, <2>1 DEF WaveformEmulation
<1> QED BY <1>2, <1>3

(* Strips whose charges fit.                                               *)
Fits(s) ==
  /\ s.sipm0.adc \in Nat /\ s.sipm0.adc + AdcSaturation < 2^16
  /\ s.sipm1.adc \in Nat /\ s.sipm1.adc + AdcSaturation < 2^16

(* Its charges are seen, if prompt, and take nothing away.                 *)
LEMMA StripsCharge ==
  ASSUME NEW I, NEW adcs \in [I -> 0 .. AdcSaturation], NEW s, Fits(s), NEW t
  PROVE  /\ \A i \in I : adcs[i] <= Charged(adcs, s, t)[i]
         /\ s.sipm0.t1 - t = 0 /\ s.sipm0.sipmID \in I =>
              Visible(s.sipm0.adc) <= Charged(adcs, s, t)[s.sipm0.sipmID]
         /\ s.sipm1.t1 - t = 0 /\ s.sipm1.sipmID \in I =>
              Visible(s.sipm1.adc) <= Charged(adcs, s, t)[s.sipm1.sipmID]
<1>1. PICK p, q : p = WaveformEmulation(s.sipm0.t1 - t, s.sipm0.adc)
                  /\ q = WaveformEmulation(s.sipm1.t1 - t, s.sipm1.adc)
  OBVIOUS
<1>2. /\ p \in Nat /\ p <= s.sipm0.adc /\ p + AdcSaturation < 2^16 /\ (s.sipm0.t1 - t = 0 => p = s.sipm0.adc)
      /\ q \in Nat /\ q <= s.sipm1.adc /\ q + AdcSaturation < 2^16 /\ (s.sipm1.t1 - t = 0 => q = s.sipm1.adc)
  <2>1. AdcSaturation \in Nat /\ 2^16 \in Int
    BY SimAssumption
  <2>2. /\ p \in Nat /\ p <= s.sipm0.adc /\ (s.sipm0.t1 - t = 0 => p = s.sipm0.adc)
        /\ q \in Nat /\ q <= s.sipm1.adc /\ (s.sipm1.t1 - t = 0 => q = s.sipm1.adc)
    BY <1>1, ChargeKept DEF Fits
  <2> QED BY <2>1, <2>2 DEF Fits
<1>3. PICK a : a = AddADC(adcs, s.sipm0.sipmID, p)
  OBVIOUS
<1>4. a \in [I -> 0 .. AdcSaturation]
  BY <1>2, <1>3, ChargeAdded
<1>5. PICK b : b = AddADC(a, s.sipm1.sipmID, q)
  OBVIOUS
<1>6. b \in [I -> 0 .. AdcSaturation]
  BY <1>2, <1>4, <1>5, ChargeAdded
<1>7. /\ \A i \in I : adcs[i] <= a[i] /\ a[i] <= b[i]
      /\ s.sipm0.sipmID \in I => Visible(p) <= a[s.sipm0.sipmID]
      /\ s.sipm1.sipmID \in I => Visible(q) <= b[s.sipm1.sipmID]
  BY <1>2, <1>3, <1>4, <1>5, ChargeGrows
<1>8. Charged(adcs, s, t) = b
  BY <1>1, <1>3, <1>5 DEF Charged
<1>9. \A i \in I : adcs[i] \in Int /\ a[i] \in Int /\ b[i] \in Int
  BY <1>4, <1>6
<1>10. Visible(p) \in Int /\ Visible(q) \in Int
  BY <1>2, SimAssumption DEF Visible
<1> QED BY <1>2, <1>7, <1>8, <1>9, <1>10

(* A strip and its SiPMs.                                                  *)
HasSiPMs(s) ==
  /\ s.ide.strip \in StripsOf(s.mac5)
  /\ {s.sipm0.sipmID, s.sipm1.sipmID} = {2 * s.ide.strip, 2 * s.ide.strip + 1}

(* The strip is seen in a readout.                                         *)
SeenIn(f, s) == f.mac5 = s.mac5 /\ f.ts = TimeOf(s) /\ f.flags = 3 /\ IsHit(f, s.ide.strip)

(* A prompt strip's charges are seen, whatever strips its board has        *)
(* besides it, if it is the first.                                         *)
LEMMA ChargesSeen ==
  ASSUME PedestalBelow, NEW T, \A v \in T : Fits(v), NEW strips \in Seq(T), NEW mac,
         NEW i \in DOMAIN OfBoard(mac, strips), NEW s, s = OfBoard(mac, strips)[i], s \in T,
         OfBoard(mac, strips) \in Seq(T), FirstTime(OfBoard(mac, strips)) = TimeOf(s),
         s.sipm0.t1 = s.sipm1.t1, TimeOf(s) \in Nat,
         s.sipm0.sipmID \in SiPMsOf(mac), s.sipm1.sipmID \in SiPMsOf(mac)
  PROVE  /\ FEBOf(mac, strips).adc \in [SiPMsOf(mac) -> 0 .. AdcSaturation]
         /\ Visible(s.sipm0.adc) <= FEBOf(mac, strips).adc[s.sipm0.sipmID]
         /\ Visible(s.sipm1.adc) <= FEBOf(mac, strips).adc[s.sipm1.sipmID]
<1> DEFINE own == OfBoard(mac, strips)
           n == Len(own)
           S == [SiPMsOf(mac) -> 0 .. AdcSaturation]
           t == TimeOf(s)
           Seen(a) == /\ Visible(s.sipm0.adc) <= a[s.sipm0.sipmID]
                      /\ Visible(s.sipm1.adc) <= a[s.sipm1.sipmID]
<1>1. n \in Nat /\ DOMAIN own = 1 .. n /\ \A k \in 1 .. n : own[k] \in T
  OBVIOUS
<1>2. \A v \in T : v.sipm0.adc \in Nat /\ v.sipm1.adc \in Nat
  BY DEF Fits
<1>3. PICK g \in [SUBSET DOMAIN own -> S] :
        /\ FEBOf(mac, strips).adc = g[DOMAIN own]
        /\ \A u \in SUBSET DOMAIN own :
             u # {} => g[u] = Charged(g[u \ {Max(u)}], own[Max(u)], FirstTime(own))
  BY <1>2, ChargesUnrolled
<1>4. i \in 1 .. n /\ own[i] = s /\ FirstTime(own) = t /\ s.sipm0.t1 - t = 0 /\ s.sipm1.t1 - t = 0
  BY <1>1 DEF TimeOf
<1> HIDE DEF own, n, t
<1> DEFINE Bad == {u \in SUBSET (1 .. n) : i \in u /\ ~Seen(g[u])}
<1>5. Bad = {}
  <2> SUFFICES ASSUME Bad # {} PROVE FALSE
    OBVIOUS
  <2>1. PICK u \in Bad : \A v \in Bad : v \subseteq u => v = u
    <3>1. PICK D : D = 1 .. n
      OBVIOUS
    <3>2. IsFiniteSet(D)
      <4>1. IsFiniteSet(1 .. n)
        BY <1>1, FS_Interval
      <4> QED BY <3>1, <4>1
    <3>3. Bad \subseteq SUBSET D /\ Bad # {}
      BY <3>1
    <3> HIDE DEF Bad
    <3>4. \E u \in Bad : \A v \in Bad : v \subseteq u => v = u
      BY ONLY <3>2, <3>3, MinimalSubset
    <3> QED BY <3>4
  <2>2. u \in SUBSET (1 .. n) /\ i \in u /\ ~Seen(g[u])
    OBVIOUS
  <2>3. PICK m \in 1 .. n : m = Max(u) /\ m \in u
    BY <1>1, <2>2, GreatestIndex
  <2>4. PICK w \in SUBSET (1 .. n) : w = u \ {m}
    BY <2>2
  <2>5. g[w] \in S /\ g[u] \in S
    BY <1>1, <1>3, <2>2, <2>4
  <2>6. g[u] = Charged(g[w], own[m], t)
    <3>1. u \in SUBSET DOMAIN own /\ u # {}
      BY <1>1, <2>2
    <3>2. g[u] = Charged(g[u \ {Max(u)}], own[Max(u)], FirstTime(own))
      BY <1>3, <3>1
    <3> QED BY <1>4, <2>3, <2>4, <3>2
  <2>7. CASE m = i
    <3>1. own[m] = s /\ Fits(s)
      BY <1>4, <2>7
    <3> QED BY <1>4, <2>2, <2>5, <2>6, <3>1, StripsCharge
  <2>8. CASE m # i
    <3>1. Seen(g[w])
      <4>1. w \subseteq u /\ w # u /\ i \in w
        BY <2>2, <2>3, <2>4, <2>8
      <4> QED BY <2>1, <4>1
    <3>2. Fits(own[m])
      BY <1>1
    <3>3. \A c \in SiPMsOf(mac) : g[w][c] <= g[u][c]
      BY <2>5, <2>6, <3>2, StripsCharge
    <3>4. PICK c0, c1, x0, x1 : /\ c0 = s.sipm0.sipmID /\ c1 = s.sipm1.sipmID
                                /\ x0 = Visible(s.sipm0.adc) /\ x1 = Visible(s.sipm1.adc)
      OBVIOUS
    <3>5. x0 \in Int /\ x1 \in Int
      BY <3>4, SimAssumption DEF Fits, Visible
    <3>6. c0 \in SiPMsOf(mac) /\ c1 \in SiPMsOf(mac)
      BY <3>4
    <3>7. /\ g[w][c0] \in Int /\ g[w][c1] \in Int /\ g[u][c0] \in Int /\ g[u][c1] \in Int
          /\ g[w][c0] <= g[u][c0] /\ g[w][c1] <= g[u][c1]
      <4>1. PICK a, b : a = g[w] /\ b = g[u]
        OBVIOUS
      <4>2. a \in [SiPMsOf(mac) -> 0 .. AdcSaturation] /\ b \in [SiPMsOf(mac) -> 0 .. AdcSaturation]
        BY <2>5, <4>1
      <4>3. \A c \in SiPMsOf(mac) : a[c] \in Int /\ b[c] \in Int
        BY <4>2
      <4> QED BY <3>3, <3>6, <4>1, <4>3
    <3>8. x0 <= g[w][c0] /\ x1 <= g[w][c1] /\ ~(x0 <= g[u][c0] /\ x1 <= g[u][c1])
      BY <2>2, <3>1, <3>4
    <3>9. PICK a0 \in Int, a1 \in Int, b0 \in Int, b1 \in Int :
            a0 = g[w][c0] /\ a1 = g[w][c1] /\ b0 = g[u][c0] /\ b1 = g[u][c1]
      BY <3>7
    <3>10. a0 <= b0 /\ a1 <= b1 /\ x0 <= a0 /\ x1 <= a1 /\ ~(x0 <= b0 /\ x1 <= b1)
      BY <3>7, <3>8, <3>9
    <3> QED BY <3>5, <3>10
  <2> QED BY <2>7, <2>8
<1>6. (1 .. n) \in SUBSET (1 .. n) /\ i \in 1 .. n /\ FEBOf(mac, strips).adc = g[1 .. n]
  BY <1>1, <1>3, <1>4
<1>7. Seen(g[1 .. n]) /\ g[1 .. n] \in S
  BY <1>1, <1>3, <1>5, <1>6
<1> QED BY <1>6, <1>7

(* The first of a board's strips is seen in its readout if it is bright.   *)
LEMMA SignalSeen ==
  ASSUME PedestalBelow, ADCThreshold + SiPMPedestal < AdcSaturation,
         NEW T, \A v \in T : v.mac5 \in FEBs /\ TimeOf(v) \in Nat /\ Fits(v),
         NEW strips \in Seq(T), IsInjective(strips), NEW s \in ToSet(strips), HasSiPMs(s), Bright(s),
         \A v \in ToSet(strips) : v.mac5 = s.mac5 => TimeOf(s) <= TimeOf(v)
  PROVE  \E k \in DOMAIN ProcessStrips(strips) : SeenIn(ProcessStrips(strips)[k], s)
<1> DEFINE mac == s.mac5
           own == OfBoard(mac, strips)
           f == FEBOf(mac, strips)
           M == {v.mac5 : v \in ToSet(strips)}
<1>1. ToSet(strips) \subseteq T /\ s \in T
  BY DEF ToSet
<1>2. own \in Seq(T) /\ ToSet(own) = {v \in ToSet(strips) : v.mac5 = mac}
  <2> DEFINE I == {k \in DOMAIN strips : strips[k].mac5 = mac}
  <2>1. {strips[i] : i \in I} = {v \in ToSet(strips) : v.mac5 = mac}
    BY DEF ToSet
  <2>2. I \subseteq DOMAIN strips /\ own = Selected(strips, I)
    BY DEF OfBoard
  <2> HIDE DEF I, own
  <2> QED BY <2>1, <2>2, PickedOnce
<1>3. PICK i \in DOMAIN own : s = own[i]
  <2>1. s \in ToSet(own)
    BY <1>2
  <2> HIDE DEF own
  <2> QED BY <2>1 DEF ToSet
<1>4. FirstTime(own) = TimeOf(s)
  <2> DEFINE times == {TimeOf(v) : v \in ToSet(own)}
  <2>1. TimeOf(s) \in times /\ \A v \in ToSet(own) : TimeOf(s) <= TimeOf(v)
    BY <1>2
  <2>2. \A t \in times : t \in Nat
    BY <1>1, <1>2
  <2>3. FirstTime(own) = CHOOSE t \in times : \A v \in ToSet(own) : t <= TimeOf(v)
    BY DEF FirstTime
  <2>4. FirstTime(own) \in times /\ \A v \in ToSet(own) : FirstTime(own) <= TimeOf(v)
    <3> HIDE DEF own
    <3> QED BY <2>1, <2>3
  <2>5. s \in ToSet(own)
    BY <1>2
  <2>6. FirstTime(own) <= TimeOf(s) /\ FirstTime(own) \in Nat
    BY <2>2, <2>4, <2>5
  <2>7. TimeOf(s) <= FirstTime(own)
    <3> HIDE DEF own
    <3> QED BY <2>1, <2>4
  <2> HIDE DEF own
  <2> QED BY <1>1, <2>6, <2>7
<1>5. /\ s.sipm0.sipmID \in SiPMsOf(mac) /\ s.sipm1.sipmID \in SiPMsOf(mac)
      /\ 2 * s.ide.strip \in SiPMsOf(mac) /\ 2 * s.ide.strip + 1 \in SiPMsOf(mac)
  <2>1. PICK r \in StripsOf(mac) : r = s.ide.strip
    BY DEF HasSiPMs
  <2>2. 2 * r \in SiPMsOf(mac) /\ 2 * r + 1 \in SiPMsOf(mac)
    BY DEF SiPMsOf
  <2>3. {s.sipm0.sipmID, s.sipm1.sipmID} = {2 * r, 2 * r + 1}
    BY <2>1 DEF HasSiPMs
  <2> QED BY <2>1, <2>2, <2>3
<1>6. /\ f.adc \in [SiPMsOf(mac) -> 0 .. AdcSaturation]
      /\ Visible(s.sipm0.adc) <= f.adc[s.sipm0.sipmID] /\ Visible(s.sipm1.adc) <= f.adc[s.sipm1.sipmID]
  <2>1. s.sipm0.t1 = s.sipm1.t1 /\ TimeOf(s) \in Nat
    BY <1>1 DEF Bright
  <2> HIDE DEF f
  <2> QED BY <1>1, <1>2, <1>3, <1>4, <1>5, <2>1, ChargesSeen DEF f
<1>7. ASSUME NEW c \in {s.sipm0.sipmID, s.sipm1.sipmID}
      PROVE  c \notin DeadSiPMs /\ AboveThreshold(f, c)
  <2>1. PICK q : q \in {s.sipm0.adc, s.sipm1.adc} /\ Visible(q) <= f.adc[c] /\ q \in Nat
    BY <1>1, <1>6, <1>7 DEF Fits
  <2>2. f.adc[c] \in Nat
    BY <1>5, <1>6, <1>7, SimAssumption
  <2>3. q > ADCThreshold + SiPMPedestal /\ c \notin DeadSiPMs
    BY <1>7, <2>1 DEF Bright
  <2>4. Visible(q) > ADCThreshold + SiPMPedestal /\ Visible(q) \in Nat
    BY <2>1, <2>3, SimAssumption DEF Visible
  <2> HIDE DEF f
  <2>5. f.adc[c] > ADCThreshold + SiPMPedestal
    BY <2>1, <2>2, <2>4, HitAssumption
  <2> QED BY <2>2, <2>3, <2>5, HitAssumption DEF AboveThreshold
<1>8. IsHit(f, s.ide.strip)
  <2> HIDE DEF f
  <2> QED BY <1>7 DEF IsHit, HasSiPMs
<1>9. f.mac5 = mac /\ f.flags = 3 /\ f.ts = FirstTime(own)
  BY DEF FEBOf, OfBoard, FirstTime
<1>10. SeenIn(f, s)
  BY <1>4, <1>8, <1>9 DEF SeenIn
<1>11. PICK k \in DOMAIN InOrder(M) : InOrder(M)[k] = mac
  <2>1. M \subseteq FEBs /\ mac \in M
    BY <1>1
  <2> HIDE DEF M
  <2>2. IsFiniteSet(M) /\ \A m \in M : m \in Int
    <3>1. \A m \in FEBs : m \in Int
      BY Geometry
    <3> QED BY <2>1, <3>1, Geometry, FS_Subset
  <2>3. ToSet(InOrder(M)) = M
    BY <2>2, InOrderLists
  <2> QED BY <2>1, <2>3 DEF ToSet
<1>12. ProcessStrips(strips) = [j \in DOMAIN InOrder(M) |-> FEBOf(InOrder(M)[j], strips)]
  BY DEF ProcessStrips
<1> HIDE DEF M, f
<1> QED BY <1>10, <1>11, <1>12 DEF f

-----------------------------------------------------------------------------
(* CreateData on the way through a tagger's strips.  Two strips that cross *)
(* are both read out once the trigger that the first one starts is over:   *)
(* no trigger goes on when the first one comes, none is started between    *)
(* the two, and nothing of their boards comes before them.                 *)
CrossingPair(s, u) ==
  /\ Orientation[s.mac5] # Orientation[u.mac5]
  /\ Bright(s) /\ Bright(u) /\ Quiet(s) /\ Unhidden(s, u)
  /\ TimeOf(s) <= TimeOf(u) /\ TimeOf(u) - TimeOf(s) < TaggerPlaneCoincidenceWindow

Prompt(s, v) ==
  /\ s.sipm_coinc /\ Quiet(s) /\ v.sipm_coinc
  /\ TimeOf(s) <= TimeOf(v) /\ TimeOf(v) - TimeOf(s) < TaggerPlaneCoincidenceWindow

BothSeen(F, s, u) == \E j, k \in DOMAIN F : SeenIn(F[j], s) /\ SeenIn(F[k], u)
AllSeen(F, t)     == \A s, u \in fTaggers[t] : CrossingPair(s, u) => BothSeen(F, s, u)

(* A readout is at most a window after a coincidence of its tagger.        *)
Begun(F) ==
  \A k \in DOMAIN F : \E w \in fTaggers[TaggerOf[F[k].mac5]] :
    w.sipm_coinc /\ TimeOf(w) <= F[k].ts /\ F[k].ts - TimeOf(w) < TaggerPlaneCoincidenceWindow

Looked == fTaggers[tagger] \ todo

WalkInv ==
  /\ \A v \in Looked, y \in todo : TimeOf(v) <= TimeOf(y)
  /\ first_trigger => (\A v \in Looked : ~v.sipm_coinc) /\ ~trigger.planeX /\ ~trigger.planeY
  /\ ~first_trigger => \E w \in Looked : w.sipm_coinc /\ TimeOf(w) = trigger_ts1
  /\ \A v \in ToSet(trigger.strips) :
       v.sipm_coinc => IF Orientation[v.mac5] = 0 THEN trigger.planeX ELSE trigger.planeY
  /\ \A s \in Looked : s.sipm_coinc /\ Quiet(s) =>
       TimeOf(s) = trigger_ts1 \/ TimeOf(s) + TaggerPlaneCoincidenceWindow <= trigger_ts1
  /\ \A s, v \in Looked : Prompt(s, v) /\ TimeOf(s) = trigger_ts1 => v \in ToSet(trigger.strips)
  /\ \A s, u \in Looked : CrossingPair(s, u) /\ TimeOf(s) < trigger_ts1 => BothSeen(febData, s, u)

Simulated == \A t \in Taggers : \A v \in fTaggers[t] : Fits(v) /\ HasSiPMs(v)

CrossInv ==
  fConfig.mc =>
    /\ Simulated
    /\ Begun(febData)
    /\ stage = "trigger" => WalkInv /\ \A t \in Taggers : t < tagger => AllSeen(febData, t)
    /\ stage \notin {"fill", "trigger", "thrown"} => \A t \in Taggers : AllSeen(febData, t)

(* The end of a trigger keeps the readouts there are, and adds its own.    *)
LEMMA FlushedParts ==
  ASSUME ChainTyped, Made(febData), TriggerInv
  PROVE  /\ \A k \in DOMAIN febData : k \in DOMAIN Flushed /\ Flushed[k] = febData[k]
         /\ TaggerTriggered(trigger) =>
              \A j \in DOMAIN ProcessStrips(trigger.strips) :
                \E k \in DOMAIN Flushed : Flushed[k] = ProcessStrips(trigger.strips)[j]
<1>1. CASE ~TaggerTriggered(trigger)
  BY <1>1 DEF Flushed
<1>2. CASE TaggerTriggered(trigger)
  <2> DEFINE T == fTaggers[tagger]
             strips == trigger.strips
             P == ProcessStrips(strips)
             J == febData \o P
  <2>1. Flushed = J
    BY <1>2 DEF Flushed
  <2>2. strips \in Seq(T) /\ IsInjective(strips) /\ tagger \in Taggers
    BY DEF TriggerInv
  <2>3. \A s \in T : s.mac5 \in FEBs /\ TimeOf(s) \in Nat
    BY <2>2 DEF ChainTyped, IsStrip
  <2> HIDE DEF T
  <2>4. P \in Seq(ToSet(P))
    <3> HIDE DEF strips
    <3> QED BY <2>2, <2>3, Processed
  <2>5. febData \in Seq(ToSet(febData))
    BY DEF Made
  <2> HIDE DEF P, strips
  <2>6. /\ DOMAIN febData = 1 .. Len(febData) /\ Len(febData) \in Nat
        /\ DOMAIN P = 1 .. Len(P) /\ Len(P) \in Nat
    BY <2>4, <2>5
  <2>7. /\ DOMAIN J = 1 .. Len(febData) + Len(P)
        /\ \A k \in 1 .. Len(febData) + Len(P) :
             J[k] = IF k <= Len(febData) THEN febData[k] ELSE P[k - Len(febData)]
    BY <2>4, <2>5
  <2> HIDE DEF J
  <2>8. ASSUME NEW k \in DOMAIN febData PROVE k \in DOMAIN J /\ J[k] = febData[k]
    BY <2>6, <2>7
  <2>9. ASSUME NEW j \in DOMAIN P PROVE \E k \in DOMAIN J : J[k] = P[j]
    <3>1. j + Len(febData) \in DOMAIN J /\ J[j + Len(febData)] = P[j]
      BY <2>6, <2>7
    <3> QED BY <3>1
  <2> QED BY <2>1, <2>8, <2>9 DEF P, strips
<1> QED BY <1>1, <1>2

(* When a trigger is over, the pairs looked at are read out.               *)
LEMMA FlushedSees ==
  ASSUME PlainSimulation, ChainTyped, Made(febData), TriggerInv, WalkInv, Simulated,
         NEW s \in Looked, NEW u \in Looked, CrossingPair(s, u)
  PROVE  BothSeen(Flushed, s, u)
<1>1. \A k \in DOMAIN febData : k \in DOMAIN Flushed /\ Flushed[k] = febData[k]
  BY FlushedParts
<1>2. /\ s.sipm_coinc /\ u.sipm_coinc /\ Quiet(s) /\ Bright(s) /\ Bright(u) /\ Unhidden(s, u)
      /\ Orientation[s.mac5] # Orientation[u.mac5]
      /\ TimeOf(s) <= TimeOf(u) /\ TimeOf(u) - TimeOf(s) < TaggerPlaneCoincidenceWindow
  BY DEF CrossingPair, Bright
<1>3. /\ tagger \in Taggers /\ trigger_ts1 \in Nat
      /\ trigger.strips \in Seq(fTaggers[tagger]) /\ IsInjective(trigger.strips)
      /\ \A v \in ToSet(trigger.strips) : trigger_ts1 <= TimeOf(v)
  BY DEF TriggerInv
<1>4. \A v \in fTaggers[tagger] :
        /\ v.mac5 \in FEBs /\ TaggerOf[v.mac5] = tagger /\ TimeOf(v) \in Nat
        /\ Fits(v) /\ HasSiPMs(v)
  BY <1>3 DEF ChainTyped, IsStrip, Simulated
<1>5. s \in fTaggers[tagger] /\ u \in fTaggers[tagger]
  BY DEF Looked
<1>6. TaggerPlaneCoincidenceWindow \in Nat \ {0}
  BY SimAssumption
<1>7. TimeOf(s) = trigger_ts1 \/ TimeOf(s) < trigger_ts1
  BY <1>2, <1>3, <1>4, <1>5, <1>6 DEF WalkInv
<1>8. CASE TimeOf(s) < trigger_ts1
  <2>1. BothSeen(febData, s, u)
    BY <1>8 DEF WalkInv
  <2> QED BY <1>1, <2>1 DEF BothSeen
<1>9. CASE TimeOf(s) = trigger_ts1
  <2>1. Prompt(s, s) /\ Prompt(s, u)
    BY <1>2, <1>4, <1>5, <1>6 DEF Prompt
  <2>2. s \in ToSet(trigger.strips) /\ u \in ToSet(trigger.strips)
    BY <1>9, <2>1 DEF WalkInv
  <2>3. trigger.planeX /\ trigger.planeY
    <3>1. Orientation[s.mac5] \in {0, 1} /\ Orientation[u.mac5] \in {0, 1}
      BY <1>4, <1>5, GeometryAssumption
    <3> QED BY <1>2, <2>2, <3>1 DEF WalkInv
  <2>4. TaggerTriggered(trigger)
    BY <2>3 DEF TaggerTriggered
  <2>5. PedestalBelow /\ ADCThreshold + SiPMPedestal < AdcSaturation
    BY DEF PlainSimulation, PedestalBelow
  <2>6. \A v \in ToSet(trigger.strips) : v \in fTaggers[tagger]
    BY <1>3 DEF ToSet
  <2>7. \A v \in ToSet(trigger.strips) : v.mac5 = s.mac5 => TimeOf(s) <= TimeOf(v)
    BY <1>3, <1>9
  <2>8. \A v \in ToSet(trigger.strips) : v.mac5 = u.mac5 => TimeOf(u) <= TimeOf(v)
    BY <1>2, <1>3, <1>4, <1>5, <1>9, <2>6 DEF Unhidden, TaggerStrips
  <2>9. \E j \in DOMAIN ProcessStrips(trigger.strips) : SeenIn(ProcessStrips(trigger.strips)[j], s)
    BY <1>2, <1>3, <1>4, <1>5, <2>2, <2>5, <2>7, SignalSeen
  <2>10. \E j \in DOMAIN ProcessStrips(trigger.strips) : SeenIn(ProcessStrips(trigger.strips)[j], u)
    BY <1>2, <1>3, <1>4, <1>5, <2>2, <2>5, <2>8, SignalSeen
  <2>11. \A j \in DOMAIN ProcessStrips(trigger.strips) :
           \E k \in DOMAIN Flushed : Flushed[k] = ProcessStrips(trigger.strips)[j]
    BY <2>4, FlushedParts
  <2>12. (\E j \in DOMAIN Flushed : SeenIn(Flushed[j], s)) /\ \E k \in DOMAIN Flushed : SeenIn(Flushed[k], u)
    BY <2>9, <2>10, <2>11
  <2> QED BY <2>12 DEF BothSeen
<1> QED BY <1>7, <1>8, <1>9

(* A trigger's readouts begin with the coincidence that started it.        *)
LEMMA FlushedBegun ==
  ASSUME ChainTyped, Made(febData), TriggerInv, WalkInv, Begun(febData)
  PROVE  Begun(Flushed)
<1>1. \A k \in DOMAIN Flushed :
        \/ k \in DOMAIN febData /\ Flushed[k] = febData[k]
        \/ /\ TaggerTriggered(trigger) /\ Flushed[k].mac5 \in trigger.mac5s
           /\ \E s \in ToSet(trigger.strips) : Flushed[k].ts = TimeOf(s)
  BY FlushedMade
<1>2. /\ tagger \in Taggers /\ trigger.strips \in Seq(fTaggers[tagger])
      /\ trigger.mac5s = {v.mac5 : v \in ToSet(trigger.strips)}
      /\ \A v \in ToSet(trigger.strips) : trigger_ts1 <= TimeOf(v) /\ InWindow(v)
  BY DEF TriggerInv
<1>3. \A v \in ToSet(trigger.strips) : TaggerOf[v.mac5] = tagger
  <2>1. \A v \in ToSet(trigger.strips) : v \in fTaggers[tagger]
    BY <1>2 DEF ToSet
  <2> QED BY <1>2, <2>1 DEF ChainTyped, IsStrip
<1>4. ASSUME NEW k \in DOMAIN Flushed
      PROVE  \E w \in fTaggers[TaggerOf[Flushed[k].mac5]] :
               /\ w.sipm_coinc /\ TimeOf(w) <= Flushed[k].ts
               /\ Flushed[k].ts - TimeOf(w) < TaggerPlaneCoincidenceWindow
  <2>1. CASE k \in DOMAIN febData /\ Flushed[k] = febData[k]
    BY <2>1 DEF Begun
  <2>2. CASE /\ TaggerTriggered(trigger) /\ Flushed[k].mac5 \in trigger.mac5s
             /\ \E s \in ToSet(trigger.strips) : Flushed[k].ts = TimeOf(s)
    <3>1. ~first_trigger
      BY <2>2 DEF WalkInv, TaggerTriggered
    <3>2. PICK w \in Looked : w.sipm_coinc /\ TimeOf(w) = trigger_ts1
      BY <3>1 DEF WalkInv
    <3>3. PICK s \in ToSet(trigger.strips) : Flushed[k].ts = TimeOf(s)
      BY <2>2
    <3>4. TimeOf(w) <= Flushed[k].ts /\ Flushed[k].ts - TimeOf(w) < TaggerPlaneCoincidenceWindow
      BY <1>2, <3>2, <3>3 DEF InWindow
    <3>5. TaggerOf[Flushed[k].mac5] = tagger
      BY <1>2, <1>3, <2>2
    <3> QED BY <3>2, <3>4, <3>5 DEF Looked
  <2> QED BY <1>1, <2>1, <2>2
<1> QED BY <1>4 DEF Begun

(* What is asked of pairs stays the same while the strips do.              *)
LEMMA PairsStay ==
  ASSUME UNCHANGED fTaggers
  PROVE  /\ \A s : Quiet(s)' = Quiet(s)
         /\ \A s, u : CrossingPair(s, u)' = CrossingPair(s, u)
         /\ \A s, v : Prompt(s, v)' = Prompt(s, v)
<1>1. \A s : Quiet(s)' = Quiet(s)
  BY DEF Quiet, TaggerStrips
<1>2. \A s, u : Unhidden(s, u)' = Unhidden(s, u)
  BY DEF Unhidden, TaggerStrips
<1>3. \A s, u : CrossingPair(s, u)' = CrossingPair(s, u)
  BY <1>1, <1>2 DEF CrossingPair
<1>4. \A s, v : Prompt(s, v)' = Prompt(s, v)
  BY <1>1 DEF Prompt
<1> QED BY <1>1, <1>3, <1>4

(* The walk looks at one more strip.                                       *)
LEMMA WalkGoesOn ==
  ASSUME PlainSimulation, ChainTyped, Made(febData), TriggerInv, WalkInv, Simulated,
         NEW y \in NextStrips, todo' = todo \ {y}, UNCHANGED <<fTaggers, tagger>>,
         FirstTrigger(y) \/ JoinTrigger(y) \/ NewTrigger(y) \/ DropStrip(y)
  PROVE  WalkInv'
<1> DEFINE T == fTaggers[tagger]
           W == TaggerPlaneCoincidenceWindow
           Wanted(ts1, F, strips) ==
             /\ \A s \in Looked \cup {y} : s.sipm_coinc /\ Quiet(s) => TimeOf(s) = ts1 \/ TimeOf(s) + W <= ts1
             /\ \A s, v \in Looked \cup {y} : Prompt(s, v) /\ TimeOf(s) = ts1 => v \in strips
             /\ \A s, u \in Looked \cup {y} :
                  CrossingPair(s, u) /\ TimeOf(s) < ts1 => BothSeen(F, s, u)
<1>1. /\ y \in todo /\ \A u \in todo : TimeOf(y) <= TimeOf(u)
      /\ tagger \in Taggers /\ todo \subseteq T /\ trigger_ts1 \in Nat /\ trigger_ts1 <= TimeOf(y)
      /\ trigger.strips \in Seq(T) /\ first_trigger \in BOOLEAN
  BY DEF NextStrips, TriggerInv
<1>2. \A v \in T : /\ v.mac5 \in FEBs /\ TaggerOf[v.mac5] = tagger /\ TimeOf(v) \in Nat
                   /\ v.sipm_coinc \in BOOLEAN
  BY <1>1 DEF ChainTyped, IsStrip
<1>3. y \in T /\ Looked \subseteq T /\ \A v \in Looked : TimeOf(v) <= TimeOf(y)
  BY <1>1 DEF Looked, WalkInv
<1>4. W \in Nat \ {0} /\ DeadTime \in Nat
  BY SimAssumption
<1>5. Looked' = Looked \cup {y}
  BY <1>1 DEF Looked
<1>6. /\ first_trigger => (\A v \in Looked : ~v.sipm_coinc) /\ ~trigger.planeX /\ ~trigger.planeY
      /\ ~first_trigger => \E w \in Looked : w.sipm_coinc /\ TimeOf(w) = trigger_ts1
      /\ \A v \in ToSet(trigger.strips) :
           v.sipm_coinc => IF Orientation[v.mac5] = 0 THEN trigger.planeX ELSE trigger.planeY
      /\ \A s \in Looked : s.sipm_coinc /\ Quiet(s) => TimeOf(s) = trigger_ts1 \/ TimeOf(s) + W <= trigger_ts1
      /\ \A s, v \in Looked : Prompt(s, v) /\ TimeOf(s) = trigger_ts1 => v \in ToSet(trigger.strips)
      /\ \A s, u \in Looked : CrossingPair(s, u) /\ TimeOf(s) < trigger_ts1 => BothSeen(febData, s, u)
  BY DEF WalkInv
<1>7. \A v \in Looked', u \in todo' : TimeOf(v) <= TimeOf(u)
  BY <1>1, <1>5 DEF WalkInv
<1>8. ASSUME Wanted(trigger_ts1', febData', ToSet(trigger'.strips))
      PROVE  /\ \A s \in Looked' : s.sipm_coinc /\ Quiet(s)' =>
                  TimeOf(s) = trigger_ts1' \/ TimeOf(s) + W <= trigger_ts1'
             /\ \A s, v \in Looked' :
                  Prompt(s, v)' /\ TimeOf(s) = trigger_ts1' => v \in ToSet(trigger'.strips)
             /\ \A s, u \in Looked' :
                  CrossingPair(s, u)' /\ TimeOf(s) < trigger_ts1' => BothSeen(febData', s, u)
  BY <1>5, <1>8, PairsStay
<1>9. ASSUME NEW tr, trigger' = AddStrip(tr, y), tr.strips \in Seq(T)
      PROVE  /\ ToSet(trigger'.strips) = ToSet(tr.strips) \cup {y}
             /\ trigger'.planeX = (tr.planeX \/ (y.sipm_coinc /\ Orientation[y.mac5] = 0))
             /\ trigger'.planeY = (tr.planeY \/ (y.sipm_coinc /\ Orientation[y.mac5] = 1))
  <2>1. trigger'.strips = Append(tr.strips, y)
    BY <1>9 DEF AddStrip
  <2>2. PICK q \in Seq(T) : q = tr.strips
    BY <1>9
  <2>3. /\ DOMAIN q = 1 .. Len(q) /\ Len(q) \in Nat /\ DOMAIN Append(q, y) = 1 .. Len(q) + 1
        /\ Append(q, y)[Len(q) + 1] = y /\ \A k \in 1 .. Len(q) : Append(q, y)[k] = q[k]
    OBVIOUS
  <2>4. ToSet(Append(q, y)) = ToSet(q) \cup {y}
    <3>1. \A k \in 1 .. Len(q) + 1 : k = Len(q) + 1 \/ k \in 1 .. Len(q)
      BY <2>3
    <3>2. Len(q) + 1 \in 1 .. Len(q) + 1 /\ 1 .. Len(q) \subseteq 1 .. Len(q) + 1
      BY <2>3
    <3> QED BY <2>3, <3>1, <3>2 DEF ToSet
  <2> QED BY <1>9, <2>1, <2>2, <2>4 DEF AddStrip
<1>10. Orientation[y.mac5] \in {0, 1}
  BY <1>2, <1>3, GeometryAssumption
<1>11. ASSUME trigger' = AddStrip(EmptyTrigger, y)
       PROVE  /\ ToSet(trigger'.strips) = {y}
              /\ \A v \in ToSet(trigger'.strips) :
                   v.sipm_coinc => IF Orientation[v.mac5] = 0 THEN trigger'.planeX ELSE trigger'.planeY
  <2>1. EmptyTrigger.strips \in Seq(T) /\ ToSet(EmptyTrigger.strips) = {}
    BY DEF EmptyTrigger, ToSet
  <2>2. /\ ToSet(trigger'.strips) = {y}
        /\ trigger'.planeX = (y.sipm_coinc /\ Orientation[y.mac5] = 0)
        /\ trigger'.planeY = (y.sipm_coinc /\ Orientation[y.mac5] = 1)
    <3>1. PICK tr : tr = EmptyTrigger
      OBVIOUS
    <3>2. tr.planeX = FALSE /\ tr.planeY = FALSE
      BY <3>1 DEF EmptyTrigger
    <3>3. /\ ToSet(trigger'.strips) = ToSet(tr.strips) \cup {y}
          /\ trigger'.planeX = (tr.planeX \/ (y.sipm_coinc /\ Orientation[y.mac5] = 0))
          /\ trigger'.planeY = (tr.planeY \/ (y.sipm_coinc /\ Orientation[y.mac5] = 1))
      BY <1>9, <1>11, <2>1, <3>1
    <3>4. ToSet(tr.strips) = {}
      BY <2>1, <3>1
    <3> QED BY <3>2, <3>3, <3>4
  <2> QED BY <1>10, <2>2
(* A quiet strip and those of its time are quiet together. *)
<1>12. ASSUME NEW s \in T, NEW v \in T, Quiet(s), TimeOf(v) = TimeOf(s) PROVE Quiet(v)
  BY <1>2, <1>12 DEF Quiet, TaggerStrips
<1>13. ASSUME NEW s \in T, NEW w \in T, Quiet(s), w.sipm_coinc, TimeOf(w) < TimeOf(s)
       PROVE  TimeOf(s) - TimeOf(w) > DeadTime + W
  BY <1>2, <1>13 DEF Quiet, TaggerStrips
<1>14. ASSUME NEW s, NEW u, CrossingPair(s, u)
       PROVE  /\ s.sipm_coinc /\ u.sipm_coinc /\ Quiet(s) /\ TimeOf(s) <= TimeOf(u)
              /\ TimeOf(u) - TimeOf(s) < W
  BY <1>14 DEF CrossingPair, Bright
<1>15. CASE FirstTrigger(y)
  <2>1. /\ first_trigger' = FALSE /\ trigger_ts1' = TimeOf(y) /\ trigger' = AddStrip(EmptyTrigger, y)
        /\ y.sipm_coinc /\ \A v \in Looked : ~v.sipm_coinc
    BY <1>6, <1>15 DEF FirstTrigger, First
  <2>2. ToSet(trigger'.strips) = {y}
    BY <1>11, <2>1
  <2>3. Wanted(TimeOf(y), febData', {y})
    BY <1>2, <1>3, <1>14, <2>1 DEF Prompt
  <2> QED BY <1>5, <1>7, <1>8, <1>11, <2>1, <2>2, <2>3 DEF WalkInv
<1>16. CASE JoinTrigger(y)
  <2>1. /\ UNCHANGED <<febData, trigger_ts1, first_trigger>> /\ trigger' = AddStrip(trigger, y)
        /\ TimeOf(y) - trigger_ts1 < W /\ (first_trigger => ~y.sipm_coinc)
    BY <1>1, <1>16 DEF JoinTrigger, InWindow, First
  <2>2. /\ ToSet(trigger'.strips) = ToSet(trigger.strips) \cup {y}
        /\ trigger'.planeX = (trigger.planeX \/ (y.sipm_coinc /\ Orientation[y.mac5] = 0))
        /\ trigger'.planeY = (trigger.planeY \/ (y.sipm_coinc /\ Orientation[y.mac5] = 1))
    BY <1>1, <1>9, <2>1
  <2>3. \A v \in ToSet(trigger'.strips) :
          v.sipm_coinc => IF Orientation[v.mac5] = 0 THEN trigger'.planeX ELSE trigger'.planeY
    BY <1>6, <1>10, <2>2
  <2>4. first_trigger' => (\A v \in Looked' : ~v.sipm_coinc) /\ ~trigger'.planeX /\ ~trigger'.planeY
    BY <1>5, <1>6, <2>1, <2>2
  <2>5. ~first_trigger' => \E w \in Looked' : w.sipm_coinc /\ TimeOf(w) = trigger_ts1'
    BY <1>5, <1>6, <2>1
  <2>6. ASSUME y.sipm_coinc, Quiet(y) PROVE TimeOf(y) = trigger_ts1
    <3>1. PICK w \in Looked : w.sipm_coinc /\ TimeOf(w) = trigger_ts1
      BY <1>6, <2>1, <2>6
    <3>2. w \in T /\ TimeOf(w) \in Nat /\ TimeOf(y) \in Nat
      BY <1>2, <1>3
    <3>3. TimeOf(w) < TimeOf(y) => TimeOf(y) - TimeOf(w) > DeadTime + W
      BY <1>3, <1>13, <2>6, <3>1, <3>2
    <3> QED BY <1>1, <1>4, <2>1, <3>1, <3>2, <3>3
  <2>7. ASSUME NEW s \in Looked \cup {y}, NEW v \in Looked \cup {y}, Prompt(s, v), TimeOf(s) = trigger_ts1
        PROVE  v \in ToSet(trigger'.strips)
    <3>1. CASE v = y
      BY <2>2, <3>1
    <3>2. CASE v \in Looked /\ s \in Looked
      BY <1>6, <2>2, <2>7, <3>2
    <3>3. CASE v \in Looked /\ s = y
      <4>1. TimeOf(v) = TimeOf(s) /\ TimeOf(v) \in Nat
        BY <1>2, <1>3, <2>7, <3>3 DEF Prompt
      <4>2. Quiet(v) /\ v.sipm_coinc
        BY <1>3, <1>12, <2>7, <3>3, <4>1 DEF Prompt
      <4>3. Prompt(v, v)
        BY <1>4, <4>1, <4>2 DEF Prompt
      <4> QED BY <1>6, <2>2, <2>7, <3>3, <4>1, <4>3
    <3> QED BY <3>1, <3>2, <3>3
  <2>8. ASSUME NEW s \in Looked \cup {y}, NEW u \in Looked \cup {y}, CrossingPair(s, u), TimeOf(s) < trigger_ts1
        PROVE  BothSeen(febData, s, u)
    <3>1. s \in Looked
      BY <1>1, <1>2, <1>3, <2>8
    <3>2. TimeOf(s) + W <= trigger_ts1
      <4>1. TimeOf(s) \in Nat
        BY <1>2, <1>3, <3>1
      <4> QED BY <1>1, <1>6, <1>14, <2>8, <3>1, <4>1
    <3>3. u # y
      <4>1. TimeOf(s) \in Nat /\ TimeOf(y) \in Nat /\ TimeOf(u) - TimeOf(s) < W
        BY <1>2, <1>3, <1>14, <2>8, <3>1
      <4> QED BY <1>1, <1>4, <3>2, <4>1
    <3> QED BY <1>6, <2>8, <3>1, <3>3
  <2>9. Wanted(trigger_ts1, febData, ToSet(trigger'.strips))
    BY <1>6, <2>6, <2>7, <2>8
  <2> QED BY <1>7, <1>8, <2>1, <2>3, <2>4, <2>5, <2>9 DEF WalkInv
<1>17. CASE NewTrigger(y)
  <2>1. /\ febData' = Flushed /\ trigger_ts1' = TimeOf(y) /\ trigger' = AddStrip(EmptyTrigger, y)
        /\ first_trigger' = FALSE /\ ~(TimeOf(y) - trigger_ts1 < W) /\ y.sipm_coinc
    BY <1>1, <1>17 DEF NewTrigger, First, InWindow, CanStart
  <2>2. ToSet(trigger'.strips) = {y}
    BY <1>11, <2>1
  <2>3. ASSUME NEW s \in Looked, s.sipm_coinc, Quiet(s) PROVE TimeOf(s) + W <= TimeOf(y)
    <3>1. TimeOf(s) \in Nat /\ TimeOf(y) \in Nat
      BY <1>2, <1>3
    <3> QED BY <1>1, <1>4, <1>6, <2>1, <2>3, <3>1
  <2>4. ASSUME NEW s \in Looked \cup {y}, NEW v \in Looked \cup {y}, Prompt(s, v), TimeOf(s) = TimeOf(y)
        PROVE  v = y
    <3>1. SUFFICES ASSUME v \in Looked PROVE FALSE
      OBVIOUS
    <3>2. TimeOf(v) = TimeOf(s) /\ TimeOf(v) \in Nat /\ TimeOf(y) \in Nat
      BY <1>2, <1>3, <2>4, <3>1 DEF Prompt
    <3>3. Quiet(v) /\ v.sipm_coinc
      BY <1>3, <1>12, <2>4, <3>1, <3>2 DEF Prompt
    <3> QED BY <1>4, <2>3, <2>4, <3>1, <3>2, <3>3
  <2>5. ASSUME NEW s \in Looked \cup {y}, NEW u \in Looked \cup {y}, CrossingPair(s, u), TimeOf(s) < TimeOf(y)
        PROVE  BothSeen(Flushed, s, u)
    <3>1. s \in Looked
      BY <1>2, <1>3, <2>5
    <3>2. u # y
      <4>1. TimeOf(s) \in Nat /\ TimeOf(y) \in Nat /\ TimeOf(u) - TimeOf(s) < W
        BY <1>2, <1>3, <1>14, <2>5, <3>1
      <4> QED BY <1>4, <1>14, <2>3, <2>5, <3>1, <4>1
    <3> QED BY <2>5, <3>1, <3>2, FlushedSees
  <2>6. Wanted(TimeOf(y), Flushed, {y})
    BY <2>3, <2>4, <2>5
  <2> QED BY <1>5, <1>7, <1>8, <1>11, <2>1, <2>2, <2>6 DEF WalkInv
<1>18. CASE DropStrip(y)
  <2>1. /\ UNCHANGED <<febData, trigger_ts1, first_trigger, trigger>>
        /\ ~(TimeOf(y) - trigger_ts1 < W) /\ (first_trigger => ~y.sipm_coinc)
        /\ y.sipm_coinc => TimeOf(y) - trigger_ts1 <= DeadTime
    BY <1>1, <1>18 DEF DropStrip, First, InWindow, CanStart, IsInDeadTime
  <2>2. TimeOf(y) \in Nat /\ TimeOf(y) >= trigger_ts1 + W
    BY <1>1, <1>2, <1>3, <1>4, <2>1
  <2>3. ASSUME y.sipm_coinc, Quiet(y) PROVE FALSE
    <3>1. PICK w \in Looked : w.sipm_coinc /\ TimeOf(w) = trigger_ts1
      BY <1>6, <2>1, <2>3
    <3>2. TimeOf(y) - TimeOf(w) > DeadTime + W
      BY <1>1, <1>3, <1>4, <1>13, <2>2, <2>3, <3>1
    <3> QED BY <1>1, <1>4, <2>1, <2>2, <2>3, <3>1, <3>2
  <2>4. ASSUME NEW s \in Looked \cup {y}, NEW v \in Looked \cup {y}, Prompt(s, v), TimeOf(s) = trigger_ts1
        PROVE  v \in ToSet(trigger.strips)
    <3>1. s # y
      BY <1>1, <1>4, <2>2, <2>4
    <3>2. v # y
      BY <1>1, <1>4, <2>2, <2>4 DEF Prompt
    <3> QED BY <1>6, <2>4, <3>1, <3>2
  <2>5. ASSUME NEW s \in Looked \cup {y}, NEW u \in Looked \cup {y}, CrossingPair(s, u), TimeOf(s) < trigger_ts1
        PROVE  BothSeen(febData, s, u)
    <3>1. s # y
      BY <1>1, <1>4, <2>2, <2>5
    <3>2. u # y
      <4>1. TimeOf(s) \in Nat /\ TimeOf(u) - TimeOf(s) < W
        BY <1>2, <1>3, <1>14, <2>5
      <4> QED BY <1>1, <1>4, <2>2, <2>5, <4>1
    <3> QED BY <1>6, <2>5, <3>1, <3>2
  <2>6. Wanted(trigger_ts1, febData, ToSet(trigger.strips))
    BY <1>6, <2>3, <2>4, <2>5
  <2>7. first_trigger' => (\A v \in Looked' : ~v.sipm_coinc) /\ ~trigger'.planeX /\ ~trigger'.planeY
    BY <1>5, <1>6, <2>1
  <2>8. ~first_trigger' => \E w \in Looked' : w.sipm_coinc /\ TimeOf(w) = trigger_ts1'
    BY <1>5, <1>6, <2>1
  <2> QED BY <1>6, <1>7, <1>8, <2>1, <2>6, <2>7, <2>8 DEF WalkInv
<1> QED BY <1>15, <1>16, <1>17, <1>18

(* A tagger's walk starts.                                                 *)
LEMMA WalkStarts ==
  ASSUME NEW left, left # {}, StartTagger(left), UNCHANGED fTaggers
  PROVE  WalkInv'
<1>1. /\ todo' = fTaggers'[tagger'] /\ trigger_ts1' = 0 /\ first_trigger' = TRUE
      /\ trigger' = EmptyTrigger
  BY DEF StartTagger
<1>2. Looked' = {}
  BY <1>1 DEF Looked
<1>3. ToSet(trigger'.strips) = {} /\ ~trigger'.planeX /\ ~trigger'.planeY
  BY <1>1 DEF EmptyTrigger, ToSet
<1> QED BY <1>1, <1>2, <1>3 DEF WalkInv

(* Its tagger is the least of those left.                                  *)
LEMMA LeastTagger ==
  ASSUME NEW left, left \subseteq Taggers, left # {}, StartTagger(left)
  PROVE  tagger' \in left /\ \A u \in left : tagger' <= u
<1>1. tagger' = CHOOSE t \in left : \A u \in left : t <= u
  BY DEF StartTagger
<1>2. \E t \in left : \A u \in left : t <= u
  <2>1. IsFiniteSet(left) /\ \A t \in left : t \in Int
    <3>1. IsFiniteSet(Taggers) /\ \A t \in Taggers : t \in Int
      BY Geometry
    <3> QED BY <3>1, FS_Subset
  <2>2. PICK t \in left, l \in left : \A u \in left : t <= u /\ u <= l
    BY <2>1, HasFirstAndLast
  <2> QED BY <2>2
<1> QED BY <1>1, <1>2

(* The strip of a deposit, in the simulation as it is in the jobs.         *)
LEMMA DepositFits ==
  ASSUME PlainSimulation, fConfig \in Configs, fConfig.mc, NEW d \in Deposits(fConfig)
  PROVE  Fits(StripData(d)) /\ HasSiPMs(StripData(d))
<1>1. d.strip \in Strips /\ d.q0 \in Nat /\ d.q1 \in Nat
  BY InputsAssumption
<1>2. d.q0 + AdcSaturation < 2^16 /\ d.q1 + AdcSaturation < 2^16
  BY DEF PlainSimulation
<1>3. PICK s : s = StripData(d)
  OBVIOUS
<1>4. s.sipm0.adc \in {d.q0, d.q1} /\ s.sipm1.adc \in {d.q0, d.q1}
  BY <1>3 DEF StripData
<1>5. s.ide.strip = d.strip /\ s.mac5 = ModuleOf[d.strip]
  BY <1>3 DEF StripData
<1>6. {s.sipm0.sipmID, s.sipm1.sipmID} = {2 * d.strip, 2 * d.strip + 1}
  BY <1>3 DEF StripData
<1>7. Fits(s)
  BY <1>1, <1>2, <1>4 DEF Fits
<1>8. HasSiPMs(s)
  BY <1>1, <1>5, <1>6 DEF HasSiPMs, StripsOf
<1> QED BY <1>3, <1>7, <1>8

(* What is seen stays seen while the strips stay.                          *)
LEMMA SeenStays ==
  ASSUME NEW F, febData' = F, UNCHANGED fTaggers
  PROVE  (Begun(F) => Begun(febData)') /\ \A t : AllSeen(F, t) => AllSeen(febData, t)'
<1>1. Begun(F) => Begun(febData)'
  BY DEF Begun
<1>2. ASSUME NEW t, AllSeen(F, t) PROVE AllSeen(febData, t)'
  <2>1. \A s, u : CrossingPair(s, u)' = CrossingPair(s, u)
    BY PairsStay
  <2>2. \A s, u : BothSeen(F, s, u) => BothSeen(febData, s, u)'
    BY DEF BothSeen
  <2> QED BY <1>2, <2>1, <2>2 DEF AllSeen
<1> QED BY <1>1, <1>2

(* From the deposits on, the pairs that cross are read out.                *)
LEMMA CrossKept ==
  ASSUME PlainSimulation, ChainTyped, SimInv, CrossInv, Next
  PROVE  CrossInv'
<1>1. UNCHANGED fConfig /\ fConfig \in Configs
  BY DEF Next, Simulate, FillTaggers, NegativeTime, CreateData, LookAtStrip, EndTagger, eventVars,
         DecideFrames, ReadEvent, StripHits, ProduceStripHits, UnixTimestampsDiffer,
         Cluster, CreateCluster, ProduceSpacePoints, Veto, ProduceVeto, Objects, ProduceBlobs,
         ProduceTracks, NextEvent, ChainTyped
<1> DEFINE Walking == WalkInv /\ \A t \in Taggers : t < tagger => AllSeen(febData, t)
           Over    == \A t \in Taggers : AllSeen(febData, t)
<1> SUFFICES ASSUME fConfig.mc
             PROVE  /\ Simulated' /\ Begun(febData)'
                    /\ stage' = "trigger" => Walking'
                    /\ stage' \notin {"fill", "trigger", "thrown"} => Over'
  BY <1>1 DEF CrossInv
<1>2. /\ Simulated /\ Begun(febData)
      /\ stage = "trigger" => Walking
      /\ stage \notin {"fill", "trigger", "thrown"} => Over
  BY DEF CrossInv
<1>3. /\ stage = "fill" => febData = <<>>
      /\ Made(febData)
      /\ stage = "trigger" => TriggerInv
  BY DEF SimInv
<1>4. DOMAIN fTaggers = Taggers /\ \A t \in Taggers : t \in Nat
  BY Geometry DEF ChainTyped
<1>5. UNCHANGED fTaggers => Simulated'
  BY <1>2 DEF Simulated
<1>6. febData' = <<>> => Begun(febData)'
  <2>1. febData' = <<>> => DOMAIN febData' = {}
    OBVIOUS
  <2> QED BY <2>1 DEF Begun
<1>7. ASSUME NEW d \in Deposits(fConfig), FillTaggers(d)
      PROVE  Simulated' /\ febData' = <<>> /\ stage' = "fill"
  <2>1. PICK s, u : s = StripData(d) /\ u = TaggerOf[s.mac5]
    OBVIOUS
  <2>2. fTaggers' = [fTaggers EXCEPT ![u] = @ \cup {s}] /\ UNCHANGED <<stage, febData>> /\ stage = "fill"
    BY <1>7, <2>1 DEF FillTaggers, eventVars
  <2>3. Fits(s) /\ HasSiPMs(s)
    BY <1>1, <2>1, DepositFits
  <2>4. \A t \in Taggers : \A v \in fTaggers'[t] : v = s \/ v \in fTaggers[t]
    BY <1>4, <2>2
  <2> QED BY <1>2, <1>3, <2>2, <2>3, <2>4 DEF Simulated
<1>8. ASSUME NEW d, NegativeTime(d)
      PROVE  stage' = "thrown" /\ UNCHANGED <<febData, fTaggers>>
  BY <1>8 DEF NegativeTime, simVars
<1>9. ASSUME NEW t \in Taggers, fTaggers[t] = {} PROVE AllSeen(febData', t)
  BY <1>9 DEF AllSeen
<1>10. CASE CreateData
  <2>1. febData' = <<>> /\ fTaggers' = fTaggers /\ StartTagger(HitTaggers) /\ HitTaggers \subseteq Taggers
    BY <1>3, <1>10 DEF CreateData, HitTaggers
  <2>2. CASE HitTaggers = {}
    <3>1. stage' = "hits"
      BY <2>1, <2>2 DEF StartTagger
    <3>2. \A t \in Taggers : AllSeen(febData', t)
      BY <1>9, <2>2 DEF HitTaggers
    <3> QED BY <1>5, <1>6, <2>1, <3>1, <3>2, SeenStays
  <2>3. CASE HitTaggers # {}
    <3>1. stage' = "trigger" /\ WalkInv'
      BY <2>1, <2>3, WalkStarts DEF StartTagger
    <3>2. tagger' \in HitTaggers /\ \A u \in HitTaggers : tagger' <= u
      BY <2>1, <2>3, LeastTagger
    <3>3. \A t \in Taggers : t < tagger' => fTaggers[t] = {}
      BY <1>4, <2>1, <3>2 DEF HitTaggers
    <3>4. \A t \in Taggers : t < tagger' => AllSeen(febData', t)
      BY <1>9, <3>3
    <3> QED BY <1>5, <1>6, <2>1, <3>1, <3>4, SeenStays
  <2> QED BY <2>2, <2>3
<1>11. ASSUME TriggerInv, Walking
       PROVE  /\ Begun(Flushed) /\ \A t \in Taggers : t < tagger => AllSeen(Flushed, t)
              /\ todo = {} => AllSeen(Flushed, tagger)
  <2>1. Begun(Flushed)
    BY <1>2, <1>3, <1>11, FlushedBegun
  <2>2. \A k \in DOMAIN febData : k \in DOMAIN Flushed /\ Flushed[k] = febData[k]
    BY <1>3, <1>11, FlushedParts
  <2>3. \A s, u : BothSeen(febData, s, u) => BothSeen(Flushed, s, u)
    BY <2>2 DEF BothSeen
  <2>4. \A t \in Taggers : t < tagger => AllSeen(Flushed, t)
    BY <1>11, <2>3 DEF AllSeen
  <2>5. ASSUME todo = {} PROVE AllSeen(Flushed, tagger)
    <3>1. Looked = fTaggers[tagger]
      BY <2>5 DEF Looked
    <3>2. \A s, u \in Looked : CrossingPair(s, u) => BothSeen(Flushed, s, u)
      BY <1>2, <1>3, <1>11, FlushedSees
    <3> QED BY <3>1, <3>2 DEF AllSeen
  <2> QED BY <2>1, <2>4, <2>5
<1>12. CASE LookAtStrip
  <2>1. stage' = "trigger" /\ TriggerInv /\ Walking
    BY <1>2, <1>3, <1>12 DEF LookAtStrip
  <2>2. PICK s \in NextStrips :
          todo' = todo \ {s} /\ (FirstTrigger(s) \/ JoinTrigger(s) \/ NewTrigger(s) \/ DropStrip(s))
    BY <1>12 DEF LookAtStrip
  <2>3. UNCHANGED <<fTaggers, tagger>>
    BY <1>12 DEF LookAtStrip
  <2>4. WalkInv'
    BY <1>2, <1>3, <2>1, <2>2, <2>3, WalkGoesOn
  <2>5. febData' = febData \/ febData' = Flushed
    BY <2>2 DEF FirstTrigger, JoinTrigger, NewTrigger, DropStrip
  <2>6. Begun(febData') /\ \A t \in Taggers : t < tagger => AllSeen(febData', t)
    BY <1>2, <1>11, <2>1, <2>5
  <2>7. Begun(febData)' /\ \A t \in Taggers : t < tagger' => AllSeen(febData, t)'
    BY <2>3, <2>6, SeenStays
  <2> QED BY <1>5, <2>1, <2>3, <2>4, <2>7
<1>13. CASE EndTagger
  <2>1. /\ TriggerInv /\ Walking /\ febData' = Flushed /\ StartTagger(Later(tagger)) /\ fTaggers' = fTaggers
        /\ Later(tagger) \subseteq Taggers /\ todo = {} /\ tagger \in Taggers
    BY <1>2, <1>3, <1>13 DEF EndTagger, Later, HitTaggers, TriggerInv
  <2>2. Begun(febData') /\ \A t \in Taggers : t <= tagger => AllSeen(febData', t)
    <3>1. Begun(Flushed) /\ AllSeen(Flushed, tagger) /\ \A t \in Taggers : t < tagger => AllSeen(Flushed, t)
      BY <1>11, <2>1
    <3>2. \A t \in Taggers : t <= tagger => t = tagger \/ t < tagger
      BY <1>4, <2>1
    <3> QED BY <2>1, <3>1, <3>2
  <2>3. \A t \in Taggers : t <= tagger \/ t \in Later(tagger) \/ fTaggers[t] = {}
    BY <1>4, <2>1 DEF Later, HitTaggers
  <2>4. CASE Later(tagger) = {}
    <3>1. stage' = "hits"
      BY <2>1, <2>4 DEF StartTagger
    <3>2. \A t \in Taggers : AllSeen(febData', t)
      BY <1>9, <2>2, <2>3, <2>4
    <3> QED BY <1>5, <2>1, <2>2, <3>1, <3>2, SeenStays
  <2>5. CASE Later(tagger) # {}
    <3>1. stage' = "trigger" /\ WalkInv'
      BY <2>1, <2>5, WalkStarts DEF StartTagger
    <3>2. tagger' \in Later(tagger) /\ \A u \in Later(tagger) : tagger' <= u
      BY <2>1, <2>5, LeastTagger
    <3>3. \A t \in Taggers : t < tagger' => t <= tagger \/ fTaggers[t] = {}
      BY <1>4, <2>1, <2>3, <3>2
    <3>4. \A t \in Taggers : t < tagger' => AllSeen(febData', t)
      BY <1>9, <2>2, <3>3
    <3> QED BY <1>5, <2>1, <2>2, <3>1, <3>4, SeenStays
  <2> QED BY <2>4, <2>5
<1>14. CASE DecideFrames \/ ReadEvent
  BY <1>14 DEF DecideFrames, ReadTiming, UnpackTiming, ShiftFrames, ReadEvent, ChainTyped, Reading
<1>15. CASE StripHits \/ Cluster \/ Veto \/ Objects
  <2>1. /\ UNCHANGED <<febData, fTaggers>> /\ stage \notin {"fill", "trigger", "thrown"}
        /\ stage' \notin {"fill", "trigger"}
    BY <1>15 DEF StripHits, ProduceStripHits, UnixTimestampsDiffer, Cluster, CreateCluster,
                 ProduceSpacePoints, Veto, ProduceVeto, Objects, ProduceBlobs, ProduceTracks, simVars
  <2> QED BY <1>2, <1>5, <2>1, SeenStays
<1>16. CASE NextEvent
  <2>1. febData' = <<>> /\ stage' = "fill" /\ fTaggers' = [t \in Taggers |-> {}]
    BY <1>1, <1>16 DEF NextEvent, ClearTaggers, FirstStage
  <2>2. Simulated'
    BY <2>1 DEF Simulated
  <2> QED BY <1>6, <2>1, <2>2
<1>17. CASE Simulate
  <2>1. ASSUME NEW d, NegativeTime(d) PROVE Begun(febData)'
    BY <1>2, <1>8, <2>1, SeenStays
  <2> QED BY <1>5, <1>6, <1>7, <1>8, <1>10, <1>12, <1>13, <1>17, <2>1 DEF Simulate
<1> QED BY <1>14, <1>15, <1>16, <1>17 DEF Next

-----------------------------------------------------------------------------
(* The strip hits of the simulation: a readout's strips that are hit.      *)
SimHits ==
  fConfig.mc =>
    /\ \A h \in stripHits :
         h.strip \in StripsOf(febData[h.feb].mac5) /\ h.ts1 = Time1(febData[h.feb])
    /\ stage \in Late \cup {"clusters"} =>
         \A k \in DOMAIN febData : \A s \in StripsOf(febData[k].mac5) :
           febData[k].flags = 3 /\ IsHit(febData[k], s) =>
             \E h \in stripHits : h.strip = s /\ h.feb = k

(* They are made all at once, and stay.                                    *)
LEMMA SimHitsKept ==
  ASSUME PlainSimulation, ChainTyped, HitsTyped, SimHits, Next
  PROVE  SimHits'
<1>1. UNCHANGED fConfig /\ fConfig \in Configs
  BY DEF Next, Simulate, FillTaggers, NegativeTime, CreateData, LookAtStrip, EndTagger, eventVars,
         DecideFrames, ReadEvent, StripHits, ProduceStripHits, UnixTimestampsDiffer,
         Cluster, CreateCluster, ProduceSpacePoints, Veto, ProduceVeto, Objects, ProduceBlobs,
         ProduceTracks, NextEvent, ChainTyped
<1> SUFFICES ASSUME fConfig.mc PROVE SimHits'
  BY <1>1 DEF SimHits
<1>2. CASE stripHits' = {} /\ stage' \notin Late \cup {"clusters"}
  BY <1>2 DEF SimHits, Late
<1>3. CASE UNCHANGED <<febData, stripHits>> /\ stage \in Late \cup {"clusters"}
  BY <1>1, <1>3 DEF SimHits, Time1, StripsOf, IsHit, AboveThreshold
<1>4. CASE ProduceStripHits
  <2>1. stripHits' = UNION {CreateStripHits(i) : i \in DOMAIN febData} /\ UNCHANGED febData
    BY <1>4 DEF ProduceStripHits
  <2>2. \A f : InWindowOf(fConfig.ETrigWindow, TimeETrig(f)) /\ InWindowOf(fConfig.Ts0Window, Time0(f))
                 /\ InWindowOf(fConfig.Ts1Window, Time1(f))
    BY <1>1 DEF PlainSimulation, InWindowOf
  <2>3. \A f : f.flags = 3 => IsKept(f)
    BY <2>2 DEF IsKept, IsDataReadout
  <2>4. ASSUME NEW k \in DOMAIN febData, NEW h \in CreateStripHits(k)
        PROVE  h.strip \in StripsOf(febData[k].mac5) /\ h.ts1 = Time1(febData[k]) /\ h.feb = k
    <3>1. PICK f : f = febData[k]
      OBVIOUS
    <3>2. CreateStripHits(k) = {[strip |-> s, ts0 |-> Time0(f), ts1 |-> Time1(f), feb |-> k] :
                                  s \in {s \in StripsOf(f.mac5) : IsHit(f, s)}}
      BY <2>4, <3>1 DEF CreateStripHits
    <3>3. PICK s \in StripsOf(f.mac5) :
            h = [strip |-> s, ts0 |-> Time0(f), ts1 |-> Time1(f), feb |-> k]
      BY <2>4, <3>2
    <3> QED BY <3>1, <3>3
  <2>5. ASSUME NEW k \in DOMAIN febData, NEW s \in StripsOf(febData[k].mac5),
               febData[k].flags = 3, IsHit(febData[k], s)
        PROVE  \E h \in stripHits' : h.strip = s /\ h.feb = k
    <3>1. PICK f : f = febData[k]
      OBVIOUS
    <3>2. CreateStripHits(k) = {[strip |-> r, ts0 |-> Time0(f), ts1 |-> Time1(f), feb |-> k] :
                                  r \in {r \in StripsOf(f.mac5) : IsHit(f, r)}}
      BY <2>3, <2>5, <3>1 DEF CreateStripHits
    <3>3. PICK h : h = [strip |-> s, ts0 |-> Time0(f), ts1 |-> Time1(f), feb |-> k]
      OBVIOUS
    <3>4. h \in CreateStripHits(k) /\ h.strip = s /\ h.feb = k
      BY <2>5, <3>1, <3>2, <3>3
    <3> QED BY <2>1, <3>4
  <2>6. \A h \in stripHits' : h.strip \in StripsOf(febData[h.feb].mac5) /\ h.ts1 = Time1(febData[h.feb])
    BY <2>1, <2>4
  <2> QED BY <1>1, <2>1, <2>5, <2>6 DEF SimHits, Time1, StripsOf, IsHit, AboveThreshold
<1>5. CASE Simulate \/ DecideFrames \/ ReadEvent
  <2>1. stage \in Early /\ UNCHANGED stripHits
    BY <1>5 DEF Simulate, FillTaggers, NegativeTime, CreateData, LookAtStrip, EndTagger, eventVars,
                DecideFrames, ReadTiming, UnpackTiming, ShiftFrames, ReadEvent, Early, Simulating, Reading
  <2>2. stage' \notin Late \cup {"clusters"}
    BY <1>5 DEF Simulate, FillTaggers, NegativeTime, CreateData, LookAtStrip, EndTagger, StartTagger,
                eventVars, DecideFrames, ReadTiming, UnpackTiming, ShiftFrames, ReadEvent, Late
  <2> QED BY <1>2, <2>1, <2>2 DEF HitsTyped
<1>6. CASE StripHits
  <2>1. ProduceStripHits \/ UnixTimestampsDiffer
    BY <1>6 DEF StripHits
  <2>2. UnixTimestampsDiffer => stage \in Early /\ UNCHANGED stripHits /\ stage' \notin Late \cup {"clusters"}
    BY DEF UnixTimestampsDiffer, Early, Late
  <2> QED BY <1>2, <1>4, <2>1, <2>2 DEF HitsTyped
<1>7. CASE Cluster \/ Veto \/ Objects
  <2>1. UNCHANGED <<febData, stripHits>> /\ stage \in Late \cup {"clusters"}
    BY <1>7 DEF Cluster, CreateCluster, ProduceSpacePoints, Veto, ProduceVeto, Objects, ProduceBlobs,
                ProduceTracks, Late
  <2> QED BY <1>3, <2>1
<1>8. CASE NextEvent
  <2>1. stripHits' = {} /\ stage' \notin Late \cup {"clusters"}
    BY <1>8 DEF NextEvent, FirstStage, Late
  <2> QED BY <1>2, <2>1
<1> QED BY <1>5, <1>6, <1>7, <1>8 DEF Next

(* The hit of a strip that is seen.                                        *)
LEMMA SeenIsHit ==
  ASSUME SimHits, fConfig.mc, stage = "done", NEW k \in DOMAIN febData, NEW s,
         SeenIn(febData[k], s), HasSiPMs(s)
  PROVE  \E h \in stripHits : h.strip = s.ide.strip /\ h.feb = k /\ h.ts1 = TimeOf(s) + t1DelayCorrection[s.mac5]
<1>1. febData[k].mac5 = s.mac5 /\ febData[k].flags = 3 /\ IsHit(febData[k], s.ide.strip) /\ febData[k].ts = TimeOf(s)
  BY DEF SeenIn
<1>2. s.ide.strip \in StripsOf(febData[k].mac5)
  BY <1>1 DEF HasSiPMs
<1>3. PICK h \in stripHits : h.strip = s.ide.strip /\ h.feb = k
  BY <1>1, <1>2 DEF SimHits, Late
<1>4. h.ts1 = Time1(febData[k])
  BY <1>3 DEF SimHits
<1> QED BY <1>1, <1>3, <1>4 DEF Time1

(* Two strips that cross are hits of one cluster.                          *)
LEMMA PairTogether ==
  ASSUME PlainSimulation, ChainTyped, SimInv, HitsTyped, ClusterInv, CrossInv, SimHits,
         fConfig.mc, stage = "done", NEW t \in Taggers, NEW s \in fTaggers[t], NEW u \in fTaggers[t],
         CrossingPair(s, u), {s.ide.strip, u.ide.strip} \in Crossing,
         TimeOf(u) - TimeOf(s) < CoincidenceTimeRequirement
  PROVE  \E g, h \in stripHits : g.strip = s.ide.strip /\ h.strip = u.ide.strip /\ Together(g, h)
<1>1. /\ s.mac5 \in FEBs /\ TaggerOf[s.mac5] = t /\ TimeOf(s) \in Nat /\ HasSiPMs(s)
      /\ u.mac5 \in FEBs /\ TaggerOf[u.mac5] = t /\ TimeOf(u) \in Nat /\ HasSiPMs(u)
  BY DEF ChainTyped, IsStrip, CrossInv, Simulated
<1>2. PICK j \in DOMAIN febData, k \in DOMAIN febData : SeenIn(febData[j], s) /\ SeenIn(febData[k], u)
  BY DEF CrossInv, AllSeen, BothSeen
<1>3. /\ ~fConfig.UseTs0 /\ CoincidenceTimeRequirement <= DeadTime
      /\ \A f, g \in FEBs : TaggerOf[f] = TaggerOf[g] => t1DelayCorrection[f] = t1DelayCorrection[g]
  BY DEF PlainSimulation, ChainTyped
<1>4. PICK delay \in Int : \A f \in FEBs : TaggerOf[f] = t => t1DelayCorrection[f] = delay
  <2>1. t1DelayCorrection[s.mac5] \in Int
    BY <1>1, HitAssumption
  <2> QED BY <1>1, <1>3, <2>1
<1>5. PICK g \in stripHits : g.strip = s.ide.strip /\ g.ts1 = TimeOf(s) + delay
  BY <1>1, <1>2, <1>4, SeenIsHit
<1>6. PICK h \in stripHits : h.strip = u.ide.strip /\ h.ts1 = TimeOf(u) + delay
  BY <1>1, <1>2, <1>4, SeenIsHit
<1>7. \A e : ClusterTime(e) = e.ts1
  BY <1>3 DEF ClusterTime
<1>8. /\ TimeOf(s) <= TimeOf(u) /\ Quiet(s)
  BY DEF CrossingPair
<1>9. Close(g, h)
  <2>1. CheckOverlap(Near, g.strip, h.strip)
    BY <1>5, <1>6, GeometryAssumption DEF CheckOverlap
  <2> QED BY <1>1, <1>5, <1>6, <1>7, <1>8, <2>1, ClusterAssumption DEF Close
<1>10. Together(g, h) \/ Parted(g, h)
  BY <1>9 DEF ClusterInv, Late
<1>11. ASSUME Parted(g, h) PROVE FALSE
  <2>1. PICK e \in stripHits :
          /\ TaggerOfHit(e) = TaggerOfHit(g) /\ ClusterTime(e) < ClusterTime(g)
          /\ ClusterTime(g) < ClusterTime(e) + CoincidenceTimeRequirement
    BY <1>11 DEF Parted
  <2>2. PICK f : f = febData[e.feb]
    OBVIOUS
  <2>3. e.feb \in DOMAIN febData /\ e.strip \in StripsOf(f.mac5) /\ e.ts1 = Time1(f)
    BY <2>2 DEF HitsTyped, SimHits
  <2>4. f.mac5 \in FEBs /\ f.ts \in Nat
    BY <2>2, <2>3 DEF ChainTyped, IsEvent
  <2>5. TaggerOf[f.mac5] = t
    <3>1. TaggerOfHit(e) = TaggerOf[f.mac5]
      BY <2>3 DEF TaggerOfHit, TaggerOfStrip, StripsOf
    <3>2. TaggerOfHit(g) = t
      BY <1>1, <1>5 DEF TaggerOfHit, TaggerOfStrip, HasSiPMs, StripsOf
    <3> QED BY <2>1, <3>1, <3>2
  <2>6. e.ts1 = f.ts + delay
    BY <1>4, <2>3, <2>4, <2>5 DEF Time1
  <2>7. PICK w \in fTaggers[t] :
          w.sipm_coinc /\ TimeOf(w) <= f.ts /\ f.ts - TimeOf(w) < TaggerPlaneCoincidenceWindow
    BY <2>2, <2>3, <2>5 DEF CrossInv, Begun
  <2>8. TimeOf(w) \in Nat
    BY <2>7 DEF ChainTyped, IsStrip
  <2>9. f.ts < TimeOf(s) /\ TimeOf(s) < f.ts + CoincidenceTimeRequirement
    BY <1>1, <1>4, <1>5, <1>7, <2>1, <2>4, <2>6, ClusterAssumption
  <2>10. TimeOf(w) < TimeOf(s)
    BY <1>1, <2>4, <2>7, <2>8, <2>9
  <2>11. TimeOf(s) - TimeOf(w) > DeadTime + TaggerPlaneCoincidenceWindow
    BY <1>1, <1>8, <2>7, <2>10 DEF Quiet, TaggerStrips
  <2> QED BY <1>1, <1>3, <2>4, <2>7, <2>8, <2>9, <2>11, ClusterAssumption, SimAssumption
<1> QED BY <1>5, <1>6, <1>10, <1>11

(* From the deposit to the space point: two prompt, bright deposits on     *)
(* crossing strips, after a quiet time of the tagger and not behind a      *)
(* weaker one on their boards, are reconstructed as one space point.  It   *)
(* is so from FillTaggers to ProduceSpacePoints, with whatever else is     *)
(* deposited, for every geometry, waveform and window that the simulation  *)
(* may have.                                                               *)
THEOREM CrossingsAreReconstructed ==
  ASSUME PlainSimulation
  PROVE  Spec => []CrossingReconstructed
<1>1. Init => CrossInv /\ SimHits /\ PointsAre /\ FlagsAre
  <2>1. ASSUME Init PROVE CrossInv /\ SimHits /\ PointsAre /\ FlagsAre
    <3>1. /\ fTaggers = [t \in Taggers |-> {}] /\ febData = <<>> /\ stripHits = {}
          /\ stage = (IF fConfig.mc THEN "fill" ELSE "timing")
      BY <2>1 DEF Init, FirstStage
    <3>2. Simulated
      BY <3>1 DEF Simulated
    <3>3. Begun(febData)
      <4>1. DOMAIN febData = {}
        BY <3>1
      <4> QED BY <4>1 DEF Begun
    <3>4. PointsAre /\ FlagsAre
      BY <2>1, VetoStarts DEF VetoInv
    <3> QED BY <3>1, <3>2, <3>3, <3>4 DEF CrossInv, SimHits, Late
  <2> QED BY <2>1
<1>2. ChainTyped /\ SimInv /\ HitsTyped /\ CrossInv /\ SimHits /\ PointsAre /\ FlagsAre /\ [Next]_vars
        => CrossInv' /\ SimHits' /\ PointsAre' /\ FlagsAre'
  <2>1. ASSUME CrossInv, SimHits, PointsAre, FlagsAre, UNCHANGED vars
        PROVE  CrossInv' /\ SimHits' /\ PointsAre' /\ FlagsAre'
    <3>1. UNCHANGED <<stage, fConfig, febData, stripHits, clusters, spacePoints, frameInfo, veto,
                      fTaggers, tagger, todo, trigger_ts1, first_trigger, trigger>>
      BY <2>1 DEF vars, eventVars, simVars, shiftVars, recoVars
    <3>2. SimHits'
      BY <2>1, <3>1 DEF SimHits, Time1, StripsOf, IsHit, AboveThreshold
    <3>3. PointsAre'
      BY <2>1, <3>1 DEF PointsAre, IsComplete, CompletePairs, IsSingleBottom, TaggerOfHit, TaggerOfStrip
    <3>4. WalkInv => WalkInv'
      BY <3>1, PairsStay DEF WalkInv, Looked, BothSeen
    <3>5. CrossInv'
      BY <2>1, <3>1, <3>4, SeenStays DEF CrossInv, Simulated
    <3>6. FlagsAre'
      BY <2>1, <3>1, FlagsStay DEF FlagsAre
    <3> QED BY <3>2, <3>3, <3>5, <3>6
  <2>2. ASSUME ChainTyped, SimInv, HitsTyped, CrossInv, SimHits, PointsAre, FlagsAre, Next
        PROVE  CrossInv' /\ SimHits' /\ PointsAre' /\ FlagsAre'
    BY <2>2, PlainSimulation, CrossKept, SimHitsKept, FlagsKept
  <2> QED BY <2>1, <2>2
<1>3. ChainTyped /\ SimInv /\ HitsTyped /\ ClusterInv /\ CrossInv /\ SimHits /\ PointsAre
        => CrossingReconstructed
  <2> SUFFICES ASSUME ChainTyped, SimInv, HitsTyped, ClusterInv, CrossInv, SimHits, PointsAre,
                      stage = "done", fConfig.mc, NEW s \in Filled, NEW u \in Filled,
                      {s.ide.strip, u.ide.strip} \in Crossing, CrossingPair(s, u),
                      TimeOf(u) - TimeOf(s) < CoincidenceTimeRequirement
               PROVE  \E c \in spacePoints : {s.ide.strip, u.ide.strip} \subseteq {h.strip : h \in c}
    BY DEF CrossingReconstructed, CrossingPair
  <2>1. PICK t \in Taggers, v \in Taggers : s \in fTaggers[t] /\ u \in fTaggers[v]
    BY DEF Filled
  <2>2. /\ TaggerOf[s.mac5] = t /\ HasSiPMs(s) /\ TaggerOf[u.mac5] = v /\ HasSiPMs(u)
    BY <2>1 DEF ChainTyped, IsStrip, CrossInv, Simulated
  <2>3. /\ ModuleOf[s.ide.strip] = s.mac5 /\ ModuleOf[u.ide.strip] = u.mac5
        /\ s.ide.strip \in Strips /\ u.ide.strip \in Strips
    BY <2>2 DEF HasSiPMs, StripsOf
  <2>4. t = v
    <3>1. CheckOverlap(Near, s.ide.strip, u.ide.strip)
      BY GeometryAssumption DEF CheckOverlap
    <3>2. TaggerOf[ModuleOf[s.ide.strip]] = TaggerOf[ModuleOf[u.ide.strip]]
      BY <2>3, <3>1, OverlapInTagger
    <3> QED BY <2>2, <2>3, <3>2
  <2>5. PICK g \in stripHits, h \in stripHits :
          g.strip = s.ide.strip /\ h.strip = u.ide.strip /\ Together(g, h)
    BY <2>1, <2>4, PairTogether
  <2>6. PICK c \in clusters : g \in c /\ h \in c
    BY <2>5 DEF Together
  <2>7. IsComplete(c)
    <3>1. PICK x : x = <<g, h>>
      OBVIOUS
    <3>2. x \in c \X c /\ x[1] = g /\ x[2] = h
      BY <2>6, <3>1
    <3>3. Orientation[ModuleOf[x[1].strip]] # Orientation[ModuleOf[x[2].strip]]
      BY <2>3, <2>5, <3>2 DEF CrossingPair
    <3>4. CheckOverlap(Crossing, x[1].strip, x[2].strip)
      BY <2>5, <3>2 DEF CheckOverlap
    <3>5. {x[1], x[2]} \in CompletePairs(c)
      BY <3>2, <3>3, <3>4 DEF CompletePairs
    <3> QED BY <3>5 DEF IsComplete
  <2>8. c \in spacePoints
    BY <2>6, <2>7 DEF PointsAre, Late
  <2> QED BY <2>5, <2>6, <2>8
<1> QED BY <1>1, <1>2, <1>3, CRTIsKept, PTL DEF Spec
=============================================================================
