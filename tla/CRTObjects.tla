----------------------------- MODULE CRTObjects -----------------------------
(***************************************************************************)
(* CRTBlobProducer and CRTTrackProducer: space points close in time are    *)
(* candidates for a blob, two or three of different taggers for a track;   *)
(* the candidates are ordered from best to worst, and each is chosen that  *)
(* shares no space point with one chosen before.                           *)
(***************************************************************************)
EXTENDS CRTVeto

CONSTANTS ObjectTimeRequirement,   \* CoincidenceTimeRequirement of the two producers
          Grain,                   \* the divisions of the tick that mean times fall on
          TopTaggers,              \* the low one and the high one
          MaskedTaggers,
          InLine(_, _, _),         \* is a third point's DCA below the maximum?
          FlightTime(_)            \* of light between the points of a track, by the
                                   \* strips of each (LengthToToF)

ASSUME ObjectAssumption ==
  /\ ObjectTimeRequirement \in Nat \ {0} /\ Grain \in Nat \ {0}
  /\ TopTaggers \subseteq Taggers /\ MaskedTaggers \subseteq Taggers

VARIABLES blobs, tracks     \* sequences of sets of space points, as they were chosen

NoObjects == blobs = <<>> /\ tracks = <<>>

(* A space point's Ts0 or Ts1, in grains; TimeOffset is the same for all.  *)
HitTime(h) == IF fConfig.UseTs0 THEN HitTime0(h) ELSE HitTime1(h)
PointTime(c) ==
  IF Cardinality(c) = 1 THEN Grain * ClusterTime(CHOOSE h \in c : TRUE)
  ELSE (Grain \div Halves(c)) * MapThenSumSet(LAMBDA p : MapThenSumSet(HitTime, p), CompletePairs(c))

(* The orders by time, in which std::sort leaves points of the same time   *)
(* in any order: a further point goes behind no later one and in front of  *)
(* no earlier one.                                                         *)
Placings(sps, c) ==
  {InsertAt(sps, k, c) :
     k \in {k \in 1 .. Len(sps) + 1 : /\ \A j \in 1 .. k - 1 : PointTime(sps[j]) <= PointTime(c)
                                     /\ \A j \in k .. Len(sps) : PointTime(c) <= PointTime(sps[j])}}
OrderSpacePoints(points) ==
  FoldSet(LAMBDA c, orders : UNION {Placings(sps, c) : sps \in orders}, {<<>>}, points)
TimeDiff(early, late) == PointTime(late) - PointTime(early)
WithinTime(early, late) == TimeDiff(early, late) <= Grain * ObjectTimeRequirement

(* std::sort of up to 16 elements inserts one after the other: in front    *)
(* when it comes before the first, else behind the last that it does not   *)
(* come before.  On a strict weak order that sorts.                        *)
Insert(done, v, Before(_, _)) ==
  LET stays == {k \in DOMAIN done : ~Before(v, done[k])}
  IN InsertAt(done, IF 1 \in stays THEN Max(stays) + 1 ELSE 1, v)
InsertionSort(seq, Before(_, _)) == FoldLeft(LAMBDA done, v : Insert(done, v, Before), <<>>, seq)

(* ChoseBlobs and ChoseTracks, which are the same.                         *)
ChoseObjects(candidates) ==
  FoldLeft(LAMBDA chosen, c : IF \E d \in ToSet(chosen) : d \cap c # {} THEN chosen
                              ELSE Append(chosen, c),
           <<>>, candidates)

-----------------------------------------------------------------------------
(* Blobs.  The square of TimeErrorCalculator's error is this numerator     *)
(* over n * (n - 1): of one point it is 0 / 0, and compares as false with  *)
(* everything.                                                             *)
Spread(b) ==
  LET sum     == MapThenSumSet(PointTime, b)
      squares == MapThenSumSet(LAMBDA c : PointTime(c) * PointTime(c), b)
  IN Cardinality(b) * squares - sum * sum
SpreadOver(b) == Cardinality(b) * (Cardinality(b) - 1)

(* Mutant: every blob of several points comes before the lone ones, but    *)
(* the largest error first.                                                *)
LargerError(a, b) ==
  Cardinality(a) > 1 /\ Cardinality(b) > 1 /\ Spread(a) * SpreadOver(b) > Spread(b) * SpreadOver(a)

SmallerError(a, b) ==
  Cardinality(a) > 1 /\ Cardinality(b) > 1 /\ Spread(a) * SpreadOver(b) < Spread(b) * SpreadOver(a)

(* One candidate for each space point: it and those that follow in time.   *)
CreateBlobCandidates(sps) ==
  [i \in DOMAIN sps |-> {sps[ii] : ii \in {k \in i .. Len(sps) : WithinTime(sps[i], sps[k])}}]

ProduceBlobs ==
  /\ stage = "blobs"
  /\ \E sps \in OrderSpacePoints(spacePoints) :
       blobs' = ChoseObjects(InsertionSort(CreateBlobCandidates(sps), SmallerError))
  /\ stage' = "tracks"
  /\ UNCHANGED <<fConfig, febData, stripHits, clusters, spacePoints, unused, veto, tracks>>

-----------------------------------------------------------------------------
(* Tracks.                                                                 *)
TaggerOfPoint(c) == TaggerOfHit(CHOOSE h \in c : TRUE)
StripsOfPoint(c) == {h.strip : h \in c}
Trackable        == {c \in spacePoints : TaggerOfPoint(c) \notin MaskedTaggers}

IsPair(p, q) == WithinTime(p, q) /\ TaggerOfPoint(p) # TaggerOfPoint(q)
IsTriple(p, q, r) ==
  /\ TopTaggers \subseteq {TaggerOfPoint(c) : c \in {p, q, r}}
  /\ IsPair(p, r) /\ IsPair(q, r)
  /\ InLine(StripsOfPoint(p), StripsOfPoint(q), StripsOfPoint(r))

(* The triples of a pair come before it.                                   *)
CandidatesOf(sps, i, ii) ==
  LET thirds == Selected(sps, {k \in ii + 1 .. Len(sps) : IsTriple(sps[i], sps[ii], sps[k])})
  IN IF ~IsPair(sps[i], sps[ii]) THEN <<>>
     ELSE [k \in DOMAIN thirds |-> {sps[i], sps[ii], thirds[k]}] \o <<{sps[i], sps[ii]}>>
CreateTrackCandidates(sps) ==
  FlattenSeq([i \in DOMAIN sps |-> FlattenSeq([d \in 1 .. Len(sps) - i |-> CandidatesOf(sps, i, i + d)])])

ToF(t) == Max({PointTime(c) : c \in t}) - Min({PointTime(c) : c \in t})
ToFAgreement(t) ==
  LET diff == ToF(t) - Grain * FlightTime({StripsOfPoint(c) : c \in t})
  IN IF diff < 0 THEN -diff ELSE diff

(* Mutant: ordered by the agreement alone.                                 *)
AgreesBetter(a, b) == ToFAgreement(a) < ToFAgreement(b)

ComesFirst(a, b) ==
  IF Cardinality(a) # Cardinality(b) THEN Cardinality(a) > Cardinality(b)
  ELSE ToFAgreement(a) < ToFAgreement(b)

ProduceTracks ==
  /\ stage = "tracks"
  /\ \E sps \in OrderSpacePoints(Trackable) :
       tracks' = ChoseObjects(InsertionSort(CreateTrackCandidates(sps), ComesFirst))
  /\ stage' = "done"
  /\ UNCHANGED <<fConfig, febData, stripHits, clusters, spacePoints, unused, veto, blobs>>
=============================================================================
