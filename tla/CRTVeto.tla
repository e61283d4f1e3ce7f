------------------------------ MODULE CRTVeto ------------------------------
(***************************************************************************)
(* CRTVetoProducer: were there space points in the walls of the CRT during *)
(* the beam?  The time of a space point is the mean over its pairs of      *)
(* crossing strips, or that of the single hit of a bottom strip.           *)
(***************************************************************************)
EXTENDS CRTClusters

CONSTANTS Wall,               \* [tagger -> "south", "north", "east", "west", "topLow", ...]
          TimingCorrection    \* [strip -> time walk and propagation at a crossing]

ASSUME VetoAssumption ==
  /\ Wall \in [Taggers -> {"bottom", "south", "north", "east", "west", "topLow", "topHigh"}]
  /\ \A t \in Taggers : Wall[t] = "bottom" <=> t \in BottomTaggers
  /\ TimingCorrection \in [Strips -> Nat]

VARIABLE veto     \* the flags V0 to V4 and the space points they are of

NoVeto == [v0 |-> FALSE, v1 |-> FALSE, v2 |-> FALSE, v3 |-> FALSE, v4 |-> FALSE, points |-> {}]

(* CorrectTime, for one of the two hits: from the reset of T1, and from    *)
(* the reference.                                                          *)
HitTime1(h) == h.ts1 - TimingCorrection[h.strip]
HitTime0(h) == h.ts0 - TimingCorrection[h.strip]

(* The space point's Ts0 is this sum over twice the number of pairs.       *)
PairSum(c) == MapThenSumSet(LAMBDA p : MapThenSumSet(HitTime0, p), CompletePairs(c))
Halves(c)  == 2 * Cardinality(CompletePairs(c))

InVetoWindow(c) ==
  LET n   == IF Cardinality(c) = 1 THEN 1 ELSE Halves(c)
      sum == IF Cardinality(c) = 1 THEN (CHOOSE h \in c : TRUE).ts0 ELSE PairSum(c)
      t   == sum + n * fConfig.TimeOffset
  IN n * fConfig.VetoWindow[1] <= t /\ t <= n * fConfig.VetoWindow[2]

WallOf(c) == Wall[TaggerOfHit(CHOOSE h \in c : TRUE)]

VetoFlags(points) ==
  LET hit     == {WallOf(c) : c \in points} \ {"bottom"}
      tops    == {"topLow", "topHigh"}
      noNorth == hit \ {"north"}
  IN [v0 |-> hit # {},     v1 |-> hit \ tops # {} \/ tops \subseteq hit,
      v2 |-> noNorth # {}, v3 |-> noNorth \ tops # {} \/ tops \subseteq hit,
      v4 |-> "south" \in hit, points |-> points]

(* timingType is that of the strip hits' reference.  Data without one is   *)
(* not flagged.                                                            *)
ProduceVeto(timingType) ==
  /\ stage = "points"
  /\ veto' = IF ~fConfig.mc /\ timingType \notin {"tdc", "ptb"} THEN NoVeto
             ELSE VetoFlags({c \in spacePoints : InVetoWindow(c)})
  /\ stage' = "blobs"
  /\ UNCHANGED <<fConfig, febData, stripHits, clusters, spacePoints, unused>>
=============================================================================
