----------------------------- MODULE CRTClusters -----------------------------
(***************************************************************************)
(* CRTClusterProducer and CRTSpacePointProducer: the strip hits of a       *)
(* tagger are grouped by time, each group is split by the overlap of the   *)
(* strips, and a cluster whose strips cross becomes a space point.         *)
(* Positions, errors and photoelectrons are left out.                      *)
(***************************************************************************)
EXTENDS CRTState

CONSTANT CoincidenceTimeRequirement
ASSUME ClusterAssumption == CoincidenceTimeRequirement \in Nat \ {0}

VARIABLE unused     \* the strip hits not yet in a cluster

ClusterTime(h) == IF fConfig.UseTs0 THEN h.ts0 ELSE h.ts1
TaggerOfHit(h) == TaggerOfStrip(h.strip)

(* GroupStripHits: the hits of the first tagger that has any left.  A      *)
(* mutant: the hits of all taggers are in one group.                       *)
AllHits    == unused
TaggerHits == {h \in unused : \A g \in unused : TaggerOfHit(h) <= TaggerOfHit(g)}

Earliest(hits) == CHOOSE h \in hits : \A g \in hits : ClusterTime(h) <= ClusterTime(g)

(* CreateClusters: the hits within the window that the earliest one opens. *)
TimeGroup(hits) ==
  {h \in hits : ClusterTime(h) - ClusterTime(Earliest(hits)) < CoincidenceTimeRequirement}

Overlaps(hits, h) == {g \in hits : CheckOverlap(Near, h.strip, g.strip)}

Exclusive(hits, h) == \A g \in Overlaps(hits, h) : Overlaps(hits, g) = Overlaps(hits, h)

(* SplitClusters: sets of hits that overlap one another and nothing else   *)
(* become clusters of their own, the hits left over stay together.         *)
SplitCluster(hits) ==
  LET leftovers == {h \in hits : ~Exclusive(hits, h)}
  IN {Overlaps(hits, h) : h \in hits \ leftovers} \cup ({leftovers} \ {{}})

CreateCluster ==
  /\ stage = "clusters" /\ unused # {}
  /\ LET group == TimeGroup(TaggerHits)
     IN unused' = unused \ group /\ clusters' = clusters \cup SplitCluster(group)
  /\ UNCHANGED <<stage, fConfig, febData, stripHits, spacePoints>>

(* TwoHitSpacePoint and CharacteriseMultiHitCluster: two strips of         *)
(* different orientation that overlap; in the bottom tagger one hit does.  *)
CompletePairs(c) ==
  {{x[1], x[2]} : x \in {y \in c \X c :
     /\ Orientation[ModuleOf[y[1].strip]] # Orientation[ModuleOf[y[2].strip]]
     /\ CheckOverlap(Crossing, y[1].strip, y[2].strip)}}
IsComplete(c) == CompletePairs(c) # {}
IsSingleBottom(c) == Cardinality(c) = 1 /\ \A h \in c : TaggerOfHit(h) \in BottomTaggers

ProduceSpacePoints ==
  /\ stage = "clusters" /\ unused = {}
  /\ spacePoints' = {c \in clusters : IsComplete(c) \/ IsSingleBottom(c)}
  /\ stage' = "points"
  /\ UNCHANGED <<fConfig, febData, stripHits, clusters, unused>>
=============================================================================
