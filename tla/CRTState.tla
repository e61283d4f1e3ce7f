------------------------------ MODULE CRTState ------------------------------
(***************************************************************************)
(* What the modules of the CRT (the cosmic ray tagger) share: the geometry *)
(* they ask CRTGeoService for, and the products they hand on through the   *)
(* event.  CRTDetSim turns energy deposits into FEBData, or FEBData come   *)
(* from the detector; CRTStripHits, CRTClusters and the space points       *)
(* reconstruct them.  CRTChain runs the modules in the order of the jobs.  *)
(*                                                                         *)
(* A module of strips is read out by one front end board (FEB), and bears  *)
(* its number; a tagger is a plane of modules of two orientations.         *)
(***************************************************************************)
EXTENDS Integers, Sequences, FiniteSets, SequencesExt, Selections

CONSTANTS Strips,          \* the strips, by the channel of their first SiPM
          ModuleOf,        \* [Strips -> mac5 of the module's FEB]
          TaggerOf,        \* [FEBs -> name of the tagger, a number in order]
          Orientation,     \* [FEBs -> 0 or 1]
          BottomTaggers,   \* the taggers with "Bottom" in their name
          Crossing,        \* pairs of strips that overlap, CheckOverlap within 1 cm
          Near,            \* the same within 10 cm
          Configs          \* the fhicl configurations considered

FEBs    == {ModuleOf[s] : s \in Strips}
Taggers == {TaggerOf[f] : f \in FEBs}
StripsOf(mac) == {s \in Strips : ModuleOf[s] = mac}

ASSUME GeometryAssumption ==
  /\ Strips \subseteq Nat /\ IsFiniteSet(Strips)
  /\ ModuleOf \in [Strips -> Nat]
  /\ TaggerOf \in [FEBs -> Nat] /\ Orientation \in [FEBs -> {0, 1}]
  /\ BottomTaggers \subseteq Taggers
  /\ Crossing \subseteq Near /\ Near \subseteq SUBSET Strips
  /\ \A p \in Near : Cardinality({TaggerOf[ModuleOf[s]] : s \in p}) = 1

(* CheckOverlap with the buffer of the clusters (10 cm) or of the space    *)
(* points: a relation of two strips of one tagger, true of a strip and     *)
(* itself.                                                                 *)
CheckOverlap(pairs, s1, s2) == s1 = s2 \/ {s1, s2} \in pairs

VARIABLES
  stage,        \* "fill", "trigger", "hits", "clusters", "points", "done", "thrown"
  fConfig,
  febData,      \* the FEBData of the event, with what the associations say
  stripHits,    \* set of CRTStripHit
  clusters,     \* set of sets of strip hits
  spacePoints   \* the clusters a space point was made of

eventVars == <<stage, fConfig, febData, stripHits, clusters, spacePoints>>

TaggerOfStrip(s) == TaggerOf[ModuleOf[s]]
=============================================================================
