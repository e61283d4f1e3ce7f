------------------------------ MODULE CRTChain ------------------------------
(***************************************************************************)
(* The CRT over a job: event after event, the readouts are simulated       *)
(* (CRTDetSim) or come from the detector, with a frame of reference that   *)
(* FrameShift finds, and are reconstructed to strip hits, clusters, space  *)
(* points, the veto, blobs and tracks.  The properties relate what the     *)
(* last modules make to what went into the first.                          *)
(***************************************************************************)
EXTENDS CRTDetSim, CRTStripHits, CRTObjects

CONSTANTS Deposits(_),      \* of a configuration: the energy deposits there are,
          MaxDeposits,      \* and how many of them an event has
          Events(_),        \* of a configuration: sequences of detector readouts
          Timings(_)        \* and what the timing system recorded

IsEvent(e) ==
  /\ e \in Seq(ToSet(e))
  /\ \A i \in DOMAIN e : e[i].mac5 \in FEBs /\ e[i].unixs \in Nat /\ e[i].ts \in Nat

ASSUME InputsAssumption ==
  \A c \in Configs :
    /\ c.mc \in BOOLEAN
    /\ c.TimeOffset \in Int /\ c.VetoWindow[1] \in Int /\ c.VetoWindow[2] \in Int
    /\ c.mc => \A d \in Deposits(c) :
                 d.strip \in Strips /\ d.ts0 \in Int /\ {d.ts1, d.q0, d.q1} \subseteq Nat
    /\ ~c.mc => (\A e \in Events(c) : IsEvent(e)) /\ (\A t \in Timings(c) : IsTiming(t))

(* An event's neighbours are far enough for what is closest to be its own. *)
NeighboursApart ==
  /\ 0 \notin PtbEtrigHlts
  /\ \A c \in Configs : ~c.mc => \A t \in Timings(c) : OwnIsClosest(t)

(* Strip hits of data have the time since the reference, and are clustered *)
(* by it; those that are clustered by the time since the reset of T1 have  *)
(* it apart from that by the same on all the boards of a tagger.           *)
HitsReferenced ==
  \A c \in Configs :
    /\ c.mc \/ (c.ReferenceTs0 /\ c.UseTs0)
    /\ c.ReferenceTs0 => c.CorrectForDifferentSecond
    /\ c.UseTs0 \/ \A f, g \in FEBs :
         TaggerOf[f] = TaggerOf[g] /\ TaggerOf[f] \notin BottomTaggers =>
           t0DelayCorrection[f] - t1DelayCorrection[f] = t0DelayCorrection[g] - t1DelayCorrection[g]

(* The simulation's hits have no windows to be in and the same delays      *)
(* within a tagger; a SiPM's charges fit into 16 bits and stay visible     *)
(* where they saturate; and the boards are dead for longer than hits are   *)
(* clustered.                                                              *)
PlainSimulation ==
  /\ QPed <= AdcSaturation /\ ADCThreshold + SiPMPedestal < AdcSaturation
  /\ CoincidenceTimeRequirement <= DeadTime
  /\ \A c \in Configs : c.mc =>
       /\ c.ETrigWindow = <<>> /\ c.Ts0Window = <<>> /\ c.Ts1Window = <<>> /\ ~c.UseTs0
       /\ \A f, g \in FEBs : TaggerOf[f] = TaggerOf[g] => t1DelayCorrection[f] = t1DelayCorrection[g]
       /\ \A d \in Deposits(c) : d.q0 + AdcSaturation < 2^16 /\ d.q1 + AdcSaturation < 2^16

objectVars == <<blobs, tracks>>
recoVars == <<unused, veto, objectVars>>
vars     == <<eventVars, simVars, shiftVars, recoVars>>

FirstStage == IF fConfig.mc THEN "fill" ELSE "timing"

Init ==
  /\ fConfig \in Configs
  /\ stage = FirstStage
  /\ febData = <<>> /\ stripHits = {} /\ clusters = {} /\ spacePoints = {}
  /\ fTaggers = [t \in Taggers |-> {}] /\ todo = {} /\ tagger = 0
  /\ trigger_ts1 = 0 /\ first_trigger = TRUE /\ trigger = EmptyTrigger
  /\ timing = NoTiming /\ tdc = [ch \in TdcChannels |-> <<>>] /\ hlts = <<>> /\ frameInfo = NoFrame
  /\ unused = {} /\ veto = NoVeto /\ NoObjects

Filled == UNION {fTaggers[t] : t \in Taggers}

Simulate ==
  /\ \/ \E d \in Deposits(fConfig) :
          Cardinality(Filled) < MaxDeposits /\ (FillTaggers(d) \/ NegativeTime(d))
     \/ CreateData \/ LookAtStrip \/ EndTagger
  /\ UNCHANGED <<shiftVars, recoVars>>

(* Data: the decoded timing products, the frames FrameShift finds in them, *)
(* the decoded readouts.                                                   *)
ReadTiming ==
  /\ stage = "timing"
  /\ timing' \in Timings(fConfig)
  /\ stage' = "unpack"
  /\ UNCHANGED <<tdc, hlts, frameInfo>>

UnpackTiming ==
  /\ stage = "unpack"
  /\ \/ GetTimestamps /\ stage' = "shift"
     \/ ResetEventVars /\ stage' = "thrown"

ShiftFrames ==
  /\ stage = "shift"
  /\ \/ PutFrames /\ stage' = "read"
     \/ ReferenceMissing /\ stage' = "thrown" /\ UNCHANGED shiftVars

DecideFrames ==
  /\ ReadTiming \/ UnpackTiming \/ ShiftFrames
  /\ UNCHANGED <<fConfig, febData, stripHits, clusters, spacePoints, simVars, recoVars>>

ReadEvent ==
  /\ stage = "read"
  /\ febData' \in Events(fConfig)
  /\ stage' = "hits"
  /\ UNCHANGED <<fConfig, stripHits, clusters, spacePoints, simVars, shiftVars, recoVars>>

StripHits ==
  /\ ProduceStripHits \/ UnixTimestampsDiffer
  /\ unused' = stripHits'
  /\ UNCHANGED <<simVars, veto, objectVars>>

Cluster == (CreateCluster \/ ProduceSpacePoints) /\ UNCHANGED <<simVars, shiftVars, veto, objectVars>>
Veto    == ProduceVeto(frameInfo.default.type) /\ UNCHANGED <<simVars, shiftVars, objectVars>>
Objects == (ProduceBlobs \/ ProduceTracks) /\ UNCHANGED <<simVars, shiftVars>>

(* The next event starts with products of its own; the simulation's        *)
(* members are cleared by ClearTaggers, FrameShift's stay as they are.     *)
NextEvent ==
  /\ stage \in {"done", "thrown"}
  /\ stage' = FirstStage
  /\ ClearTaggers
  /\ stripHits' = {} /\ clusters' = {} /\ spacePoints' = {} /\ unused' = {} /\ veto' = NoVeto
  /\ blobs' = <<>> /\ tracks' = <<>>
  /\ timing' = NoTiming /\ frameInfo' = NoFrame
  /\ todo' = {} /\ tagger' = 0
  /\ trigger_ts1' = 0 /\ first_trigger' = TRUE /\ trigger' = EmptyTrigger
  /\ UNCHANGED <<fConfig, tdc, hlts>>

Next == Simulate \/ DecideFrames \/ ReadEvent \/ StripHits \/ Cluster \/ Veto \/ Objects \/ NextEvent
Spec == Init /\ [][Next]_vars

-----------------------------------------------------------------------------
Distance(a, b) == IF a > b THEN a - b ELSE b - a
Indices == DOMAIN febData
TaggerStrips(s) == fTaggers[TaggerOf[s.mac5]]
After == stage \in {"clusters", "points", "blobs", "tracks", "done"}      \* the strip hits are made

(* Type correctness of the products: a readout's charges stay within the   *)
(* saturation; hits, clusters and space points are built of one another.   *)
ChainTypeOK ==
  /\ fConfig \in Configs
  /\ stage \in {"fill", "timing", "unpack", "shift", "read", "trigger", "hits", "clusters",
                "points", "blobs", "tracks", "done", "thrown"}
  /\ \A i \in Indices :
       /\ febData[i].mac5 \in FEBs /\ febData[i].ts \in Nat
       /\ fConfig.mc =>
            \A c \in SiPMsOf(febData[i].mac5) : febData[i].adc[c] \in 0 .. AdcSaturation
  /\ \A h \in stripHits : h.strip \in Strips /\ h.feb \in Indices
  /\ unused \subseteq stripHits /\ spacePoints \subseteq clusters
  /\ \A c \in clusters : c # {} /\ c \subseteq stripHits
  /\ veto.points \subseteq spacePoints
  /\ \A o \in ToSet(blobs \o tracks) : o # {} /\ o \subseteq spacePoints

(* Whatever triggers follow one another, a deposit is read out once at     *)
(* most, with the FEB of its strip, and none is left of an earlier event.  *)
ReadOutOnce ==
  fConfig.mc =>
    /\ \A i \in Indices : \A s \in ToSet(febData[i].ides) :
         s.mac5 = febData[i].mac5 /\ s \in Filled
    /\ \A i, j \in Indices :
         i # j => ToSet(febData[i].ides) \cap ToSet(febData[j].ides) = {}
    /\ \A i \in Indices : IsInjective(febData[i].ides)

(* How far the boards' dead time holds: it counts from the trigger, which  *)
(* is up to a coincidence window before the board's readout; and two       *)
(* readouts of a board closer than that have between them a coincidence on *)
(* another board, whose trigger made the boards of the first be forgotten. *)
DeadTimeEndedByOthers ==
  fConfig.mc =>
    \A i, j \in Indices :
      /\ i # j /\ febData[i].mac5 = febData[j].mac5
      /\ febData[i].ts <= febData[j].ts
      /\ febData[j].ts - febData[i].ts <= DeadTime - TaggerPlaneCoincidenceWindow
      => \E s \in fTaggers[TaggerOf[febData[i].mac5]] :
           /\ s.sipm_coinc /\ s.mac5 # febData[i].mac5
           /\ febData[i].ts <= TimeOf(s) /\ TimeOf(s) <= febData[j].ts

-----------------------------------------------------------------------------
(* A data readout's time, and the reference time, counted from one origin. *)
Absolute(f) == f.unixs * Second + Raw(f)
Reference   == RefTimeS * Second + RefTimeNs

(* In data, the time of a strip hit is its readout's distance from the     *)
(* reference time, on whichever side of a second's end the two lie.        *)
TimeIsRelative ==
  After /\ fConfig.ReferenceTs0 =>
    \A h \in stripHits : h.ts0 = Absolute(febData[h.feb]) - Reference

(* The strip hits of data are those whose readout lies in the window       *)
(* around the event trigger, on either side of the PPS reset, for which    *)
(* "we correct the t0 time".  It is not so.                                *)
ETrigWindowKept ==
  After /\ ~fConfig.mc /\ fConfig.ETrigWindow # <<>> =>
    \A i \in Indices :
      IsDataReadout(febData[i]) /\ (\E s \in StripsOf(febData[i].mac5) : IsHit(febData[i], s)) =>
        ((\E h \in stripHits : h.feb = i)
           <=> InWindowOf(fConfig.ETrigWindow, Absolute(febData[i]) - frameInfo.etrig.time))

(* Hits on overlapping strips that are close in time are in one cluster,   *)
(* unless an earlier hit of the tagger opened a window that holds the      *)
(* first and ends before the second.                                       *)
OverlappingTogether ==
  stage = "done" =>
    \A g, h \in stripHits :
      /\ CheckOverlap(Near, g.strip, h.strip)
      /\ ClusterTime(g) <= ClusterTime(h)
      /\ ClusterTime(h) - ClusterTime(g) < CoincidenceTimeRequirement
      => \/ \E c \in clusters : {g, h} \subseteq c
         \/ \E e \in stripHits :
              /\ TaggerOfHit(e) = TaggerOfHit(g) /\ ClusterTime(e) < ClusterTime(g)
              /\ ClusterTime(g) < ClusterTime(e) + CoincidenceTimeRequirement
              /\ ClusterTime(e) + CoincidenceTimeRequirement <= ClusterTime(h)

(* From the deposit to the space point: two prompt, bright deposits on     *)
(* crossing strips, after a quiet time of the tagger and not behind a      *)
(* weaker one on their boards, are reconstructed as one space point.       *)
Bright(s) ==
  /\ s.sipm_coinc /\ s.sipm0.t1 = s.sipm1.t1
  /\ \A q \in {s.sipm0.adc, s.sipm1.adc} : q > ADCThreshold + SiPMPedestal
  /\ {s.sipm0.sipmID, s.sipm1.sipmID} \cap DeadSiPMs = {}
Quiet(s) ==
  \A v \in TaggerStrips(s) : v.sipm_coinc /\ TimeOf(v) < TimeOf(s) =>
    TimeOf(s) - TimeOf(v) > DeadTime + TaggerPlaneCoincidenceWindow
Unhidden(s, u) ==
  \A v \in TaggerStrips(u) :
    v.mac5 = u.mac5 /\ TimeOf(s) <= TimeOf(v) => TimeOf(u) <= TimeOf(v)
CrossingReconstructed ==
  stage = "done" /\ fConfig.mc =>
    \A s, u \in Filled :
      /\ {s.ide.strip, u.ide.strip} \in Crossing
      /\ Orientation[s.mac5] # Orientation[u.mac5]
      /\ Bright(s) /\ Bright(u) /\ Quiet(s) /\ Unhidden(s, u)
      /\ TimeOf(s) <= TimeOf(u)
      /\ TimeOf(u) - TimeOf(s) < TaggerPlaneCoincidenceWindow
      /\ TimeOf(u) - TimeOf(s) < CoincidenceTimeRequirement
      => \E c \in spacePoints : {s.ide.strip, u.ide.strip} \subseteq {h.strip : h \in c}

(* The flags are raised by pairs of crossing strips outside the bottom,    *)
(* one whose readouts are, by the reference, not after the window          *)
(* and one not before it, close in time; and are not raised without a      *)
(* reference.  One pair in the window, alone in its tagger, raises the     *)
(* flags of its wall.                                                      *)
FromGate(h) ==
  IF fConfig.mc THEN h.ts0 ELSE Absolute(febData[h.feb]) - frameInfo.default.time
PairTimes(p) == MapThenSumSet(LAMBDA h : FromGate(h) - TimingCorrection[h.strip], p)
WindowStart == 2 * (fConfig.VetoWindow[1] - fConfig.TimeOffset)
WindowEnd   == 2 * (fConfig.VetoWindow[2] - fConfig.TimeOffset)
ClosePairs ==
  {p \in CompletePairs(stripHits) :
     \A g, h \in p : /\ TaggerOfHit(g) = TaggerOfHit(h)
                     /\ TaggerOfHit(g) \notin BottomTaggers
                     /\ Distance(FromGate(g), FromGate(h)) < CoincidenceTimeRequirement}
WallOfPair(p) == Wall[TaggerOfHit(CHOOSE h \in p : TRUE)]
Raises(p, q) ==
  /\ WallOfPair(p) = WallOfPair(q)
  /\ PairTimes(p) <= WindowEnd /\ WindowStart <= PairTimes(q)
  /\ \A g \in p, h \in q : Distance(FromGate(g), FromGate(h)) < CoincidenceTimeRequirement
RaisedWalls == {WallOfPair(x[1]) : x \in {x \in ClosePairs \X ClosePairs : Raises(x[1], x[2])}}
LonePairs ==
  {p \in ClosePairs :
     /\ WindowStart <= PairTimes(p) /\ PairTimes(p) <= WindowEnd
     /\ \A h \in stripHits : (\E g \in p : TaggerOfHit(g) = TaggerOfHit(h)) => h \in p}
Referenced == fConfig.mc \/ frameInfo.default.type # "none"
Sides == {"south", "north", "east", "west"}
VetoHasReadouts ==
  stage = "done" =>
    LET walls == RaisedWalls
        alone == LonePairs
    IN /\ veto.v0 => Referenced /\ walls # {}
       /\ veto.v1 => Referenced /\ (walls \cap Sides # {} \/ {"topLow", "topHigh"} \subseteq walls)
       /\ veto.v4 => Referenced /\ "south" \in walls
       /\ Referenced => \A p \in alone :
            /\ veto.v0 /\ (WallOfPair(p) = "south" => veto.v4)
            /\ (WallOfPair(p) # "north" => veto.v2) /\ (WallOfPair(p) \in Sides => veto.v1)
            /\ \A q \in alone : {WallOfPair(p), WallOfPair(q)} = {"topLow", "topHigh"} => veto.v3

(* Blobs share no space point, and go no further than the window that      *)
(* their earliest point opens.  A point that is in no blob was left out    *)
(* for another one in its window, in a blob at least as tight as the       *)
(* window's points would be; a point alone in its window is in one.  The   *)
(* error of a lone point is not a number: that the order is then none      *)
(* does no harm.                                                           *)
Disjoint(objects) ==
  \A i, j \in DOMAIN objects : i # j => objects[i] \cap objects[j] = {}
Window(p) == {q \in spacePoints : TimeDiff(p, q) \in 0 .. Grain * ObjectTimeRequirement}
Tighter(a, b) == Cardinality(a) > 1 /\ Spread(a) * SpreadOver(b) <= Spread(b) * SpreadOver(a)
BlobsAccounted ==
  stage = "done" =>
    /\ Disjoint(blobs)
    /\ \A b \in ToSet(blobs) : \E p \in b : b \subseteq Window(p)
    /\ \A p \in spacePoints :
         \/ \E b \in ToSet(blobs) : p \in b
         \/ \E b \in ToSet(blobs) : b \cap (Window(p) \ {p}) # {} /\ Tighter(b, Window(p))

(* Tracks share no space point and have at most one of a tagger, within    *)
(* the time required, and none of a masked one.  Two points of the others  *)
(* that could be a track, or three with both the tops in line, are one, or *)
(* have a point in one that is longer, or as long and in no worse          *)
(* agreement with the speed of light.                                      *)
CouldBeTrack(t) ==
  /\ \A p, q \in t : p # q => TaggerOfPoint(p) # TaggerOfPoint(q)
  /\ \A p, q \in t : TimeDiff(p, q) <= Grain * ObjectTimeRequirement
  /\ Cardinality(t) = 3 => TopTaggers \subseteq {TaggerOfPoint(p) : p \in t}
InLineInTime(t) ==
  \E p, q, r \in t : /\ t = {p, q, r} /\ TimeDiff(p, q) > 0 /\ TimeDiff(q, r) > 0
                     /\ InLine(StripsOfPoint(p), StripsOfPoint(q), StripsOfPoint(r))
NoWorse(a, b) ==
  \/ Cardinality(a) > Cardinality(b)
  \/ Cardinality(a) = Cardinality(b) /\ ToFAgreement(a) <= ToFAgreement(b)
TracksAccounted ==
  stage = "done" =>
    /\ Disjoint(tracks)
    /\ \A t \in ToSet(tracks) : t \subseteq Trackable /\ Cardinality(t) \in {2, 3} /\ CouldBeTrack(t)
    /\ \A t \in kSubset(2, Trackable) \cup kSubset(3, Trackable) :
         CouldBeTrack(t) /\ (Cardinality(t) = 3 => InLineInTime(t)) =>
           \E s \in ToSet(tracks) : s \cap t # {} /\ NoWorse(s, t)
=============================================================================
