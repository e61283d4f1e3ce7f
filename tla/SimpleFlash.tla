---------------------------- MODULE SimpleFlash ----------------------------
(***************************************************************************)
(* SimpleFlashAlgo, which makes optical flashes of the hits of one TPC.    *)
(* The hits of an event are summed in time bins; the bins in coincidence   *)
(* are looked at from the brightest down, and each that no earlier claim   *)
(* forbids claims an integration window, shortened if it runs into a       *)
(* brighter flash that follows.  The event has one instance per TPC, and   *)
(* the bins are static: the instances, and the events, share them.         *)
(*                                                                         *)
(* Times are integers, Resolution to a bin.  A channel's index in the bins *)
(* is left out, and the order of the hits, which only orders the sums.     *)
(***************************************************************************)
EXTENDS Integers, Sequences, FiniteSets, Functions

CONSTANTS
  Instances, Channels,  \* the algorithms, and the channels that each uses
  Events(_), MaxCalls(_), \* by configuration: sets of hits, a bound on the calls
  Configs,
  HitVetoRange,         \* [end -> start] of the times whose hits are ignored
  Resolution, Margin,   \* of the bins, and how many are added on each side
  MinPECoinc, MinMultCoinc, MinPECoincRepeated, PEThreshold,
  veto_ctr, integral_ctr, precount, min_time_before_ctr, time_dif_ctr

Counts == {MinMultCoinc, MinPECoinc, MinPECoincRepeated, PEThreshold, veto_ctr, integral_ctr,
           precount, min_time_before_ctr, time_dif_ctr}

ASSUME FlashAssumption ==
  /\ Counts \subseteq Nat /\ Resolution \in Nat \ {0} /\ Margin \in Nat
  /\ integral_ctr <= veto_ctr /\ MinPECoinc <= MinPECoincRepeated /\ 0 < MinPECoinc

(* The times and the PE of the hits of an event are integers.              *)
ASSUME EventsAssumption ==
  \A c \in Configs : \A H \in Events(c) :
    IsFiniteSet(H) /\ \A h \in H : h.time \in Int /\ h.pe \in Int

VARIABLES
  fConfig, fInstance, calls,
  hits,             \* the hits of this call
  bins,             \* the static vectors: hits, their number and PE by bin
  pesum,            \* _pesum_v, as far as this call uses it
  candidates,       \* pesum_idx_map, as a set of bins
  flash_period_v,   \* the windows claimed, in the order they were
  flashes, stage

flashVars == <<fConfig, fInstance, calls, hits, bins, pesum, candidates, flash_period_v,
               flashes, stage>>

PEOf(S) == SumFunction([h \in S |-> h.pe])

(* Veto: the first range to end at or after t decides.                     *)
Veto(t) ==
  \E e \in DOMAIN HitVetoRange :
    t <= e /\ HitVetoRange[e] <= t /\ \A d \in DOMAIN HitVetoRange : d < e => d < t

UsableHits(i, H) == {h \in H : h.channel \in Channels[i] /\ ~Veto(h.time)}

FirstTime(H) == CHOOSE t \in {h.time : h \in H} : \A h \in H : t <= h.time
LastTime(H)  == CHOOSE t \in {h.time : h \in H} : \A h \in H : h.time <= t
MinTime(H)  == FirstTime(H) - Margin * Resolution
NBins(H)    == IF H = {} THEN 1
               ELSE (LastTime(H) + Margin * Resolution - MinTime(H)) \div Resolution + 1
IndexOf(H, h) == (h.time - MinTime(H)) \div Resolution

EmptyBin == [mult |-> 0, pespec |-> [c \in UNION {Channels[i] : i \in Instances} |-> 0],
             hitidx |-> {}]
Size(n) == IF Cardinality(DOMAIN bins) < n THEN n ELSE Cardinality(DOMAIN bins)

(* The vectors only grow, and are cleared to their end.  The mutant clears *)
(* as many bins as the call fills.                                         *)
ClearUsed(n) == [k \in 0 .. Size(n) - 1 |->
                   IF k < n \/ k \notin DOMAIN bins THEN EmptyBin ELSE bins[k]]
Clear(n)     == [k \in 0 .. Size(n) - 1 |-> EmptyBin]

AddHits(bin, S) ==
  [mult   |-> bin.mult + Cardinality(S),
   pespec |-> [c \in DOMAIN bin.pespec |-> bin.pespec[c] + PEOf({h \in S : h.channel = c})],
   hitidx |-> bin.hitidx \cup S]

IsCandidate(idx) == MinPECoinc <= pesum[idx] /\ MinMultCoinc <= bins[idx].mult

(* The head of RecoFlash: the hits are put in their bins, and the bins in  *)
(* coincidence are collected.                                              *)
FillBins ==
  /\ stage = "idle" /\ calls < MaxCalls(fConfig)
  /\ \E i \in Instances, H \in Events(fConfig) :
       LET In(k) == {h \in UsableHits(i, H) : IndexOf(H, h) = k}
       IN /\ fInstance' = i /\ hits' = H
          /\ pesum' = [k \in 0 .. NBins(H) - 1 |-> PEOf(In(k))]
          /\ bins' = LET cleared == Clear(NBins(H))
                     IN [k \in DOMAIN cleared |-> AddHits(cleared[k], In(k))]
  /\ candidates' = {k \in DOMAIN pesum' : IsCandidate(k)'}
  /\ flash_period_v' = <<>> /\ flashes' = {}
  /\ stage' = "claim" /\ calls' = calls + 1
  /\ UNCHANGED fConfig

(* pesum_idx_map is in the order of 1/pe, equal ones as they were put in.  *)
(* The mutant sorts by pe.                                                 *)
DimmestFirst(a, b) == pesum[a] < pesum[b] \/ (pesum[a] = pesum[b] /\ a <= b)
ComesFirst(a, b)   == pesum[a] > pesum[b] \/ (pesum[a] = pesum[b] /\ a <= b)

(* The start of a candidate's window.  The mutant does not stop at bin 0.  *)
StartUnclamped(idx) == idx - precount
StartOf(idx) == IF idx < precount THEN 0 ELSE idx - precount

InVeto(start, used) == used.first <= start /\ start < used.first + veto_ctr
RunsInto(start, used) == start <= used.first /\ used.first < start + veto_ctr

(* What a candidate before a claimed flash needs to be shortened.          *)
LeavesRoom(start, pe, used) ==
  /\ MinPECoincRepeated <= pe
  /\ start + min_time_before_ctr <= used.first
  /\ start + time_dif_ctr < used.first

Skips(start, pe, used) ==
  InVeto(start, used) \/ (RunsInto(start, used) /\ ~LeavesRoom(start, pe, used))

(* The flashes ahead, of which the last claimed decides the window.  The   *)
(* mutant takes the first claimed.                                         *)
Ahead(start) == {j \in DOMAIN flash_period_v : RunsInto(start, flash_period_v[j])}
FirstClaimed(start) == {j \in Ahead(start) : \A k \in Ahead(start) : j <= k}
LastClaimed(start)  == {j \in Ahead(start) : \A k \in Ahead(start) : k <= j}

Windows(start) ==
  IF Ahead(start) = {} THEN {integral_ctr}
  ELSE {flash_period_v[j].first - start - time_dif_ctr : j \in LastClaimed(start)}

PEInWindow(start, n) == SumFunctionOnSet(pesum, {k \in DOMAIN pesum : start <= k /\ k < start + n})

(* One turn of the loop over the candidates.                               *)
LookAt(idx) ==
  LET start  == StartOf(idx)
      skip   == \E j \in DOMAIN flash_period_v : Skips(start, pesum[idx], flash_period_v[j])
      Bright == {n \in Windows(start) : PEThreshold <= PEInWindow(start, n)}
  IN /\ candidates' = candidates \ {idx}
     /\ \/ /\ skip \/ Bright = {}
           /\ UNCHANGED flash_period_v
        \/ /\ ~skip
           /\ \E n \in Bright :
                flash_period_v' = Append(flash_period_v, [first |-> start, second |-> n, peak |-> idx])
     /\ UNCHANGED <<fConfig, fInstance, calls, hits, bins, pesum, flashes, stage>>

Claim == stage = "claim"
         /\ \E idx \in candidates : (\A k \in candidates : ComesFirst(idx, k)) /\ LookAt(idx)

BinsIn(p) == {k \in DOMAIN bins : p.first <= k /\ k < p.first + p.second}

FlashOf(p) ==
  [period     |-> p,
   channel_pe |-> [c \in Channels[fInstance] |->
                     SumFunctionOnSet([k \in BinsIn(p) |-> bins[k].pespec[c]], BinsIn(p))],
   asshit_idx |-> UNION {bins[k].hitidx : k \in BinsIn(p)}]

(* The tail of RecoFlash: the flash of every window, with its hits.        *)
Construct ==
  /\ stage = "claim" /\ candidates = {}
  /\ flashes' = {FlashOf(flash_period_v[j]) : j \in DOMAIN flash_period_v}
  /\ stage' = "idle"
  /\ UNCHANGED <<fConfig, fInstance, calls, hits, bins, pesum, candidates, flash_period_v>>

Init ==
  /\ fConfig \in Configs /\ fInstance \in Instances
  /\ hits = {} /\ bins = <<>> /\ pesum = <<>> /\ candidates = {}
  /\ flash_period_v = <<>> /\ flashes = {} /\ calls = 0 /\ stage = "idle"

Next == FillBins \/ Claim \/ Construct
Spec == Init /\ [][Next]_flashVars

-----------------------------------------------------------------------------
(* A window starts at a bin that exists, at or before its peak, and is not *)
(* empty nor longer than the integration time.                             *)
FlashTypeOK ==
  /\ stage \in {"idle", "claim"}
  /\ candidates \subseteq DOMAIN pesum /\ DOMAIN pesum \subseteq DOMAIN bins
  /\ \A j \in DOMAIN flash_period_v :
       LET p == flash_period_v[j]
       IN p.peak \in DOMAIN pesum /\ p.first \in 0 .. p.peak /\ p.second \in 1 .. integral_ctr

EndOf(p) == p.first + p.second

(* No bin, and so no hit, counts for two flashes, though a window is cut   *)
(* for one flash ahead alone, the last claimed of those it runs into.      *)
WindowsDisjoint ==
  \A i, j \in DOMAIN flash_period_v : i # j =>
    \/ EndOf(flash_period_v[i]) <= flash_period_v[j].first
    \/ EndOf(flash_period_v[j]) <= flash_period_v[i].first

(* A flash integrates for the full time unless a flash claimed before it,  *)
(* no dimmer at its peak, follows: then it stops short of that one by the  *)
(* time difference, has a peak that may repeat and keeps it in its window. *)
ShortenedBeforeBrighter ==
  \A j \in DOMAIN flash_period_v :
    LET p == flash_period_v[j]
    IN p.second = integral_ctr \/ \E i \in 1 .. j - 1 :
         LET q == flash_period_v[i]
         IN /\ EndOf(p) + time_dif_ctr = q.first
            /\ MinPECoincRepeated <= pesum[p.peak] /\ pesum[p.peak] <= pesum[q.peak]
            /\ p.peak < EndOf(p)

(* Both: the window of a flash is what its peak and the flashes claimed    *)
(* before it leave of the integration time.                                *)
WindowsAsClaimed == FlashTypeOK /\ ShortenedBeforeBrighter

(* A flash has the hits of this call in its window, on this instance's     *)
(* channels: none of another event or TPC, though the bins are shared.     *)
(* Its PE is that of those hits, and reaches the threshold.                *)
FlashOfItsHits ==
  \A f \in flashes :
    /\ f.asshit_idx = {h \in UsableHits(fInstance, hits) :
                         f.period.first <= IndexOf(hits, h) /\ IndexOf(hits, h) < EndOf(f.period)}
    /\ \A c \in DOMAIN f.channel_pe :
         f.channel_pe[c] = PEOf({h \in f.asshit_idx : h.channel = c})
    /\ PEThreshold <= PEOf(f.asshit_idx)

(* A coincidence that would make a flash by itself either does, or gives   *)
(* way to a flash no dimmer at its peak, less than the veto time away.     *)
CandidatesAccounted ==
  stage = "claim" /\ candidates = {} =>
    \A idx \in {k \in DOMAIN pesum : IsCandidate(k)} :
      \/ PEInWindow(StartOf(idx), integral_ctr) < PEThreshold
      \/ \E j \in DOMAIN flash_period_v :
           LET p == flash_period_v[j]
           IN \/ p.peak = idx
              \/ /\ pesum[idx] <= pesum[p.peak]
                 /\ InVeto(StartOf(idx), p) \/ RunsInto(StartOf(idx), p)
=============================================================================
