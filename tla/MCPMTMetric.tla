----------------------------- MODULE MCPMTMetric -----------------------------
(* An instance of the software trigger for TLC.  Waveforms are of 6        *)
(* samples, 4 of them after the trigger; a trigger that comes 1 to 5       *)
(* samples after another makes an extension of that length, whose own      *)
(* fraction is believed when it is 5.  A second has 80 samples.  With 6    *)
(* bits 2/3 is 43/64, so that the window starts at 21/64 of a waveform and *)
(* at bin 1 of 6 until it starts at 43/128, and a time from 128 ns on is   *)
(* rounded to 4 ns.                                                        *)
EXTENDS PMTMetric

Beam  == [stream |-> 1, TimingType |-> 0, AllowNTB |-> TRUE, IncludeExtensions |-> FALSE]
Light == [Beam EXCEPT !.stream = 2]
Off   == [Beam EXCEPT !.stream = 4, !.AllowNTB = FALSE]
Ntb   == [Beam EXCEPT !.TimingType = 1]
Extended == [Beam EXCEPT !.IncludeExtensions = TRUE]
MCFragIDs == <<1, 2, 3>>
MCPTBDelay == -1
MCConfigs == {Beam, Light, Off, Ntb, Extended}

(* Triggers are given by their samples.                                    *)
Recorded(trigs, shift) ==
  [i \in DOMAIN trigs |->
     LET gap == IF i = 1 THEN WvfmLength ELSE trigs[i] - trigs[i - 1]
         end == Sample * (trigs[i] + PostSamples)
     IN [stamp |-> IF shift THEN Sample * trigs[i] ELSE end, end |-> end,
         len |-> IF gap < WvfmLength THEN gap ELSE WvfmLength]]

Complete(frags) == [b \in 1 .. 3 |-> [board |-> b, frags |-> frags]]

(* The boards, or one of them; the second without its first fragment       *)
(* or its last; and a board that is not of PMTs.                           *)
Containers(frags) ==
  LET C(b, fs) == [board |-> b, frags |-> fs]
  IN {Complete(frags), <<C(2, frags)>>, <<C(1, frags)>>,
      <<C(9, frags), C(2, <<>>), C(1, frags)>>,
      <<C(1, frags), C(2, Tail(frags))>>, <<C(2, Tail(frags)), C(1, frags)>>,
      <<C(1, frags), C(2, Front(frags))>>, <<>>}

Triggers == {<<30>>, <<30, 32>>, <<30, 35>>, <<24, 30, 35>>, <<30, 35, 40>>, <<30, 31, 35>>,
             <<30, 40>>, <<61, 68>>, <<63, 71>>, <<79, 85>>, <<77, 82>>, <<2, 11>>}
Headers  == {NoHeader, 54, 65, 80, 162, 165}
At(trig) == Sample * trig
Etrigs(trigs) ==
  LET last == At(Last(trigs)) + SPECTDCDelay
      near == {1, 59, At(trigs[1]) + SPECTDCDelay, last}
      half == trigs[1] + Last(trigs) + SPECTDCDelay
  IN {<<>>} \cup {<<t>> : t \in near \cup {last - 1, half, half + 1}} \cup near \X near
       \cup {<<half, last, At(trigs[1])>>}
Words(trigs) ==
  LET W(hlts, t) == [hlts |-> hlts, time |-> t]
  IN {<<>>} \cup {<<W({3}, 5), W({h, 1}, t), W({26}, 70)>> :
                    h \in {26, 27}, t \in {At(trigs[1]) - 1, At(Last(trigs))}}
Flashes(trigs) ==
  {{}} \cup {{At(Last(trigs) + s)} : s \in -2 .. PostSamples - 1} \cup {{At(trigs[1]), At(Last(trigs) + 1)}}

(* Of what an event may hold, what the configuration looks at varies: the  *)
(* timing with what the boards recorded of two triggers, or the boards and *)
(* the light with a few references.                                        *)
Event(h, e, w, cs, l) == [header |-> h, etrigs |-> e, words |-> w, containers |-> cs, light |-> l]
Timed(c, trigs) ==
  {Event(h, e, w, Complete(Recorded(trigs, shift)), {At(trigs[1])}) :
     shift \in BOOLEAN,
     h \in IF c.stream = 1 THEN Headers ELSE {NoHeader, 25},
     e \in IF c.stream = 1 THEN Etrigs(trigs) ELSE {<<>>},
     w \in IF c.stream = 1 THEN {<<>>} ELSE Words(trigs)}
Seen(c, trigs) ==
  {Event(At(t) + 2, <<At(t) + SPECTDCDelay>>, <<[hlts |-> {26, 27}, time |-> At(t)]>>, cs, l) :
     t \in ToSet(trigs), l \in Flashes(trigs),
     cs \in UNION {Containers(Recorded(trigs, shift)) : shift \in BOOLEAN}}
MCEvents(c) == UNION {Timed(c, trigs) \cup Seen(c, trigs) : trigs \in Triggers}
=============================================================================
