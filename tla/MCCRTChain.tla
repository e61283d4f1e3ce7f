----------------------------- MODULE MCCRTChain -----------------------------
(* An instance of the CRT for TLC.  The bottom tagger (1) has a module in  *)
(* each orientation, the south one (2) two: strip 3 crosses 5, strip 4     *)
(* crosses 6, and strip 5 comes within 10 cm of 4 too.  The top taggers (3 *)
(* and 4) have a pair of strips each.                                      *)
EXTENDS CRTChain

MCModuleOf == [s \in 1 .. 10 |-> CASE s = 1 -> 1 [] s = 2 -> 2 [] s \in {3, 4} -> 3
                                   [] s \in 5 .. 10 -> s - 1]
MCTaggerOf    == [f \in 1 .. 9 |-> CASE f \in {1, 2} -> 1 [] f \in 3 .. 5 -> 2
                                     [] f \in {6, 7} -> 3 [] f \in {8, 9} -> 4]
MCWall        == [t \in 1 .. 4 |-> <<"bottom", "south", "topLow", "topHigh">>[t]]
MCOrientation == [f \in 1 .. 9 |-> IF f \in {1, 3, 6, 8} THEN 0 ELSE 1]
MCCrossing == {{1, 2}, {3, 5}, {4, 6}, {7, 8}, {9, 10}}
MCNear     == MCCrossing \cup {{4, 5}}
MCWaveform == [d \in 0 .. 1 |-> IF d = 0 THEN 100 ELSE 40]
MCDelays0  == [f \in 1 .. 9 |-> IF f = 2 THEN 1 ELSE 0]
MCDelays1  == [f \in 1 .. 9 |-> 0]
MCCorrection == [s \in 1 .. 10 |-> IF s \in {3, 7, 10} THEN 1 ELSE 0]

Sim == [mc |-> TRUE, AllowFlag1 |-> FALSE, CorrectForDifferentSecond |-> FALSE,
        ReferenceTs0 |-> FALSE, ETrigWindow |-> <<>>, Ts0Window |-> <<>>,
        Ts1Window |-> <<>>, UseTs0 |-> FALSE, TimeOffset |-> -1, VetoWindow |-> <<0, 1>>,
        hit |-> {1, 2}, times |-> {0, 1, 2, 3, 4, 7, 8, 9, 12}, timing |-> "none"]
South == [Sim EXCEPT !.hit = {3, 5}]
Whole == [Sim EXCEPT !.hit = 1 .. 6, !.times = {0, 1, 2}]
Data  == [Sim EXCEPT !.mc = FALSE, !.AllowFlag1 = TRUE, !.CorrectForDifferentSecond = TRUE,
                     !.ReferenceTs0 = TRUE, !.ETrigWindow = <<-4, 4>>, !.UseTs0 = TRUE,
                     !.TimeOffset = 0, !.times = 12 .. 20, !.timing = "own"]
Open  == [Data EXCEPT !.ETrigWindow = <<>>, !.Ts0Window = <<-2, 40>>, !.Ts1Window = <<1, 15>>]
Tops  == [Data EXCEPT !.ETrigWindow = <<>>, !.hit = 7 .. 10, !.times = 15 .. 18, !.timing = "few"]
Frames == [Data EXCEPT !.hit = {}, !.timing = "all"]
Lone  == [Tops EXCEPT !.hit = {1}]
Muons == [Tops EXCEPT !.hit = {1, 2, 7, 8, 9, 10}]
MCConfigs == {Sim, South, Whole, Data, Open, Tops, Frames, Lone, Muons}

(* Deposits: two prompt SiPMs, the second later or weak; one before time 0.*)
Bare(c) == {[strip |-> s, ts0 |-> t, ts1 |-> t, q0 |-> 100, q1 |-> 100] :
              s \in c.hit, t \in c.times}
MCDeposits(c) ==
  UNION {{d, [d EXCEPT !.q1 = 50], [d EXCEPT !.ts0 = d.ts1 + 1, !.q1 = 5000]} : d \in Bare(c)}
    \cup {[strip |-> 1, ts0 |-> -1, ts1 |-> 0, q0 |-> 100, q1 |-> 100]}

(* Readouts: real ones, a clock reset, and one many seconds away.  In the  *)
(* tops each board has one or none.                                        *)
At(mac, flags, t) ==
  [mac5 |-> mac, flags |-> flags, unixs |-> t \div Second, ts |-> t % Second,
   adc |-> [i \in SiPMsOf(mac) |-> 200], ides |-> <<>>]
Readouts(c) == {At(ModuleOf[s], 3, t) : s \in c.hit, t \in c.times}
                 \cup {At(1, 7, 16), At(1, 1, 14), At(2, 3, 60)}
OfTops(c) ==
  LET Of(s) == {<<>>} \cup {<<At(ModuleOf[s], 3, t)>> : t \in c.times}
  IN {e[1] \o e[2] \o e[3] \o e[4] : e \in Of(7) \X Of(8) \X Of(9) \X Of(10)}
(* Up to six readouts of one bottom board, no closer than two ticks; two   *)
(* of the bottom's boards and three points in the tops.                    *)
OfBottom ==
  {LET t[i \in 1 .. 6] == IF i = 1 THEN 1 ELSE t[i - 1] + g[i - 1]
   IN [i \in 1 .. 6 |-> At(1, 3, 16 + t[i])] : g \in [1 .. 5 -> 2 .. 5]}
OfMuons ==
  LET Of(macs) == {<<>>} \cup {[i \in DOMAIN macs |-> At(macs[i], 3, t)] : t \in {17, 19, 21, 23}}
  IN {e[1] \o e[2] \o e[3] \o e[4] \o e[5] :
        e \in Of(<<1>>) \X Of(<<2>>) \X Of(<<6, 7>>) \X Of(<<8, 9>>) \X Of(<<6, 7>>)}
MCInLine(p, q, r)  == 2 \notin p \cup q
MCFlightTime(ps)   == IF ps \cap {{1}, {2}} = {} THEN 1 ELSE 3
MCEvents(c) ==
  CASE c.hit = {}      -> {<<>>}
    [] c.hit = {1}     -> OfBottom
    [] c.hit = {1, 2, 7, 8, 9, 10} -> OfMuons
    [] c.hit = 7 .. 10 -> OfTops(c)
    [] OTHER           -> UNION {[1 .. n -> Readouts(c)] : n \in 0 .. 2}

(* What the timing system recorded: of the event itself, ...               *)
Event(stream, code, gate, etrig) ==
  [header |-> etrig + RawTSCorrection,
   own |-> [stream |-> stream, code |-> code, gate |-> gate, etrig |-> etrig],
   tdc |-> <<[ch |-> 4, time |-> etrig + ShiftTdcEtrig2PtbEtrig],
             [ch |-> 2, time |-> gate + ShiftTdcRwm2PtbGate]>>,
   ptb |-> <<[bits |-> {code}, time |-> etrig \div PtbTick]>>]
Own == {Event("beam", 1, gate, etrig) : gate \in 15 .. 17, etrig \in 15 .. 17}
         \cup {Event("xmuon", 5, 0, etrig) : etrig \in 15 .. 17}
Unshifted == {[e EXCEPT !.tdc = <<@[1]>>] : e \in {Event("beam", 1, 16, e) : e \in {14, 16}}}

(* ... and of neighbours, with more or less of it lost, or the words of    *)
(* two things in one.                                                      *)
Stamps(ch, ts) == [i \in DOMAIN ts |-> [ch |-> ch, time |-> ts[i]]]
Words(code, ts) == [i \in DOMAIN ts |-> [bits |-> {code}, time |-> ts[i] \div PtbTick]]
Some(own) == {<<>>, <<own>>, <<own - 12>>, <<own + 12>>, <<own, own + 12>>, <<own - 12, own>>}
Recorded(stream, code) ==
  LET e == Event(stream, code, 36, 40)
      gateHlt == IF stream = "beam" THEN BeamGateHlt ELSE OffbeamGateHlt
      etrigs == {<<[bits |-> {code}, time |-> 20]>>, <<[bits |-> {code, 30}, time |-> 20], [bits |-> {}, time |-> 0]>>,
                 <<[bits |-> {code}, time |-> 20], [bits |-> {3}, time |-> 26]>>, <<[bits |-> {3}, time |-> 26]>>}
  IN {[e EXCEPT !.tdc = Stamps(4, <<etrig>>) \o Stamps(2, rwm), !.ptb = w \o Words(gateHlt, gates)] :
        etrig \in {41, 53}, rwm \in {<<>>, <<38>>, <<38, 50>>, <<26>>}, w \in etrigs, gates \in Some(36)}
     \cup {[e EXCEPT !.tdc = Stamps(4, etrigs4) \o Stamps(2, rwm) \o Stamps(0, <<30, 43>>),
                     !.header = @ + off, !.ptb = w \o Words(gateHlt, <<36>>)] :
        etrigs4 \in {<<>>, <<41>>, <<29, 41, 53>>}, rwm \in Some(38), off \in {-2, 3},
        w \in {<<[bits |-> {code}, time |-> 20]>>, <<>>}}
     \cup {[e EXCEPT !.header = Unset], [e EXCEPT !.ptb = <<>>]}
MCTimings(c) ==
  CASE c.timing = "own" -> Own \cup Unshifted
    [] c.timing = "few" -> {Event("beam", 1, 16, 17), Event("beam", 1, 15, 15)} \cup Unshifted
    [] c.timing = "all" -> Recorded("beam", 1) \cup Recorded("offbeam", 3) \cup Recorded("xmuon", 5)
                             \cup Recorded("unknown", 9)

(* They are records of events with neighbours apart.                       *)
ASSUME RecordsApart == NeighboursApart
(* The hits are referenced as the jobs for data and simulation do it.      *)
ASSUME ReferencedHits == HitsReferenced
(* The simulation is as in the jobs, and the charges no larger.            *)
ASSUME SimulationPlain == PlainSimulation
=============================================================================
