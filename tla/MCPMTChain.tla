----------------------------- MODULE MCPMTChain -----------------------------
(* An instance for TLC: two boards of PMTs and the timing board, waveforms *)
(* of three samples, seconds of 40 ns.                                     *)
EXTENDS PMTChain

(* One or two triggers, with up to two extensions of one or two samples,   *)
(* around the end of a second; the second trigger follows the first at     *)
(* once or after a pause.                                                  *)
Lens == {<<>>, <<1>>, <<2>>, <<1, 2>>, <<2, 1>>}
SumTo(lens, k) == FoldLeft(LAMBDA x, y : x + y, 0, SubSeq(lens, 1, k))
Trigger(end, lens) ==
  [k \in 1 .. Len(lens) + 1 |->
     [end |-> end + 2 * SumTo(lens, k - 1), len |-> IF k = 1 THEN NominalLength ELSE lens[k - 1]]]
EndOf(trigger) == Last(trigger).end

Singles == {<<Trigger(e, lens)>> : e \in 28 .. 46, lens \in Lens}
Doubles == UNION {{<<t[1], Trigger(EndOf(t[1]) + 2 * NominalLength + gap, lens)>> :
                      gap \in {0, 3}, lens \in {<<>>, <<1>>}} :
                    t \in {t \in Singles : t[1][1].end % 3 = 0}}

OnBoard(triggers, b) ==
  LET all == FlattenSeq(triggers)
  IN [k \in DOMAIN all |-> [board |-> b, end |-> all[k].end, len |-> all[k].len, ftrig |-> TRUE]]
Complete(triggers) == OnBoard(triggers, 0) \o OnBoard(triggers, 1) \o OnBoard(triggers, 2)

(* Light: in one pair, or in two channels of different boards.             *)
LightOf(t) == {{<<0, t>>}, {<<0, t>>, <<1, t + 2>>, <<3, t + 2>>}, {<<2, t>>, <<4, t>>}}

At(triggers, frags, ref, frame, complete, light) ==
  [frags |-> frags, triggers |-> triggers, ref |-> ref, frame |-> frame,
   complete |-> complete, light |-> light]

MCReadouts ==
  UNION {{At(t, Complete(t), ref, "shifted", TRUE, light) :
             ref \in {20, 34, 39, 40, 41, 47}, light \in LightOf(t[1][1].end - 2)} : t \in Singles}
  \cup UNION {{At(t, Complete(t), 41, "shifted", TRUE, light) :
             light \in LightOf(t[2][1].end - 4)} : t \in Doubles}
  \cup {At(t, RemoveAt(Complete(t), k), 41, "shifted", FALSE, {<<0, t[2][1].end - 4>>}) :
             t \in Doubles, k \in {1, 2, 5}}
  \cup {At(t, Complete(t), 0, frame, TRUE, {}) :
             t \in {<<Trigger(42, <<1>>)>>}, frame \in {"none", "missing"}}

MCEvent0 == At(<<>>, <<>>, 0, "none", TRUE, {})
(* A board whose fragments do not have the channel of the flash trigger.   *)
Bare == LET t == <<Trigger(34, <<1>>)>>
            f == Complete(t)
        IN At(t, [k \in DOMAIN f |-> [f[k] EXCEPT !.ftrig = f[k].board # 1]], 41, "shifted", FALSE, {})

MCDecoderConfigs == {[ignore |-> {}, OutputTiming |-> TRUE], [ignore |-> {1}, OutputTiming |-> FALSE]}

(* Simulation: channels 0 and 1 are a pair, 2 has no partner.  Channel 0   *)
(* takes every course, the others are quiet, have a pulse, or are missing. *)
Flat  == [i \in 1 .. 9 |-> 1]
Pulse == [i \in 1 .. 9 |-> IF i \in {5, 6} THEN -1 ELSE 1]
MCSimulated ==
  {[ch \in 0 .. 2 |-> CASE ch = 0 -> w0 [] ch = 1 -> w1 [] ch = 2 -> w2] :
     w0 \in [1 .. 9 -> {-1, 1}], w1 \in {Flat, Pulse, <<>>}, w2 \in {Flat, Pulse, <<>>}}
  \cup {[ch \in 0 .. 2 |-> CASE ch = 0 -> w0 [] ch = 1 -> Flat [] ch = 2 -> Pulse] :
     w0 \in [1 .. 9 -> {-1, 0, 1}]}
  \cup {[ch \in 0 .. 2 |-> IF ch = 0 THEN <<>> ELSE Pulse]}
MCPMTChannels == <<0, 1, 2>>
MCAllReadouts == MCReadouts \cup {MCEvent0, Bare}
=============================================================================
