--------------------------- MODULE MCSimpleFlash ---------------------------
(* An instance of the flash finder for TLC: bursts of light over ten bins  *)
(* for one TPC, and short events of different lengths, in turns, for two   *)
(* TPCs.                                                                   *)
EXTENDS SimpleFlash, FiniteSetsExt

MCChannels == [i \in 1 .. 2 |-> IF i = 1 THEN {1, 2} ELSE {3}]
MCHitVetoRange == [e \in {40, 42} |-> IF e = 40 THEN 37 ELSE 41]

At(t, c, p) == [time |-> t, channel |-> c, pe |-> p]

(* Two hits of a bin: a flash, one that needs more light in its window,    *)
(* or a coincidence too dim to come before another.                        *)
Bursts(t) == {{At(t, 1, 2), At(t + 1, 2, b)} : b \in {1, 3, 4, 5}}

(* At most MaxBursts bursts, the first of them at time 0.                  *)
MaxBursts == 4
Add(E, t) == {e \cup b : e \in E, b \in Bursts(t)}
Later == {S \in SUBSET (1 .. 9) : Cardinality(S) < MaxBursts}
OneTPC == UNION {FoldSet(LAMBDA t, E : Add(E, 2 * t), Bursts(0), S) : S \in Later}

TwoTPCs == {h \in SUBSET {At(0, 1, 4), At(1, 2, 2), At(0, 3, 5), At(1, 3, 1), At(9, 1, 3),
                            At(38, 2, 9), At(45, 3, 5), At(45, 9, 1)} : Cardinality(h) <= 4}

MCEvents(c)   == IF c = "one TPC" THEN OneTPC ELSE TwoTPCs
MCMaxCalls(c) == IF c = "one TPC" THEN 1 ELSE 2
=============================================================================
