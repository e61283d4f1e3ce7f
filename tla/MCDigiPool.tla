----------------------------- MODULE MCDigiPool -----------------------------
(* Instances of the digitizer's worker pool for TLC.                       *)
EXTENDS DigiPool
Config(apply, self, listed) ==
  [ApplyTriggers |-> apply, SelfTriggerPerChannel |-> self, PairsListed |-> listed]

(* Every way an event can go: two rounds with a global trigger or a        *)
(* channel's own, an exception between the rounds, one round.              *)
MCConfigs == {Config(TRUE, FALSE, TRUE), Config(TRUE, TRUE, TRUE),
              Config(TRUE, TRUE, FALSE), Config(FALSE, TRUE, TRUE)}
MCListed == {c \in MCConfigs : c.PairsListed}
=============================================================================
