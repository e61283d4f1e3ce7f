-------------------------- MODULE ChannelPartition --------------------------
(***************************************************************************)
(* How opdet::opDetDigitizerWorker divides the optical channels            *)
(* 0 .. n-1 between T worker threads: worker k works on the block of       *)
(* NChannelsToProcess channels that begins at StartChannelToProcess.       *)
(* All quantities are unsigned in the code; with k < T the numerator of    *)
(* the division never goes below zero, so naturals model it exactly.       *)
(***************************************************************************)
EXTENDS Naturals

NChannelsToProcess(n, T, k) == (n + T - k - 1) \div T

StartChannelToProcess(n, T, k) ==
  LET leftover == IF k < n % T THEN k ELSE n % T
  IN  (n \div T) * k + leftover

(* The filter "only work on the prescribed channels" of both jobs. *)
Prescribed(n, T, k) ==
  {ch \in 0 .. n - 1 :
     /\ ch >= StartChannelToProcess(n, T, k)
     /\ ch < StartChannelToProcess(n, T, k) + NChannelsToProcess(n, T, k)}
=============================================================================
