---------------------------- MODULE MCSemaphore -----------------------------
(* An instance of the semaphore for TLC.                                   *)
EXTENDS Semaphore

=============================================================================
