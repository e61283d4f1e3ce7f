------------------------------ MODULE ForkJoin ------------------------------
(***************************************************************************)
(* What produce() and the destructor of opDetDigitizerSBND expect of       *)
(* StartopDetDigitizerWorkers and WaitopDetDigitizerWorkers: the           *)
(* framework's thread forks NThreads jobs, does nothing until all of them  *)
(* are done, and owns the shared vectors alone in between; once it is      *)
(* down no job runs.  Which thread does which job is not part of it.       *)
(***************************************************************************)
EXTENDS Naturals

CONSTANT NThreads

VARIABLES stage,    \* "alone", "working" or "down"
          pending   \* jobs of the round that are not done

fjVars == <<stage, pending>>

FJInit == stage = "alone" /\ pending = 0

Fork == stage = "alone" /\ stage' = "working" /\ pending' = NThreads

JobDone == /\ stage = "working" /\ pending > 0
           /\ pending' = pending - 1 /\ stage' = stage

Rejoin == /\ stage = "working" /\ pending = 0
          /\ stage' = "alone" /\ pending' = 0

ShutDown == stage = "alone" /\ stage' = "down" /\ UNCHANGED pending

FJNext == Fork \/ JobDone \/ Rejoin \/ ShutDown

FJSpec == FJInit /\ [][FJNext]_fjVars
=============================================================================
