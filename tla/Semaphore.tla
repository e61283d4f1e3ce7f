----------------------------- MODULE Semaphore ------------------------------
(***************************************************************************)
(* opdet::opDetDigitizerWorker::Semaphore: a count behind a mutex and a    *)
(* condition variable.  increment(n) adds n and notifies all waiters,      *)
(* decrement(n) waits in a loop until the count is at least n.  The mutex  *)
(* is held from the construction of the unique_lock to the return, except  *)
(* inside cv.wait, which releases it and starts to wait in one step, may   *)
(* return at any time (a spurious wakeup), and then locks it again.        *)
(***************************************************************************)
EXTENDS Naturals

CONSTANTS Threads,   \* the threads that share the semaphore
          Amounts,   \* the amounts of their calls
          MaxCount   \* bound on the count, in the guard of a call

Nobody == "nobody"
None == [op |-> "none", n |-> 0]

ASSUME SemaphoreAssumption ==
  /\ Amounts \subseteq Nat \ {0}
  /\ MaxCount \in Nat
  /\ Nobody \notin Threads

VARIABLES count, mtx,   \* mtx: the thread that holds the mutex, or Nobody
          waiting,      \* the threads inside cv.wait that nobody has woken
          pc,           \* where each thread is
          call          \* its call of increment or decrement, or None

semaphoreVars == <<count, mtx, waiting, pc, call>>

SInit == /\ count = 0 /\ mtx = Nobody /\ waiting = {}
         /\ pc = [t \in Threads |-> "out"]
         /\ call = [t \in Threads |-> None]

Enter(t) ==
  /\ pc[t] = "out"
  /\ \E op \in {"increment", "decrement"}, n \in Amounts :
        /\ op = "increment" => count + n <= MaxCount
        /\ call' = [call EXCEPT ![t] = [op |-> op, n |-> n]]
  /\ pc' = [pc EXCEPT ![t] = "lock"]
  /\ UNCHANGED <<count, mtx, waiting>>

(* The constructor of unique_lock, and the relock at the end of cv.wait.   *)
Lock(t) ==
  /\ pc[t] = "lock" /\ mtx = Nobody
  /\ mtx' = t
  /\ pc' = [pc EXCEPT ![t] = IF call[t].op = "increment" THEN "add" ELSE "test"]
  /\ UNCHANGED <<count, waiting, call>>

Add(t) ==
  /\ pc[t] = "add"
  /\ count' = count + call[t].n
  /\ pc' = [pc EXCEPT ![t] = "notify"]
  /\ call' = [call EXCEPT ![t] = None]
  /\ UNCHANGED <<mtx, waiting>>

NotifyOne(t) ==    \* a mutant of NotifyAll
  /\ pc[t] = "notify"
  /\ \E woken \in SUBSET waiting :
        /\ waiting # {} => \E s \in waiting : woken = {s}
        /\ waiting' = waiting \ woken
        /\ pc' = [s \in Threads |-> IF s \in woken THEN "lock"
                                    ELSE IF s = t THEN "unlock" ELSE pc[s]]
  /\ UNCHANGED <<count, mtx, call>>

NotifyAll(t) ==
  /\ pc[t] = "notify"
  /\ waiting' = {}
  /\ pc' = [s \in Threads |-> IF s \in waiting THEN "lock"
                              ELSE IF s = t THEN "unlock" ELSE pc[s]]
  /\ UNCHANGED <<count, mtx, call>>

(* while (count < n) cv.wait(lock)                                         *)
Wait(t) ==
  /\ pc[t] = "test" /\ count < call[t].n
  /\ mtx' = Nobody
  /\ waiting' = waiting \cup {t}
  /\ pc' = [pc EXCEPT ![t] = "asleep"]
  /\ UNCHANGED <<count, call>>

SubtractUntested(t) ==    \* a mutant of Subtract
  /\ pc[t] = "test" /\ count >= 1
  /\ count' = IF count >= call[t].n THEN count - call[t].n ELSE 0
  /\ pc' = [pc EXCEPT ![t] = "unlock"]
  /\ call' = [call EXCEPT ![t] = None]
  /\ UNCHANGED <<mtx, waiting>>

Subtract(t) ==
  /\ pc[t] = "test" /\ count >= call[t].n
  /\ count' = count - call[t].n
  /\ pc' = [pc EXCEPT ![t] = "unlock"]
  /\ call' = [call EXCEPT ![t] = None]
  /\ UNCHANGED <<mtx, waiting>>

SpuriousWakeup(t) ==
  /\ t \in waiting
  /\ waiting' = waiting \ {t}
  /\ pc' = [pc EXCEPT ![t] = "lock"]
  /\ UNCHANGED <<count, mtx, call>>

UnlockAsleep(t) ==    \* a mutant of Unlock: a waiting thread gives the mutex up
  /\ pc[t] \in {"unlock", "lock"}
  /\ mtx' = Nobody
  /\ pc' = [pc EXCEPT ![t] = IF @ = "lock" THEN @ ELSE "out"]
  /\ UNCHANGED <<count, waiting, call>>

Unlock(t) ==
  /\ pc[t] = "unlock"
  /\ mtx' = Nobody
  /\ pc' = [pc EXCEPT ![t] = "out"]
  /\ UNCHANGED <<count, waiting, call>>

(* The steps a thread takes by itself once it has called.                  *)
Proceed(t) == \/ Lock(t) \/ Add(t) \/ NotifyAll(t) \/ Wait(t) \/ Subtract(t)
              \/ Unlock(t)

SNext == \E t \in Threads : Enter(t) \/ SpuriousWakeup(t) \/ Proceed(t)

SSpec == SInit /\ [][SNext]_semaphoreVars

(* A thread that holds the mutex runs on; one that asks for it again and   *)
(* again while it is free gets it in the end.                              *)
SFairSpec == SSpec /\ \A t \in Threads : SF_semaphoreVars(Proceed(t))

-----------------------------------------------------------------------------
(* Properties.                                                             *)

Inside == {"add", "notify", "test", "unlock"}

(* Types, and the two facts that make the rest of the state redundant: the *)
(* holder of the mutex is the thread inside, the sleepers are the waiters. *)
SemTypeOK ==
  /\ count \in Nat
  /\ mtx \in Threads \cup {Nobody}
  /\ waiting = {t \in Threads : pc[t] = "asleep"}
  /\ pc \in [Threads -> Inside \cup {"out", "lock", "asleep"}]
  /\ call \in [Threads -> {None} \cup [op : {"increment", "decrement"}, n : Amounts]]
  /\ \A t \in Threads : mtx = t <=> pc[t] \in Inside

(* No wakeup is lost: a thread sleeps in cv.wait only while the count is   *)
(* too small for it, or while the thread that raised the count still has   *)
(* its notify_all to do.                                                   *)
NoLostWakeup ==
  \A t \in waiting : \/ count < call[t].n
                     \/ \E s \in Threads : pc[s] = "notify"

(* The semaphore implements the atomic counting semaphore.                 *)
CS == INSTANCE CountingSemaphore WITH asked <- call
AtomicSemaphore == CS!CSSpec
FairAtomicSemaphore == CS!CSFair
=============================================================================
