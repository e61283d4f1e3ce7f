--------------------------- MODULE SemaphoreProof ---------------------------
(***************************************************************************)
(* The semaphore of the digitizer's workers, for any number of threads:    *)
(* its mutex excludes, no wakeup is lost, and it implements the atomic     *)
(* counting semaphore that DigiPool.tla takes for granted.                 *)
(***************************************************************************)
EXTENDS Semaphore, TLAPS

(* The amount of a call, or of none, is a natural number.                  *)
LEMMA AmountsAreNaturals ==
  ASSUME SemTypeOK, NEW t \in Threads
  PROVE  call[t].n \in Nat
<1>1. CASE call[t] = None
  BY <1>1 DEF None
<1>2. CASE call[t] # None
  <2>1. call[t] \in [op : {"increment", "decrement"}, n : Amounts]
    BY <1>2 DEF SemTypeOK
  <2>2. call[t].n \in Amounts
    BY <2>1
  <2> QED BY <2>2, SemaphoreAssumption DEF SemaphoreAssumption
<1> QED BY <1>1, <1>2

(* Every step keeps the types and the mutual exclusion.                    *)
LEMMA SemTypesStep == SemTypeOK /\ [SNext]_semaphoreVars => SemTypeOK'
<1> SUFFICES ASSUME SemTypeOK, [SNext]_semaphoreVars PROVE SemTypeOK'
  OBVIOUS
<1> USE SemaphoreAssumption DEF SemaphoreAssumption, SemTypeOK, Inside
<1>1. ASSUME NEW t \in Threads, Enter(t) PROVE SemTypeOK'
  BY <1>1 DEF Enter
<1>2. ASSUME NEW t \in Threads, SpuriousWakeup(t) PROVE SemTypeOK'
  BY <1>2 DEF SpuriousWakeup
<1>3. ASSUME NEW t \in Threads, Lock(t) PROVE SemTypeOK'
  BY <1>3 DEF Lock
<1>4. ASSUME NEW t \in Threads, Add(t) PROVE SemTypeOK'
  <2>1. count' \in Nat
    BY <1>4, AmountsAreNaturals DEF Add
  <2>2. call' \in [Threads -> {None} \cup [op : {"increment", "decrement"}, n : Amounts]]
    BY <1>4 DEF Add
  <2>3. pc' \in [Threads -> Inside \cup {"out", "lock", "asleep"}]
        /\ waiting' = {s \in Threads : pc'[s] = "asleep"}
        /\ \A s \in Threads : mtx' = s <=> pc'[s] \in Inside
    BY <1>4 DEF Add
  <2> QED BY <1>4, <2>1, <2>2, <2>3 DEF Add
<1>5. ASSUME NEW t \in Threads, NotifyAll(t) PROVE SemTypeOK'
  BY <1>5 DEF NotifyAll
<1>6. ASSUME NEW t \in Threads, Wait(t) PROVE SemTypeOK'
  BY <1>6 DEF Wait
<1>7. ASSUME NEW t \in Threads, Subtract(t) PROVE SemTypeOK'
  <2>1. count' \in Nat
    BY <1>7, AmountsAreNaturals DEF Subtract
  <2>2. call' \in [Threads -> {None} \cup [op : {"increment", "decrement"}, n : Amounts]]
    BY <1>7 DEF Subtract
  <2>3. pc' \in [Threads -> Inside \cup {"out", "lock", "asleep"}]
        /\ waiting' = {s \in Threads : pc'[s] = "asleep"}
        /\ \A s \in Threads : mtx' = s <=> pc'[s] \in Inside
    BY <1>7 DEF Subtract
  <2> QED BY <1>7, <2>1, <2>2, <2>3 DEF Subtract
<1>8. ASSUME NEW t \in Threads, Unlock(t) PROVE SemTypeOK'
  BY <1>8 DEF Unlock
<1>9. CASE UNCHANGED semaphoreVars
  BY <1>9 DEF semaphoreVars
<1> QED
  BY <1>1, <1>2, <1>3, <1>4, <1>5, <1>6, <1>7, <1>8, <1>9 DEF SNext, Proceed

(* The types of the semaphore's state, and that the mutex is held by the   *)
(* one thread that is between its unique_lock and the end of the call.     *)
THEOREM SemTypeCorrect == SSpec => []SemTypeOK
<1>1. SInit => SemTypeOK
  BY SemaphoreAssumption DEF SemaphoreAssumption, SInit, SemTypeOK, Inside
<1> QED BY <1>1, SemTypesStep, PTL DEF SSpec

(* What the program points say of the pending calls: a thread that is      *)
(* about to add or to test the count has a call of that kind, and one      *)
(* inside cv.wait is in a decrement.                                       *)
CallsAtPoints ==
  \A t \in Threads :
    /\ pc[t] = "add" => call[t].op = "increment"
    /\ pc[t] \in {"test", "asleep"} => call[t].op = "decrement"
    /\ pc[t] = "lock" => call[t].op \in {"increment", "decrement"}
    /\ pc[t] \in {"out", "notify", "unlock"} => call[t] = None

SemInv == SemTypeOK /\ CallsAtPoints /\ NoLostWakeup

(* Every step keeps the invariant of the sleeping threads.                 *)
LEMMA SemInvStep == SemInv /\ [SNext]_semaphoreVars => SemInv'
<1> SUFFICES ASSUME SemInv, [SNext]_semaphoreVars PROVE SemInv'
  OBVIOUS
<1>1. SemTypeOK'
  BY SemTypesStep DEF SemInv
<1> USE DEF SemInv, SemTypeOK, CallsAtPoints, NoLostWakeup
<1>2. ASSUME NEW t \in Threads, Enter(t) PROVE CallsAtPoints' /\ NoLostWakeup'
  BY <1>2 DEF Enter
<1>3. ASSUME NEW t \in Threads, SpuriousWakeup(t)
      PROVE  CallsAtPoints' /\ NoLostWakeup'
  BY <1>3 DEF SpuriousWakeup
<1>4. ASSUME NEW t \in Threads, Lock(t) PROVE CallsAtPoints' /\ NoLostWakeup'
  BY <1>4 DEF Lock
<1>5. ASSUME NEW t \in Threads, Add(t) PROVE CallsAtPoints' /\ NoLostWakeup'
  <2>1. CallsAtPoints'
    BY <1>5 DEF Add
  <2>2. pc'[t] = "notify"
    BY <1>5 DEF Add
  <2> QED BY <2>1, <2>2
<1>6. ASSUME NEW t \in Threads, NotifyAll(t)
      PROVE  CallsAtPoints' /\ NoLostWakeup'
  BY <1>6 DEF NotifyAll
<1>7. ASSUME NEW t \in Threads, Wait(t) PROVE CallsAtPoints' /\ NoLostWakeup'
  BY <1>7 DEF Wait
<1>8. ASSUME NEW t \in Threads, Subtract(t)
      PROVE  CallsAtPoints' /\ NoLostWakeup'
  <2>1. CallsAtPoints'
    BY <1>8 DEF Subtract
  <2>2. mtx = t /\ \A s \in Threads : pc[s] # "notify"
    BY <1>8 DEF Subtract, Inside
  <2>3. \A s \in waiting : count < call[s].n
    BY <2>2
  <2>4. count \in Nat /\ count' = count - call[t].n /\ call[t].n \in Nat
    BY <1>8, AmountsAreNaturals DEF Subtract
  <2>5. t \notin waiting /\ waiting' = waiting
        /\ \A s \in waiting : call'[s] = call[s]
    BY <1>8 DEF Subtract
  <2>6. ASSUME NEW s \in waiting PROVE count' < call[s].n
    <3>1. call[s].n \in Nat /\ count < call[s].n
      BY <2>3, AmountsAreNaturals
    <3> QED BY <2>4, <3>1
  <2> QED BY <2>1, <2>5, <2>6
<1>9. ASSUME NEW t \in Threads, Unlock(t)
      PROVE  CallsAtPoints' /\ NoLostWakeup'
  BY <1>9 DEF Unlock
<1>10. CASE UNCHANGED semaphoreVars
  BY <1>10, <1>1 DEF semaphoreVars
<1> QED
  BY <1>1, <1>2, <1>3, <1>4, <1>5, <1>6, <1>7, <1>8, <1>9, <1>10
     DEF SNext, Proceed

(* The inductive invariant of the semaphore.                               *)
LEMMA SemInvHolds == SSpec => []SemInv
<1>1. SInit => SemInv
  BY SemaphoreAssumption DEF SemaphoreAssumption, SInit, SemInv, SemTypeOK,
     Inside, CallsAtPoints, NoLostWakeup
<1> QED BY <1>1, SemInvStep, PTL DEF SSpec

(* decrement's wait loop and increment's notify_all never lose a wakeup:   *)
(* a sleeping thread either has nothing to take or is about to be woken.   *)
THEOREM WakeupsAreNotLost == SSpec => []NoLostWakeup
<1>1. SemInv => NoLostWakeup
  BY DEF SemInv
<1> QED BY <1>1, SemInvHolds, PTL

(* increment and decrement take effect atomically between call and return, *)
(* and decrement only when the count suffices: the semaphore implements    *)
(* CountingSemaphore.                                                      *)
THEOREM ImplementsCountingSemaphore == SSpec => AtomicSemaphore
<1>1. SInit => CS!CSInit
  BY DEF SInit, CS!CSInit, CS!None, None
<1>2. SemInv /\ [SNext]_semaphoreVars => [CS!CSNext]_(CS!csVars)
  <2> SUFFICES ASSUME SemInv, [SNext]_semaphoreVars
               PROVE  [CS!CSNext]_(CS!csVars)
    OBVIOUS
  <2> USE DEF CS!csVars, CS!CSNext, CS!None, None
  <2>1. ASSUME NEW t \in Threads, Enter(t), call[t] = None
        PROVE  CS!Ask(t)
    BY <2>1 DEF Enter, CS!Ask
  <2>2. ASSUME NEW t \in Threads, Add(t) PROVE CS!Increment(t)
    BY <2>2 DEF Add, CS!Increment, SemInv, CallsAtPoints
  <2>3. ASSUME NEW t \in Threads, Subtract(t) PROVE CS!Decrement(t)
    BY <2>3 DEF Subtract, CS!Decrement, SemInv, CallsAtPoints
  <2>4. ASSUME NEW t \in Threads,
               \/ SpuriousWakeup(t) \/ Lock(t) \/ NotifyAll(t) \/ Wait(t)
               \/ Unlock(t)
        PROVE  UNCHANGED <<count, call>>
    BY <2>4 DEF SpuriousWakeup, Lock, NotifyAll, Wait, Unlock
  <2>5. ASSUME NEW t \in Threads, Enter(t) PROVE call[t] = None
    BY <2>5 DEF Enter, SemInv, CallsAtPoints, SemTypeOK
  <2>6. CASE UNCHANGED semaphoreVars
    BY <2>6 DEF semaphoreVars
  <2> QED BY <2>1, <2>2, <2>3, <2>4, <2>5, <2>6 DEF SNext, Proceed
<1> QED BY <1>1, <1>2, SemInvHolds, PTL DEF SSpec, AtomicSemaphore, CS!CSSpec
=============================================================================
