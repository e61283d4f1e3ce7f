--------------------------- MODULE DigiPoolProof ----------------------------
(***************************************************************************)
(* What DigiPool.tla claims of the worker pool, for any number of threads, *)
(* channels and events: the types, that no token is lost or left over,     *)
(* that produce is alone outside its two waits, that no job runs during    *)
(* teardown, that the pool implements ForkJoin, that an event only         *)
(* receives its own waveforms and, with one worker, that the rounds of     *)
(* jobs are in the order of the events. Last, that the blocks of channels  *)
(* that the workers are given partition the channels.                      *)
(***************************************************************************)
EXTENDS DigiPool, Integers, FiniteSetTheorems, TLAPS

(* The initial state has the types.                                        *)
LEMMA InitTypes == Init => TypeOK
<1> SUFFICES ASSUME Init PROVE TypeOK
  OBVIOUS
<1>1. NULL \in 0 .. MaxEvents /\ 0 \in 0 .. MaxEvents
  BY PoolAssumption DEF PoolAssumption, NULL
<1>2. fWaveforms \in [Channels -> 0 .. MaxEvents]
  BY <1>1 DEF Init
<1>3. fTriggered \in [Workers -> SUBSET (Channels \X (1 .. MaxEvents))]
  BY DEF Init
<1> QED BY <1>1, <1>2, <1>3 DEF Init, TypeOK

(* Every step keeps the types.                                             *)
LEMMA StepTypes == TypeOK /\ [Next]_vars => TypeOK'
<1> SUFFICES ASSUME TypeOK, [Next]_vars PROVE TypeOK'
  OBVIOUS
<1> USE PoolAssumption DEF PoolAssumption, mainVars, semVars, dataVars, algVars
<1>1. CASE BeginEvent
  BY <1>1 DEF BeginEvent, TypeOK, NULL
<1>2. CASE WaitDigitized
  BY <1>2 DEF WaitDigitized, Wait, TypeOK
<1>3. CASE PutFull
  <2>1. product' \subseteq Channels \X (1 .. MaxEvents)
    BY <1>3 DEF PutFull, TypeOK, Digitized, NULL, Channels
  <2> QED BY <1>3, <2>1 DEF PutFull, TypeOK, NULL
<1>4. CASE ThrowBetweenRounds
  BY <1>4 DEF ThrowBetweenRounds, TypeOK
<1>5. CASE EmptyMonPulse
  BY <1>5 DEF EmptyMonPulse, TypeOK
<1>6. CASE FindAndMerge
  <2>1. found' \subseteq Channels
    BY <1>6 DEF FindAndMerge, TypeOK, Digitized
  <2>2. keys' \subseteq Channels /\ times' \subseteq Channels
    BY <1>6, <2>1 DEF FindAndMerge, TypeOK
  <2> QED BY <1>6, <2>1, <2>2 DEF FindAndMerge, TypeOK
<1>7. CASE WaitApplied
  BY <1>7 DEF WaitApplied, Wait, TypeOK
<1>8. CASE CollectTriggered
  <2>1. product' \subseteq Channels \X (1 .. MaxEvents)
    BY <1>8 DEF CollectTriggered, TypeOK
  <2> QED BY <1>8, <2>1 DEF CollectTriggered, TypeOK, NULL
<1>9. CASE Destroy
  BY <1>9 DEF Destroy, TypeOK
<1>10. CASE Join
  BY <1>10 DEF Join, TypeOK
<1>11. ASSUME NEW w \in Workers, WorkerStep(w) PROVE TypeOK'
  <2> USE DEF At, Goto
  <2>1. CASE TakeToken(w)
    BY <2>1 DEF TakeToken, TypeOK
  <2>2. CASE ChooseJob(w)
    BY <2>2 DEF ChooseJob, TypeOK
  <2>3. CASE Digitize(w)
    <3>1. ApplyTriggers \in BOOLEAN
      BY DEF ApplyTriggers, TypeOK
    <3> QED BY <2>3, <3>1 DEF Digitize, TypeOK
  <2>4. CASE Apply(w)
    <3>1. {<<ch, fWaveforms[ch]>> : ch \in Own(w) \cap Digitized \cap times}
            \in SUBSET (Channels \X (1 .. MaxEvents))
      BY DEF TypeOK, Digitized, NULL
    <3> QED BY <2>4, <3>1 DEF Apply, TypeOK
  <2>5. CASE GiveToken(w)
    BY <2>5 DEF GiveToken, TypeOK
  <2> QED BY <1>11, <2>1, <2>2, <2>3, <2>4, <2>5 DEF WorkerStep
<1>12. CASE UNCHANGED vars
  BY <1>12 DEF vars, TypeOK
<1> QED
  BY <1>1, <1>2, <1>3, <1>4, <1>5, <1>6, <1>7, <1>8, <1>9, <1>10, <1>11,
     <1>12 DEF Next, FrameworkStep, Ended

(* The types of the pool's state, of fWaveforms and fTriggeredWaveforms    *)
(* (digitizer module and worker) hold in every reachable state.            *)
THEOREM TypeCorrect == Spec => []TypeOK
  BY InitTypes, StepTypes, PTL DEF Spec


-----------------------------------------------------------------------------
(* The workers are as many as fNThreads says.                              *)
LEMMA WorkersFinite == IsFiniteSet(Workers) /\ Cardinality(Workers) = NThreads
<1>1. NThreads \in Nat /\ NThreads >= 1
  BY PoolAssumption DEF PoolAssumption
<1>2. 0 \in Int /\ NThreads - 1 \in Int /\ ~(0 > NThreads - 1)
      /\ (NThreads - 1) - 0 + 1 = NThreads
  BY <1>1
<1> QED BY <1>2, FS_Interval DEF Workers

(* The counts that TokenConservation adds up are natural numbers.          *)
LEMMA CountsAreNaturals ==
  /\ IsFiniteSet(Busy) /\ Cardinality(Busy) \in Nat
  /\ IsFiniteSet(Exited) /\ Cardinality(Exited) \in Nat
<1>1. Busy \in SUBSET Workers /\ Exited \in SUBSET Workers
  BY DEF Busy, Exited
<1>2. IsFiniteSet(Busy) /\ IsFiniteSet(Exited)
  BY <1>1, WorkersFinite, FS_Subset
<1> QED BY <1>2, FS_CardinalityType

(* The inductive strengthening: teardown is the only time at which         *)
(* fFinished is set and a worker can have left its loop.                   *)
PoolInv ==
  /\ TypeOK
  /\ TokenConservation
  /\ NoJobAtTeardown
  /\ fFinished <=> pp \in {"join", "gone"}
  /\ ~fFinished => Exited = {}

(* While produce is outside its waits there is no token and no busy worker. *)
LEMMA AloneMeansBlocked ==
  ASSUME PoolInv, pp \in {"idle", "serial", "collect"}
  PROVE  /\ fSemStart = 0 /\ fSemFinish = 0 /\ Busy = {} /\ Exited = {}
         /\ \A w \in Workers : wpc[w] = "decrement"
<1>1. fSemStart + Cardinality(Busy) + fSemFinish = 0
  BY DEF PoolInv, TokenConservation
<1>2. fSemStart \in Nat /\ fSemFinish \in Nat /\ Cardinality(Busy) \in Nat
  BY CountsAreNaturals DEF PoolInv, TypeOK
<1>3. fSemStart = 0 /\ fSemFinish = 0 /\ Cardinality(Busy) = 0
  BY <1>1, <1>2
<1>4. Busy = {}
  BY <1>3, CountsAreNaturals, FS_EmptySet
<1>5. Exited = {}
  BY DEF PoolInv
<1>6. ASSUME NEW w \in Workers PROVE wpc[w] = "decrement"
  BY <1>4, <1>5 DEF Busy, Exited, PoolInv, TypeOK
<1> QED BY <1>3, <1>4, <1>5, <1>6

(* The module is built with no token out and every worker blocked.         *)
LEMMA InitPool == Init => PoolInv
<1> SUFFICES ASSUME Init PROVE PoolInv
  OBVIOUS
<1>1. Busy = {} /\ Exited = {}
  BY DEF Init, Busy, Exited
<1>2. Cardinality(Busy) = 0
  BY <1>1, FS_EmptySet
<1>3. TokenConservation
  BY <1>2 DEF Init, TokenConservation
<1>4. NoJobAtTeardown
  BY DEF Init, NoJobAtTeardown
<1>5. TypeOK
  BY InitTypes
<1> QED BY <1>1, <1>3, <1>4, <1>5 DEF Init, PoolInv

(* A step of the framework's thread moves no worker.                       *)
LEMMA FrameworkKeepsPool ==
  ASSUME PoolInv, TypeOK', FrameworkStep
  PROVE  PoolInv'
<1> USE DEF mainVars, semVars, dataVars, algVars
<1>1. wpc' = wpc /\ Busy' = Busy /\ Exited' = Exited
  BY DEF FrameworkStep, BeginEvent, WaitDigitized, PutFull, ThrowBetweenRounds,
         EmptyMonPulse, FindAndMerge, WaitApplied, Wait, CollectTriggered,
         Destroy, Join, Busy, Exited
<1>2. Cardinality(Busy) \in Nat /\ Cardinality(Exited) \in Nat
      /\ fSemStart \in Nat /\ fSemFinish \in Nat /\ NThreads \in Nat
  BY CountsAreNaturals, PoolAssumption DEF PoolInv, TypeOK, PoolAssumption
<1>3. CASE BeginEvent \/ FindAndMerge
  <2>1. fSemStart = 0 /\ fSemFinish = 0 /\ Busy = {} /\ Exited = {}
    BY <1>3, AloneMeansBlocked DEF BeginEvent, FindAndMerge
  <2>2. Cardinality(Busy) = 0
    BY <2>1, FS_EmptySet
  <2>3. fSemStart' = NThreads /\ fSemFinish' = 0 /\ fFinished' = fFinished
        /\ pp' \in {"wait1", "wait2"} /\ pp \in {"idle", "serial"}
    BY <1>2, <1>3, <2>1 DEF BeginEvent, FindAndMerge
  <2>4. TokenConservation'
    BY <1>1, <1>2, <2>2, <2>3 DEF TokenConservation
  <2> QED BY <1>1, <2>1, <2>3, <2>4 DEF PoolInv, NoJobAtTeardown
<1>4. CASE WaitDigitized \/ WaitApplied
  <2>1. fSemFinish >= NThreads /\ fSemFinish' = fSemFinish - NThreads
        /\ fSemStart' = fSemStart /\ fFinished' = fFinished
        /\ pp \in {"wait1", "wait2"} /\ pp' \in {"serial", "collect"}
    BY <1>4 DEF WaitDigitized, WaitApplied, Wait
  <2>2. fSemStart + Cardinality(Busy) + fSemFinish = NThreads
    BY <2>1 DEF PoolInv, TokenConservation
  <2>3. fSemStart' + Cardinality(Busy)' + fSemFinish' = 0
    BY <1>1, <1>2, <2>1, <2>2
  <2>4. TokenConservation'
    BY <2>1, <2>3 DEF TokenConservation
  <2> QED BY <1>1, <2>1, <2>4 DEF PoolInv, NoJobAtTeardown
<1>5. CASE PutFull \/ ThrowBetweenRounds \/ CollectTriggered \/ EmptyMonPulse
  <2>1. fSemStart' = fSemStart /\ fSemFinish' = fSemFinish
        /\ fFinished' = fFinished
        /\ pp \in {"serial", "collect"} /\ pp' \in {"idle", "serial"}
    BY <1>5 DEF PutFull, ThrowBetweenRounds, CollectTriggered, EmptyMonPulse
  <2>2. fSemStart + Cardinality(Busy) + fSemFinish = 0
    BY <2>1 DEF PoolInv, TokenConservation
  <2>3. TokenConservation'
    BY <1>1, <2>1, <2>2 DEF TokenConservation
  <2> QED BY <1>1, <2>1, <2>3 DEF PoolInv, NoJobAtTeardown
<1>6. CASE Destroy
  <2>1. fSemStart = 0 /\ fSemFinish = 0 /\ Busy = {} /\ Exited = {}
        /\ \A w \in Workers : wpc[w] = "decrement"
    BY <1>6, AloneMeansBlocked DEF Destroy
  <2>2. Cardinality(Busy) = 0 /\ Cardinality(Exited) = 0
    BY <2>1, FS_EmptySet
  <2>3. TokenConservation'
    BY <1>1, <1>2, <1>6, <2>1, <2>2 DEF Destroy, TokenConservation
  <2> QED BY <1>1, <1>6, <2>1, <2>3 DEF Destroy, PoolInv, NoJobAtTeardown
<1>7. CASE Join
  <2>1. TokenConservation'
    BY <1>1, <1>7 DEF Join, PoolInv, TokenConservation
  <2> QED BY <1>1, <1>7, <2>1 DEF Join, PoolInv, NoJobAtTeardown
<1> QED BY <1>3, <1>4, <1>5, <1>6, <1>7 DEF FrameworkStep

(* A step of a worker moves one token: from the start semaphore to the     *)
(* worker, from the worker to the finish semaphore or out of the loop.     *)
LEMMA WorkerKeepsPool ==
  ASSUME PoolInv, TypeOK', NEW w \in Workers, WorkerStep(w)
  PROVE  PoolInv'
<1> USE DEF At, Goto, mainVars, semVars, dataVars, algVars
<1>1. wpc \in [Workers -> {"decrement", "check", "digitize", "apply",
                           "increment", "exited"}]
      /\ fSemStart \in Nat /\ fSemFinish \in Nat /\ NThreads \in Nat
      /\ Cardinality(Busy) \in Nat /\ Cardinality(Exited) \in Nat
  BY CountsAreNaturals, PoolAssumption DEF PoolInv, TypeOK, PoolAssumption
<1>2. pp' = pp /\ fFinished' = fFinished
  BY DEF WorkerStep, TakeToken, ChooseJob, Digitize, Apply, GiveToken
<1>3. CASE TakeToken(w)
  <2>1. w \notin Busy /\ Busy' = Busy \cup {w} /\ Exited' = Exited
    BY <1>1, <1>3 DEF TakeToken, Busy, Exited
  <2>2. Cardinality(Busy)' = Cardinality(Busy) + 1
    BY <2>1, CountsAreNaturals, FS_AddElement
  <2>3. fSemStart >= 1 /\ fSemStart' = fSemStart - 1 /\ fSemFinish' = fSemFinish
    BY <1>3 DEF TakeToken
  <2>4. fSemStart' + Cardinality(Busy)' + fSemFinish'
          = fSemStart + Cardinality(Busy) + fSemFinish
    BY <1>1, <2>2, <2>3
  <2>5. TokenConservation'
    BY <1>2, <2>1, <2>4 DEF PoolInv, TokenConservation
  <2> QED BY <1>1, <1>2, <1>3, <2>1, <2>5 DEF TakeToken, PoolInv, NoJobAtTeardown
<1>4. CASE ChooseJob(w) /\ ~fFinished
  <2>1. Busy' = Busy /\ Exited' = Exited
    BY <1>1, <1>4 DEF ChooseJob, Busy, Exited
  <2>2. TokenConservation'
    BY <1>2, <1>4, <2>1 DEF ChooseJob, PoolInv, TokenConservation
  <2> QED BY <1>1, <1>2, <1>4, <2>1, <2>2 DEF PoolInv, NoJobAtTeardown
<1>5. CASE ChooseJob(w) /\ fFinished
  <2>1. /\ w \in Busy /\ Busy' = Busy \ {w}
        /\ w \notin Exited /\ Exited' = Exited \cup {w}
    BY <1>1, <1>5 DEF ChooseJob, Busy, Exited
  <2>2. Cardinality(Busy)' = Cardinality(Busy) - 1
    BY <2>1, CountsAreNaturals, FS_RemoveElement
  <2>3. Cardinality(Exited)' = Cardinality(Exited) + 1
    BY <2>1, CountsAreNaturals, FS_AddElement
  <2>4. fSemStart' = fSemStart /\ fSemFinish' = fSemFinish
        /\ pp \in {"join", "gone"}
    BY <1>5 DEF ChooseJob, PoolInv
  <2>5. fSemStart' + Cardinality(Busy)' + fSemFinish' + Cardinality(Exited)'
          = fSemStart + Cardinality(Busy) + fSemFinish + Cardinality(Exited)
    BY <1>1, <2>2, <2>3, <2>4
  <2>6. TokenConservation'
    BY <1>2, <2>4, <2>5 DEF PoolInv, TokenConservation
  <2> QED BY <1>1, <1>2, <1>5, <2>6 DEF ChooseJob, PoolInv, NoJobAtTeardown
<1>6. CASE Digitize(w) \/ Apply(w)
  <2>1. Busy' = Busy /\ Exited' = Exited /\ ~fFinished
    BY <1>1, <1>6 DEF Digitize, Apply, Busy, Exited, PoolInv, NoJobAtTeardown
  <2>2. TokenConservation'
    BY <1>2, <1>6, <2>1 DEF Digitize, Apply, PoolInv, TokenConservation
  <2> QED BY <1>2, <2>1, <2>2 DEF PoolInv, NoJobAtTeardown
<1>7. CASE GiveToken(w)
  <2>1. w \in Busy /\ Busy' = Busy \ {w} /\ Exited' = Exited
    BY <1>1, <1>7 DEF GiveToken, Busy, Exited
  <2>2. Cardinality(Busy)' = Cardinality(Busy) - 1
    BY <2>1, CountsAreNaturals, FS_RemoveElement
  <2>3. fSemStart' = fSemStart /\ fSemFinish' = fSemFinish + 1 /\ ~fFinished
    BY <1>7 DEF GiveToken, PoolInv, NoJobAtTeardown
  <2>4. fSemStart' + Cardinality(Busy)' + fSemFinish'
          = fSemStart + Cardinality(Busy) + fSemFinish
    BY <1>1, <2>2, <2>3
  <2>5. TokenConservation'
    BY <1>2, <2>1, <2>4 DEF PoolInv, TokenConservation
  <2> QED BY <1>2, <2>1, <2>3, <2>5 DEF PoolInv, NoJobAtTeardown
<1> QED BY <1>3, <1>4, <1>5, <1>6, <1>7 DEF WorkerStep

(* Every step of produce or of a worker keeps the invariant of the pool.   *)
LEMMA StepPool == PoolInv /\ [Next]_vars => PoolInv'
<1> SUFFICES ASSUME PoolInv, [Next]_vars PROVE PoolInv'
  OBVIOUS
<1>1. TypeOK'
  BY StepTypes DEF PoolInv
<1>2. CASE FrameworkStep
  BY <1>1, <1>2, FrameworkKeepsPool
<1>3. ASSUME NEW w \in Workers, WorkerStep(w) PROVE PoolInv'
  BY <1>1, <1>3, WorkerKeepsPool
<1>4. CASE UNCHANGED vars
  BY <1>4 DEF vars, mainVars, semVars, dataVars, algVars, PoolInv, TypeOK,
     TokenConservation, NoJobAtTeardown, Busy, Exited
<1> QED BY <1>2, <1>3, <1>4 DEF Next, Ended

(* The inductive invariant from which the safety theorems follow.          *)
LEMMA PoolInvHolds == Spec => []PoolInv
  BY InitPool, StepPool, PTL DEF Spec

-----------------------------------------------------------------------------
(* StartopDetDigitizerWorkers and WaitopDetDigitizerWorkers account for    *)
(* every token they hand out, in every round and at teardown, for any      *)
(* number of threads and events, and after an exception between rounds.    *)
THEOREM TokensConserved == Spec => []TokenConservation
<1>1. PoolInv => TokenConservation
  BY DEF PoolInv
<1> QED BY <1>1, PoolInvHolds, PTL

(* While produce is outside its two waits no worker runs, so the vectors   *)
(* it resets and moves without a lock are its own.                         *)
THEOREM ProduceIsAlone == Spec => []ProduceAlone
<1>1. PoolInv => ProduceAlone
  BY AloneMeansBlocked DEF ProduceAlone
<1> QED BY <1>1, PoolInvHolds, PTL

(* Once the destructor has set fFinished no worker digitizes or applies.   *)
THEOREM TeardownIsClean == Spec => []NoJobAtTeardown
<1>1. PoolInv => NoJobAtTeardown
  BY DEF PoolInv
<1> QED BY <1>1, PoolInvHolds, PTL

-----------------------------------------------------------------------------
(* A step of the framework's thread is a fork, a rejoin, the shutdown or   *)
(* nothing to ForkJoin.                                                    *)
LEMMA FrameworkRefines ==
  ASSUME PoolInv, PoolInv', FrameworkStep
  PROVE  [FJ!FJNext]_(FJ!fjVars)
<1> USE DEF FJ!FJNext, FJ!fjVars, FJ!Fork, FJ!JobDone, FJ!Rejoin, FJ!ShutDown
<1>1. fSemFinish \in Nat /\ fSemStart \in Nat /\ Cardinality(Busy) \in Nat
      /\ NThreads \in Nat
  BY CountsAreNaturals, PoolAssumption DEF PoolInv, TypeOK, PoolAssumption
<1>2. CASE BeginEvent \/ FindAndMerge
  <2>1. pp \in {"idle", "serial"} /\ pp' \in {"wait1", "wait2"}
        /\ fSemFinish' = fSemFinish
    BY <1>2 DEF BeginEvent, FindAndMerge, mainVars
  <2>2. fSemFinish = 0
    BY <2>1, AloneMeansBlocked
  <2> QED BY <1>1, <2>1, <2>2
<1>3. CASE WaitDigitized \/ WaitApplied
  <2>1. pp \in {"wait1", "wait2"} /\ pp' \in {"serial", "collect"}
        /\ fSemFinish >= NThreads
    BY <1>3 DEF WaitDigitized, WaitApplied, Wait
  <2>2. fSemStart + Cardinality(Busy) + fSemFinish = NThreads
    BY <2>1 DEF PoolInv, TokenConservation
  <2>3. NThreads - fSemFinish = 0
    BY <1>1, <2>1, <2>2
  <2> QED BY <2>1, <2>3
<1>4. CASE PutFull \/ ThrowBetweenRounds \/ CollectTriggered \/ EmptyMonPulse
  <2>1. pp \in {"serial", "collect"} /\ pp' \in {"idle", "serial"}
    BY <1>4 DEF PutFull, ThrowBetweenRounds, CollectTriggered, EmptyMonPulse,
       mainVars
  <2> QED BY <2>1
<1>5. CASE Destroy
  BY <1>5 DEF Destroy
<1>6. CASE Join
  BY <1>6 DEF Join
<1> QED BY <1>2, <1>3, <1>4, <1>5, <1>6 DEF FrameworkStep

(* A worker's step is the end of a job when it gives its token back, and   *)
(* nothing to ForkJoin otherwise.                                          *)
LEMMA WorkerRefines ==
  ASSUME PoolInv, NEW w \in Workers, WorkerStep(w)
  PROVE  [FJ!FJNext]_(FJ!fjVars)
<1> USE DEF FJ!FJNext, FJ!fjVars, FJ!Fork, FJ!JobDone, FJ!Rejoin, FJ!ShutDown
<1>1. fSemFinish \in Nat /\ fSemStart \in Nat /\ Cardinality(Busy) \in Nat
      /\ NThreads \in Nat
  BY CountsAreNaturals, PoolAssumption DEF PoolInv, TypeOK, PoolAssumption
<1>2. pp' = pp
  BY DEF WorkerStep, TakeToken, ChooseJob, Digitize, Apply, GiveToken, mainVars
<1>3. CASE fSemFinish' = fSemFinish
  BY <1>2, <1>3
<1>4. CASE GiveToken(w)
  <2>1. fSemFinish' = fSemFinish + 1 /\ w \in Busy /\ ~fFinished
    BY <1>4 DEF GiveToken, At, Busy, PoolInv, NoJobAtTeardown
  <2>2. Cardinality(Busy) >= 1
    <3>1. Busy # {} /\ IsFiniteSet(Busy)
      BY <2>1, CountsAreNaturals
    <3>2. Cardinality(Busy) # 0
      BY <3>1, FS_EmptySet
    <3> QED BY <1>1, <3>2
  <2>3. pp \in {"wait1", "wait2"}
    BY <2>1, AloneMeansBlocked DEF PoolInv, TypeOK
  <2>4. fSemStart + Cardinality(Busy) + fSemFinish = NThreads
    BY <2>3 DEF PoolInv, TokenConservation
  <2>5. NThreads - fSemFinish > 0
        /\ NThreads - (fSemFinish + 1) = (NThreads - fSemFinish) - 1
    BY <1>1, <2>2, <2>4
  <2> QED BY <1>2, <2>1, <2>3, <2>5
<1> QED BY <1>3, <1>4 DEF WorkerStep, TakeToken, ChooseJob, Digitize, Apply,
           semVars

(* The pool implements ForkJoin: what produce and the destructor rely on   *)
(* holds for every number of threads.                                      *)
THEOREM PoolForksAndJoins == Spec => ForksAndJoins
<1>1. Init => FJ!FJInit
  BY DEF Init, FJ!FJInit
<1>2. PoolInv /\ PoolInv' /\ [Next]_vars => [FJ!FJNext]_(FJ!fjVars)
  <2> SUFFICES ASSUME PoolInv, PoolInv', [Next]_vars
               PROVE  [FJ!FJNext]_(FJ!fjVars)
    OBVIOUS
  <2>1. CASE FrameworkStep
    BY <2>1, FrameworkRefines
  <2>2. ASSUME NEW w \in Workers, WorkerStep(w) PROVE [FJ!FJNext]_(FJ!fjVars)
    BY <2>2, WorkerRefines
  <2>3. CASE UNCHANGED vars
    BY <2>3 DEF vars, mainVars, semVars, FJ!fjVars
  <2> QED BY <2>1, <2>2, <2>3 DEF Next, Ended
<1> QED BY <1>1, <1>2, PoolInvHolds, PTL DEF Spec, ForksAndJoins, FJ!FJSpec

-----------------------------------------------------------------------------
(* The strengthening for the data: what is in fWaveforms, in the workers'  *)
(* vectors and in the product is this event's, and until the triggers of   *)
(* the event are found no channel has trigger times, so that a job done in *)
(* the wrong round leaves nothing behind for a later event.                *)
DataInv ==
  /\ \A ch \in Channels : fWaveforms[ch] # NULL =>
                             ch \in light /\ fWaveforms[ch] = event
  /\ \A w \in Workers : fTriggered[w] \subseteq light \X {event}
  /\ product \subseteq light \X {event}
  /\ pp \in {"idle", "wait1", "serial", "join", "gone"} =>
        times = {} /\ \A w \in Workers : fTriggered[w] = {}

(* No step mixes the waveforms of two events: the vectors that outlive an  *)
(* event are empty whenever the next one begins.                           *)
LEMMA StepData ==
  ASSUME PoolInv, DataInv, [Next]_vars
  PROVE  DataInv'
<1> USE DEF mainVars, semVars, dataVars, algVars, NULL
<1>1. fWaveforms \in [Channels -> 0 .. MaxEvents]
      /\ fTriggered \in [Workers -> SUBSET (Channels \X (1 .. MaxEvents))]
      /\ event \in 0 .. MaxEvents /\ MaxEvents \in Nat
  BY PoolAssumption DEF PoolInv, TypeOK, PoolAssumption
<1>2. {<<ch, fWaveforms[ch]>> : ch \in Digitized} \subseteq light \X {event}
  BY DEF Digitized, DataInv
<1>3. CASE BeginEvent
  BY <1>3 DEF BeginEvent, DataInv
<1>4. CASE WaitDigitized \/ WaitApplied
  BY <1>4 DEF WaitDigitized, WaitApplied, Wait, DataInv
<1>5. CASE PutFull
  BY <1>2, <1>5 DEF PutFull, DataInv
<1>6. CASE ThrowBetweenRounds \/ EmptyMonPulse \/ Join \/ Destroy
  BY <1>6 DEF ThrowBetweenRounds, EmptyMonPulse, Join, Destroy, DataInv
<1>7. CASE FindAndMerge
  BY <1>7 DEF FindAndMerge, DataInv
<1>8. CASE CollectTriggered
  BY <1>8 DEF CollectTriggered, DataInv
<1>9. ASSUME NEW w \in Workers, WorkerStep(w) PROVE DataInv'
  <2> USE DEF At, Goto
  <2>1. CASE TakeToken(w) \/ ChooseJob(w) \/ GiveToken(w)
    BY <2>1 DEF TakeToken, ChooseJob, GiveToken, DataInv
  <2>2. CASE Digitize(w)
    BY <1>1, <2>2 DEF Digitize, DataInv
  <2>3. CASE Apply(w)
    <3>1. CASE fTriggered' = fTriggered
      BY <2>3, <3>1 DEF Apply, DataInv
    <3> DEFINE mine == {<<ch, fWaveforms[ch]>> : ch \in Own(w) \cap Digitized \cap times}
    <3>2. CASE fTriggered' = [fTriggered EXCEPT ![w] = mine]
      <4>1. mine \subseteq light \X {event}
        BY DEF Digitized, DataInv
      <4>2. times = {} => mine = {}
        OBVIOUS
      <4>3. fWaveforms' = fWaveforms /\ light' = light /\ event' = event
            /\ product' = product /\ pp' = pp /\ times' = times
        BY <2>3 DEF Apply
      <4> HIDE DEF mine
      <4> QED BY <1>1, <3>2, <4>1, <4>2, <4>3 DEF DataInv
    <3> QED BY <2>3, <3>1, <3>2 DEF Apply
  <2> QED BY <1>9, <2>1, <2>2, <2>3 DEF WorkerStep
<1>10. CASE UNCHANGED vars
  BY <1>10 DEF vars, DataInv
<1> QED
  BY <1>3, <1>4, <1>5, <1>6, <1>7, <1>8, <1>9, <1>10
     DEF Next, FrameworkStep, Ended

(* The collection an event receives was digitized from that event's        *)
(* photons, whatever tokens were taken by whom and whether or not earlier  *)
(* events were cut short by an exception.                                  *)
THEOREM ProductsAreSound == Spec => []ProductSound
<1>1. Init => DataInv
  BY DEF Init, DataInv, NULL
<1>2. PoolInv /\ DataInv /\ [Next]_vars => DataInv'
  BY StepData
<1>3. DataInv => ProductSound
  BY DEF DataInv, ProductSound
<1> QED BY <1>1, <1>2, <1>3, PoolInvHolds, PTL DEF Spec

-----------------------------------------------------------------------------
(* One thread, and pair lists that name PMTs only: what a single worker    *)
(* makes certain, and several, or a round cut short, do not.               *)
OneWorker == NThreads = 1 /\ \A c \in Configs : c.PairsListed

Resting          == wpc[0] = "decrement" /\ fSemStart = 0 /\ fSemFinish = 0
WaitingFor(job) == \/ wpc[0] = "decrement" /\ fSemStart = 1 /\ fSemFinish = 0
                   \/ wpc[0] \in {"check", job} /\ fSemStart = 0 /\ fSemFinish = 0
JobDone         == \/ wpc[0] = "increment" /\ fSemStart = 0 /\ fSemFinish = 0
                   \/ wpc[0] = "decrement" /\ fSemStart = 0 /\ fSemFinish = 1
Triggered       == fTriggered[0] = (light \cap times) \X {event}

(* The one worker's flag and data follow produce from round to round.      *)
RoundInv ==
  /\ died # "out_of_range"
  /\ pp \notin {"idle", "join", "gone"} => event # NULL
  /\ pp = "idle" => Resting /\ ~do_apply[0]
  /\ pp = "wait1" => \/ WaitingFor("digitize") /\ ~do_apply[0] /\ Digitized = {}
                     \/ JobDone /\ (do_apply[0] <=> ApplyTriggers) /\ Digitized = light
  /\ pp = "serial" => Resting /\ (do_apply[0] <=> ApplyTriggers) /\ Digitized = light
  /\ pp = "wait2" => /\ Digitized = light /\ (SelfTriggerPerChannel => light \subseteq keys)
                     /\ \/ WaitingFor("apply") /\ do_apply[0]
                        \/ JobDone /\ ~do_apply[0] /\ Triggered
  /\ pp = "collect" => Resting /\ ~do_apply[0] /\ Triggered

(* The only worker has every channel.                                      *)
LEMMA OneHasAll == ASSUME OneWorker PROVE Workers = {0} /\ Own(0) = Channels
<1>1. NThreads = 1 /\ NChannels \in Nat \ {0}
  BY PoolAssumption DEF PoolAssumption, OneWorker
<1>2. Workers = {0}
  BY <1>1 DEF Workers
<1>3. NChannelsToProcess(NChannels, 1, 0) = NChannels
  BY <1>1 DEF NChannelsToProcess
<1>4. StartChannelToProcess(NChannels, 1, 0) = 0
  BY <1>1 DEF StartChannelToProcess
<1> QED BY <1>1, <1>2, <1>3, <1>4 DEF Own, Prescribed, Channels

(* Every step of the one worker or of produce keeps them in step.          *)
LEMMA RoundStep ==
  ASSUME OneWorker, PoolInv, DataInv, RoundInv, [Next]_vars
  PROVE  RoundInv'
<1> USE DEF mainVars, semVars, dataVars, algVars, NULL, Resting, WaitingFor, JobDone
<1>1. /\ wpc \in [{0} -> {"decrement", "check", "digitize", "apply", "increment", "exited"}]
      /\ do_apply \in [{0} -> BOOLEAN]
      /\ fWaveforms \in [Channels -> 0 .. MaxEvents] /\ light \subseteq Channels
      /\ fTriggered \in [{0} -> SUBSET (Channels \X (1 .. MaxEvents))]
      /\ event \in Nat /\ NThreads = 1 /\ Workers = {0} /\ Own(0) = Channels
  BY OneHasAll DEF PoolInv, TypeOK, OneWorker
<1>2. PairsListed
  BY DEF PairsListed, OneWorker, PoolInv, TypeOK
<1>3. CASE BeginEvent
  <2>1. Digitized' = {} /\ pp = "idle" /\ pp' = "wait1" /\ event' = event + 1
    BY <1>3 DEF BeginEvent, Digitized
  <2> QED BY <1>1, <1>3, <2>1 DEF BeginEvent, RoundInv
<1>4. CASE WaitDigitized
  <2>1. pp = "wait1" /\ pp' = "serial" /\ fSemFinish >= 1 /\ fSemFinish' = fSemFinish - 1
        /\ UNCHANGED <<fConfig, event, light, fSemStart, wpc, do_apply, fWaveforms, died>>
    BY <1>1, <1>4 DEF WaitDigitized, Wait
  <2>2. JobDone /\ fSemFinish = 1 /\ wpc[0] = "decrement" /\ fSemStart = 0
        /\ (do_apply[0] <=> ApplyTriggers) /\ Digitized = light
    BY <2>1 DEF RoundInv
  <2> QED BY <2>1, <2>2 DEF RoundInv, Digitized, ApplyTriggers
<1>5. CASE WaitApplied
  <2>1. pp = "wait2" /\ pp' = "collect" /\ fSemFinish >= 1 /\ fSemFinish' = fSemFinish - 1
        /\ UNCHANGED <<event, light, times, fSemStart, wpc, do_apply, fTriggered, died>>
    BY <1>1, <1>5 DEF WaitApplied, Wait
  <2>2. JobDone /\ fSemFinish = 1 /\ wpc[0] = "decrement" /\ fSemStart = 0
        /\ ~do_apply[0] /\ Triggered
    BY <2>1 DEF RoundInv
  <2> QED BY <2>1, <2>2 DEF RoundInv, Triggered
<1>6. CASE PutFull
  BY <1>6 DEF PutFull, RoundInv
<1>7. CASE ThrowBetweenRounds
  BY <1>2, <1>7 DEF ThrowBetweenRounds
<1>8. CASE EmptyMonPulse
  BY <1>8 DEF EmptyMonPulse, RoundInv, Digitized, ApplyTriggers
<1>9. CASE FindAndMerge
  <2>1. pp = "serial" /\ pp' = "wait2" /\ fSemStart' = fSemStart + 1 /\ ApplyTriggers
        /\ UNCHANGED <<fConfig, event, light, fSemFinish, wpc, do_apply, fWaveforms, died>>
    BY <1>1, <1>9 DEF FindAndMerge
  <2>2. SelfTriggerPerChannel => Digitized \subseteq keys'
    BY <1>9 DEF FindAndMerge
  <2>3. Resting /\ do_apply[0] /\ Digitized = light
    BY <2>1 DEF RoundInv
  <2> QED BY <2>1, <2>2, <2>3 DEF RoundInv, Digitized, SelfTriggerPerChannel
<1>10. CASE CollectTriggered
  BY <1>10 DEF CollectTriggered, RoundInv
<1>11. CASE Destroy \/ Join
  BY <1>11 DEF Destroy, Join, RoundInv
<1>12. CASE WorkerStep(0)
  <2> USE DEF At, Goto
  <2>1. pp' = pp /\ UNCHANGED <<fConfig, event, light, product, keys, times>>
    BY <1>12 DEF WorkerStep, TakeToken, ChooseJob, Digitize, Apply, GiveToken
  <2>2. fFinished <=> pp \in {"join", "gone"}
    BY DEF PoolInv
  <2>3. CASE pp \in {"join", "gone"}
    <3>1. wpc[0] # "apply"
      BY <1>1, <2>2, <2>3 DEF PoolInv, NoJobAtTeardown
    <3>2. died' = died
      BY <1>12, <3>1 DEF WorkerStep, TakeToken, ChooseJob, Digitize, Apply, GiveToken
    <3> QED BY <2>1, <2>3, <3>2 DEF RoundInv
  <2>4. CASE pp = "wait1"
    <3>1. CASE TakeToken(0)
      BY <1>1, <2>1, <2>4, <3>1 DEF TakeToken, RoundInv, Digitized, ApplyTriggers
    <3>2. CASE ChooseJob(0)
      BY <1>1, <2>1, <2>2, <2>4, <3>2 DEF ChooseJob, RoundInv, Digitized, ApplyTriggers
    <3>3. CASE Digitize(0)
      <4>1. WaitingFor("digitize") /\ Digitized = {} /\ event # 0
        BY <2>4, <3>3 DEF Digitize, RoundInv
      <4>2. Digitized' = light
        <5>1. fWaveforms' = [ch \in Channels |-> IF ch \in Channels \cap light THEN event
                                                 ELSE fWaveforms[ch]]
          BY <1>1, <3>3 DEF Digitize
        <5>2. \A ch \in Channels : fWaveforms[ch] = 0
          BY <4>1 DEF Digitized
        <5> QED BY <1>1, <4>1, <5>1, <5>2 DEF Digitized
      <4>3. wpc'[0] = "increment" /\ (do_apply'[0] <=> ApplyTriggers)
            /\ UNCHANGED <<fSemStart, fSemFinish, died>>
        BY <1>1, <3>3 DEF Digitize
      <4> QED BY <2>1, <2>4, <3>3, <4>1, <4>2, <4>3 DEF RoundInv, Digitize, ApplyTriggers
    <3>4. CASE Apply(0)
      BY <2>4, <3>4 DEF Apply, RoundInv
    <3>5. CASE GiveToken(0)
      BY <1>1, <2>1, <2>4, <3>5 DEF GiveToken, RoundInv, Digitized, ApplyTriggers
    <3> QED BY <1>12, <3>1, <3>2, <3>3, <3>4, <3>5 DEF WorkerStep
  <2>5. CASE pp = "wait2"
    <3>1. CASE TakeToken(0)
      BY <1>1, <2>1, <2>5, <3>1 DEF TakeToken, RoundInv, Digitized, SelfTriggerPerChannel, Triggered
    <3>2. CASE ChooseJob(0)
      BY <1>1, <2>1, <2>2, <2>5, <3>2 DEF ChooseJob, RoundInv, Digitized, SelfTriggerPerChannel, Triggered
    <3>3. CASE Digitize(0)
      BY <2>5, <3>3 DEF Digitize, RoundInv
    <3>4. CASE Apply(0)
      <4>1. Digitized = light /\ (SelfTriggerPerChannel => light \subseteq keys) /\ WaitingFor("apply")
        BY <2>5, <3>4 DEF Apply, RoundInv
      <4>2. SelfTriggerPerChannel => Own(0) \cap Digitized \subseteq keys
        BY <4>1
      <4> DEFINE mine == {<<ch, fWaveforms[ch]>> : ch \in Own(0) \cap Digitized \cap times}
      <4>3. /\ fTriggered' = [fTriggered EXCEPT ![0] = mine]
            /\ do_apply' = [do_apply EXCEPT ![0] = FALSE] /\ wpc' = [wpc EXCEPT ![0] = "increment"]
            /\ UNCHANGED <<fWaveforms, fSemStart, fSemFinish, died>>
        BY <3>4, <4>2 DEF Apply
      <4>4. mine = (light \cap times) \X {event}
        <5>1. \A ch \in light : fWaveforms[ch] = event
          BY <4>1 DEF Digitized, DataInv
        <5> QED BY <1>1, <4>1, <5>1
      <4> HIDE DEF mine
      <4>5. Triggered' /\ wpc'[0] = "increment" /\ do_apply'[0] = FALSE
        BY <1>1, <2>1, <4>3, <4>4 DEF Triggered
      <4> QED BY <2>1, <2>5, <3>4, <4>1, <4>3, <4>5 DEF RoundInv, Digitized, Apply, SelfTriggerPerChannel
    <3>5. CASE GiveToken(0)
      BY <1>1, <2>1, <2>5, <3>5 DEF GiveToken, RoundInv, Digitized, SelfTriggerPerChannel, Triggered
    <3> QED BY <1>12, <3>1, <3>2, <3>3, <3>4, <3>5 DEF WorkerStep
  <2>6. CASE pp \in {"idle", "serial", "collect"}
    <3>1. Resting
      BY <2>6 DEF RoundInv
    <3> QED BY <1>12, <3>1 DEF WorkerStep, TakeToken, ChooseJob, Digitize, Apply, GiveToken
  <2> QED BY <2>3, <2>4, <2>5, <2>6 DEF PoolInv, TypeOK
<1>13. CASE UNCHANGED vars
  BY <1>13 DEF vars, RoundInv, Digitized, ApplyTriggers, SelfTriggerPerChannel, Triggered
<1> QED
  BY <1>1, <1>3, <1>4, <1>5, <1>6, <1>7, <1>8, <1>9, <1>10, <1>11, <1>12, <1>13
     DEF Next, FrameworkStep, Ended

(* With one worker every round does what produce started it for: the first *)
(* digitizes every channel with photons, the second reads out the          *)
(* triggered ones, and finds the key of each.                              *)
THEOREM OneWorkerKeepsRounds == ASSUME OneWorker PROVE Spec => []RoundsInOrder
<1>1. Init => PoolInv /\ DataInv /\ RoundInv
  <2>1. Init => RoundInv
    BY OneHasAll DEF Init, RoundInv, Resting
  <2>2. Init => DataInv
    BY DEF Init, DataInv, NULL
  <2> QED BY <2>1, <2>2, InitPool
<1>2. PoolInv /\ DataInv /\ RoundInv /\ [Next]_vars => (PoolInv /\ DataInv /\ RoundInv)'
  BY StepPool, StepData, RoundStep
<1>3. RoundInv => RoundsInOrder
  <2> SUFFICES ASSUME RoundInv PROVE RoundsInOrder
    OBVIOUS
  <2>1. UNION {fTriggered[w] : w \in Workers} = fTriggered[0]
    BY OneHasAll
  <2> QED BY <2>1 DEF RoundInv, RoundsInOrder, RoundsComplete, TriggersFoundFirst, Triggered
<1> QED BY <1>1, <1>2, <1>3, PTL DEF Spec

------------------------------------------------------------------------------
(* Quotient and remainder of a natural number.                             *)
LEMMA DivMod ==
  ASSUME NEW n \in Nat, NEW T \in Nat \ {0}
  PROVE  /\ n \div T \in Nat /\ n % T \in Nat
         /\ n = T * (n \div T) + (n % T) /\ n % T < T
  OBVIOUS

(* A quotient is determined by its bounds.                                 *)
LEMMA DivUnique ==
  ASSUME NEW a \in Nat, NEW T \in Nat \ {0}, NEW q \in Nat,
         NEW r \in Nat, a = T * q + r, r < T
  PROVE  a \div T = q
  OBVIOUS

(* The first n % T workers have one channel more than the others.          *)
LEMMA BlockSize ==
  ASSUME NEW n \in Nat, NEW T \in Nat \ {0}, NEW k \in Nat, k < T
  PROVE  NChannelsToProcess(n, T, k)
           = IF k < n % T THEN (n \div T) + 1 ELSE n \div T
<1> DEFINE q == n \div T
           r == n % T
           a == n + T - k - 1
<1>1. q \in Nat /\ r \in Nat /\ n = T * q + r /\ r < T
  BY DivMod
<1>2. a \in Nat
  OBVIOUS
<1> HIDE DEF q, r
<1>3. CASE k < r
  <2>1. T * (q + 1) = T * q + T
    BY <1>1
  <2>2. r - k - 1 \in Nat /\ r - k - 1 < T /\ a = T * (q + 1) + (r - k - 1)
    BY <1>1, <1>3, <2>1
  <2>3. a \div T = q + 1
    BY <1>1, <1>2, <2>2, DivUnique
  <2> QED BY <1>3, <2>3 DEF NChannelsToProcess, q, r
<1>4. CASE ~(k < r)
  <2>1. r + T - k - 1 \in Nat /\ r + T - k - 1 < T /\ a = T * q + (r + T - k - 1)
    BY <1>1, <1>4
  <2>2. a \div T = q
    BY <1>1, <1>2, <2>1, DivUnique
  <2> QED BY <1>4, <2>2 DEF NChannelsToProcess, q, r
<1> QED BY <1>3, <1>4

(* A block ends where the next one starts.                                 *)
LEMMA BlocksAdjoin ==
  ASSUME NEW n \in Nat, NEW T \in Nat \ {0}, NEW k \in Nat, k < T
  PROVE  /\ StartChannelToProcess(n, T, k) \in Nat
         /\ NChannelsToProcess(n, T, k) \in Nat
         /\ StartChannelToProcess(n, T, k) + NChannelsToProcess(n, T, k)
              = StartChannelToProcess(n, T, k + 1)
<1> DEFINE q == n \div T
           r == n % T
<1>1. q \in Nat /\ r \in Nat /\ r < T
  BY DivMod
<1>2. q * k \in Nat /\ q * (k + 1) = q * k + q
  BY <1>1
<1>3. NChannelsToProcess(n, T, k) = IF k < r THEN q + 1 ELSE q
  BY BlockSize
<1>4. /\ StartChannelToProcess(n, T, k) = q * k + (IF k < r THEN k ELSE r)
      /\ StartChannelToProcess(n, T, k + 1)
           = q * (k + 1) + (IF k + 1 < r THEN k + 1 ELSE r)
  BY DEF StartChannelToProcess
<1> HIDE DEF q, r
<1> QED BY <1>1, <1>2, <1>3, <1>4

(* The blocks of two workers do not overlap: the later one starts at or    *)
(* after the end of the earlier one.                                       *)
LEMMA BlocksOrdered ==
  ASSUME NEW n \in Nat, NEW T \in Nat \ {0},
         NEW j \in Nat, NEW k \in Nat, j < k, k < T
  PROVE  StartChannelToProcess(n, T, j) + NChannelsToProcess(n, T, j)
           <= StartChannelToProcess(n, T, k)
<1> DEFINE q == n \div T
           r == n % T
<1>1. q \in Nat /\ r \in Nat
  BY DivMod
<1>2. PICK d \in Nat : k = (j + 1) + d
  BY k - (j + 1) \in Nat
<1>3. q * k = q * (j + 1) + q * d /\ q * d \in Nat /\ q * (j + 1) \in Nat
  BY <1>1, <1>2
<1>4. StartChannelToProcess(n, T, j) + NChannelsToProcess(n, T, j)
        = q * (j + 1) + (IF j + 1 < r THEN j + 1 ELSE r)
  <2>1. j < T
    OBVIOUS
  <2>2. StartChannelToProcess(n, T, j) + NChannelsToProcess(n, T, j)
          = StartChannelToProcess(n, T, j + 1)
    BY <2>1, BlocksAdjoin
  <2> QED BY <2>2 DEF StartChannelToProcess
<1>5. StartChannelToProcess(n, T, k) = q * k + (IF k < r THEN k ELSE r)
  BY DEF StartChannelToProcess
<1> DEFINE x == IF j + 1 < r THEN j + 1 ELSE r
           y == IF k < r THEN k ELSE r
<1>6. x \in Nat /\ y \in Nat /\ x <= y
  BY <1>1, <1>2
<1> HIDE DEF q, r, x, y
<1>7. q * (j + 1) + x <= q * k + y
  BY <1>3, <1>6
<1> QED BY <1>4, <1>5, <1>7 DEF x, y

(* Every channel is in the block of some worker.                           *)
LEMMA BlocksCover ==
  ASSUME NEW n \in Nat, NEW T \in Nat \ {0}, NEW ch \in Nat, ch < n
  PROVE  \E k \in 0 .. T - 1 :
           /\ ch >= StartChannelToProcess(n, T, k)
           /\ ch < StartChannelToProcess(n, T, k) + NChannelsToProcess(n, T, k)
<1> DEFINE q == n \div T
           r == n % T
<1>1. q \in Nat /\ r \in Nat /\ n = T * q + r /\ r < T
  BY DivMod
<1>2. ASSUME NEW k \in Nat, k < T
      PROVE  /\ StartChannelToProcess(n, T, k) = q * k + (IF k < r THEN k ELSE r)
             /\ NChannelsToProcess(n, T, k) = IF k < r THEN q + 1 ELSE q
  BY <1>2, BlockSize DEF StartChannelToProcess
<1> HIDE DEF q, r
<1>3. CASE ch < r * (q + 1)
  <2> DEFINE k == ch \div (q + 1)
             s == ch % (q + 1)
  <2>1. k \in Nat /\ s \in Nat /\ ch = (q + 1) * k + s /\ s < q + 1
    BY <1>1, DivMod
  <2> HIDE DEF k, s
  <2>2. k < r
    <3>1. SUFFICES ASSUME k >= r PROVE FALSE
      BY <1>1, <2>1
    <3>2. PICK d \in Nat : k = r + d
      BY <1>1, <2>1, <3>1, k - r \in Nat
    <3>3. (q + 1) * k = r * (q + 1) + (q + 1) * d /\ (q + 1) * d \in Nat
      BY <1>1, <3>2
    <3> QED BY <1>1, <1>3, <2>1, <3>3
  <2>3. (q + 1) * k = q * k + k /\ q * k \in Nat
    BY <1>1, <2>1
  <2>4. StartChannelToProcess(n, T, k) = q * k + k
        /\ NChannelsToProcess(n, T, k) = q + 1 /\ k \in 0 .. T - 1
    BY <1>1, <1>2, <2>1, <2>2
  <2> QED BY <1>1, <2>1, <2>3, <2>4
<1>4. CASE ch >= r * (q + 1)
  <2> DEFINE b == ch - r * (q + 1)
             j == b \div q
             s == b % q
  <2>1. r * (q + 1) = q * r + r /\ q * r \in Nat /\ r * (q + 1) \in Nat
    BY <1>1
  <2>2. b \in Nat
    BY <1>4, <2>1
  <2>3. q # 0
    <3>1. SUFFICES ASSUME q = 0 PROVE FALSE
      OBVIOUS
    <3>2. T * q = 0 /\ q * r = 0
      BY <1>1, <3>1
    <3> QED BY <1>1, <1>4, <2>1, <3>2
  <2>4. j \in Nat /\ s \in Nat /\ b = q * j + s /\ s < q
    BY <1>1, <2>2, <2>3, DivMod
  <2>5. ch = q * r + r + q * j + s
    BY <1>1, <2>1, <2>4
  <2> HIDE DEF b, j, s
  <2>6. r + j < T
    <3>1. SUFFICES ASSUME r + j >= T PROVE FALSE
      BY <1>1, <2>4
    <3>2. PICK d \in Nat : r + j = T + d
      BY <1>1, <2>4, <3>1, (r + j) - T \in Nat
    <3>3. q * (r + j) = T * q + q * d /\ q * d \in Nat
      BY <1>1, <3>2
    <3>4. q * (r + j) = q * r + q * j /\ q * j \in Nat /\ T * q \in Nat
      BY <1>1, <2>4
    <3> QED BY <1>1, <2>1, <2>4, <2>5, <3>3, <3>4
  <2>7. q * (r + j) = q * r + q * j /\ q * j \in Nat
    BY <1>1, <2>4
  <2>8. StartChannelToProcess(n, T, r + j) = q * (r + j) + r
        /\ NChannelsToProcess(n, T, r + j) = q /\ r + j \in 0 .. T - 1
    BY <1>1, <1>2, <2>4, <2>6
  <2> QED BY <1>1, <2>1, <2>4, <2>5, <2>7, <2>8
<1> QED BY <1>1, <1>3, <1>4

(* Every channel is worked on by exactly one worker, whatever the number   *)
(* of channels and threads: no waveform is left out, and no two workers    *)
(* write the same element of fWaveforms.                                   *)
THEOREM BlocksPartition ==
  ASSUME NEW n \in Nat, NEW T \in Nat \ {0}
  PROVE  \A ch \in 0 .. n - 1 :
           \E k \in 0 .. T - 1 :
             /\ ch \in Prescribed(n, T, k)
             /\ \A j \in 0 .. T - 1 : ch \in Prescribed(n, T, j) => j = k
<1> TAKE ch \in 0 .. n - 1
<1>1. PICK k \in 0 .. T - 1 : ch \in Prescribed(n, T, k)
  <2>1. ch \in Nat /\ ch < n
    OBVIOUS
  <2> QED BY <2>1, BlocksCover DEF Prescribed
<1>2. ASSUME NEW j \in 0 .. T - 1, ch \in Prescribed(n, T, j) PROVE j = k
  <2>1. StartChannelToProcess(n, T, j) \in Nat /\ NChannelsToProcess(n, T, j) \in Nat
        /\ StartChannelToProcess(n, T, k) \in Nat /\ NChannelsToProcess(n, T, k) \in Nat
    BY SMTT(30), BlocksAdjoin
  <2>2. CASE j < k
    BY <1>1, <1>2, <2>1, <2>2, BlocksOrdered DEF Prescribed
  <2>3. CASE k < j
    BY <1>1, <1>2, <2>1, <2>3, BlocksOrdered DEF Prescribed
  <2> QED BY <2>2, <2>3
<1> QED BY <1>1, <1>2
=============================================================================
