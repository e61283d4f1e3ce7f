------------------------------ MODULE DigiPool ------------------------------
(***************************************************************************)
(* The worker pool of the optical digitizer: the produce() method of       *)
(* opDetDigitizerSBND_module.cc (one call per event, on the framework's    *)
(* thread), its NThreads persistent worker threads                         *)
(* (opDetDigitizerWorkerThread) and the two counting semaphores through    *)
(* which they synchronise.  Semaphore.tla refines the two semaphores to    *)
(* mutex, condition variable and wait loop; here increment and decrement   *)
(* are the atomic steps of CountingSemaphore.tla.                          *)
(*                                                                         *)
(* Data are abstracted to what the synchronisation can get wrong: a        *)
(* waveform is the number of the event whose photons it was digitized from *)
(* (0 is the NULL waveform), a triggered waveform is a pair                *)
(* <<channel, event>>.                                                     *)
(***************************************************************************)
EXTENDS Naturals, FiniteSets, ChannelPartition

CONSTANTS NThreads,               \* fNThreads, after autodetection
          NChannels,              \* nChannels == map.size()
          Configs,                \* the fhicl configurations considered
          FirstPMT,               \* fPMT_Channels[0]
          MaxEvents               \* bound: number of events of the job

ASSUME PoolAssumption ==
  /\ NThreads \in Nat \ {0}
  /\ NChannels \in Nat \ {0}
  /\ Configs \subseteq [ApplyTriggers : BOOLEAN, SelfTriggerPerChannel : BOOLEAN,
                        PairsListed : BOOLEAN]
  /\ FirstPMT \in 0 .. NChannels - 1
  /\ MaxEvents \in Nat

Workers  == 0 .. NThreads - 1
Channels == 0 .. NChannels - 1
NULL     == 0
Own(w)   == Prescribed(NChannels, NThreads, w)

VARIABLES
  fConfig,      \* the job's configuration, fixed once the module is built
  pp,           \* where the framework's thread is
  event,        \* number of calls of produce so far
  light,        \* channels with photons in the current event
  fSemStart, fSemFinish, fFinished,
  wpc,          \* where each worker thread is
  do_apply,     \* do_apply_trigger_locations, local to each worker thread
  fWaveforms,   \* per channel: NULL or the event it was digitized from
  found,        \* channels with an entry in fTriggerRangesPerChannel
  keys,         \* channels with an entry in fTriggerLocationsPerChannel
  times,        \* channels for which GetTriggerTimes is not empty
  fTriggered,   \* fTriggeredWaveforms[w]
  product,      \* the collection put in the event by the last produce
  died          \* "no", or what ended the process abnormally

semVars  == <<fSemStart, fSemFinish>>
algVars  == <<found, keys, times>>
mainVars == <<fConfig, pp, event, light, product>>
dataVars == <<fWaveforms, fTriggered>>
vars == <<mainVars, semVars, fFinished, wpc, do_apply, dataVars, algVars,
          died>>

Init ==
  /\ fConfig \in Configs
  /\ pp = "idle" /\ event = 0 /\ light = {} /\ product = {}
  /\ fSemStart = 0 /\ fSemFinish = 0 /\ fFinished = FALSE
  /\ wpc = [w \in Workers |-> "decrement"]
  /\ do_apply = [w \in Workers |-> FALSE]
  /\ fWaveforms = [ch \in Channels |-> NULL]
  /\ found = {} /\ keys = {} /\ times = {}
  /\ fTriggered = [w \in Workers |-> {}]
  /\ died = "no"

Alive == died = "no"
ApplyTriggers == fConfig.ApplyTriggers                 \* fApplyTriggers
SelfTriggerPerChannel == fConfig.SelfTriggerPerChannel \* of the trigger algorithm
PairsListed == fConfig.PairsListed    \* every channel of the pair lists is a PMT
Digitized == {ch \in Channels : fWaveforms[ch] # NULL}

-----------------------------------------------------------------------------
(* The framework's thread.                                                 *)

(* produce: a fresh fWaveforms, the event's photons, start the workers.    *)
BeginEvent ==
  /\ pp = "idle" /\ event < MaxEvents /\ Alive
  /\ event' = event + 1
  /\ light' \in SUBSET Channels
  /\ fWaveforms' = [ch \in Channels |-> NULL]
  /\ product' = {}
  /\ fSemStart' = fSemStart + NThreads
  /\ pp' = "wait1"
  /\ UNCHANGED <<fConfig, fSemFinish, fFinished, wpc, do_apply, fTriggered,
                 algVars, died>>

(* Mutants of Wait: waits for one worker only; forgets to test the count.  *)
WaitOne(from, to) ==
  /\ pp = from /\ Alive /\ fSemFinish >= 1
  /\ fSemFinish' = fSemFinish - 1
  /\ pp' = to
  /\ UNCHANGED <<fConfig, event, light, product, fSemStart, fFinished, wpc, do_apply,
                 dataVars, algVars, died>>
WaitUntested(from, to) ==
  /\ pp = from /\ Alive /\ fSemFinish >= 1
  /\ fSemFinish' = fSemFinish - NThreads
  /\ pp' = to
  /\ UNCHANGED <<fConfig, event, light, product, fSemStart, fFinished, wpc, do_apply,
                 dataVars, algVars, died>>

(* WaitopDetDigitizerWorkers: takes NThreads tokens at once.               *)
Wait(from, to) ==
  /\ pp = from /\ Alive
  /\ fSemFinish >= NThreads
  /\ fSemFinish' = fSemFinish - NThreads
  /\ pp' = to
  /\ UNCHANGED <<fConfig, event, light, product, fSemStart, fFinished, wpc, do_apply,
                 dataVars, algVars, died>>

WaitDigitized == Wait("wait1", "serial")
WaitApplied   == Wait("wait2", "collect")

(* fApplyTriggers is false: the event gets every waveform that is not NULL. *)
PutFull ==
  /\ pp = "serial" /\ ~ApplyTriggers /\ Alive
  /\ product' = {<<ch, fWaveforms[ch]>> : ch \in Digitized}
  /\ fWaveforms' = [ch \in Channels |-> NULL]
  /\ pp' = "idle"
  /\ UNCHANGED <<fConfig, event, light, semVars, fFinished, wpc, do_apply, fTriggered,
                 algVars, died>>

(* ConstructMonPulse throws when its pair lists name a channel that is not *)
(* a PMT: produce is left between its two rounds.                          *)
ThrowBetweenRounds ==
  /\ pp = "serial" /\ ApplyTriggers /\ ~PairsListed /\ Alive
  /\ pp' = "idle"
  /\ UNCHANGED <<fConfig, event, light, product, semVars, fFinished, wpc, do_apply,
                 dataVars, algVars, died>>

(* The paired sum of the PMTs is as long as the first PMT's waveform; when *)
(* that waveform is NULL the sum is empty and ConstructMonPulse reads      *)
(* through the null iterator that max_element returns.                     *)
EmptyMonPulse ==
  /\ pp = "serial" /\ ApplyTriggers /\ PairsListed /\ Alive
  /\ fWaveforms[FirstPMT] = NULL
  /\ died' = "empty_pulse"
  /\ UNCHANGED <<mainVars, semVars, fFinished, wpc, do_apply, dataVars,
                 algVars>>

(* FindTriggerLocations for every waveform that is not NULL enters its     *)
(* channel "no matter what"; MergeTriggerLocations makes the trigger times *)
(* of each channel (SelfTriggerPerChannel) or one list for all.  Which     *)
(* channels fire is left open.  Then the workers are started again.        *)
FindAndMerge ==
  /\ pp = "serial" /\ ApplyTriggers /\ PairsListed /\ Alive
  /\ fWaveforms[FirstPMT] # NULL
  /\ found' = found \cup Digitized
  /\ IF SelfTriggerPerChannel
     THEN /\ keys' = keys \cup found'
          /\ times' \in SUBSET found'
     ELSE /\ keys' = keys
          /\ times' \in IF found' = {} THEN {{}} ELSE {{}, Channels}
  /\ fSemStart' = fSemStart + NThreads
  /\ pp' = "wait2"
  /\ UNCHANGED <<fConfig, event, light, product, fSemFinish, fFinished, wpc, do_apply,
                 dataVars, died>>

(* A mutant of CollectTriggered: fTriggeredWaveforms is not cleaned up.    *)
CollectAndKeep ==
  /\ pp = "collect" /\ Alive
  /\ product' = UNION {fTriggered[w] : w \in Workers}
  /\ found' = {} /\ keys' = {} /\ times' = {}
  /\ fWaveforms' = [ch \in Channels |-> NULL]
  /\ pp' = "idle"
  /\ UNCHANGED <<fConfig, event, light, semVars, fFinished, wpc, do_apply, fTriggered,
                 died>>

(* Move the workers' triggered waveforms into the event, clear everything. *)
CollectTriggered ==
  /\ pp = "collect" /\ Alive
  /\ product' = UNION {fTriggered[w] : w \in Workers}
  /\ found' = {} /\ keys' = {} /\ times' = {}
  /\ fTriggered' = [w \in Workers |-> {}]
  /\ fWaveforms' = [ch \in Channels |-> NULL]
  /\ pp' = "idle"
  /\ UNCHANGED <<fConfig, event, light, semVars, fFinished, wpc, do_apply, died>>

(* A mutant of Destroy: wakes one worker.                                  *)
DestroyOne ==
  /\ pp = "idle" /\ Alive
  /\ fFinished' = TRUE
  /\ fSemStart' = fSemStart + 1
  /\ pp' = "join"
  /\ UNCHANGED <<fConfig, event, light, product, fSemFinish, wpc, do_apply, dataVars,
                 algVars, died>>

(* ~opDetDigitizerSBND: wake every worker with fFinished set, then join.   *)
Destroy ==
  /\ pp = "idle" /\ Alive
  /\ fFinished' = TRUE
  /\ fSemStart' = fSemStart + NThreads
  /\ pp' = "join"
  /\ UNCHANGED <<fConfig, event, light, product, fSemFinish, wpc, do_apply, dataVars,
                 algVars, died>>

Join ==
  /\ pp = "join" /\ Alive
  /\ \A w \in Workers : wpc[w] = "exited"
  /\ pp' = "gone"
  /\ UNCHANGED <<fConfig, event, light, product, semVars, fFinished, wpc, do_apply,
                 dataVars, algVars, died>>

FrameworkStep ==
  \/ BeginEvent \/ WaitDigitized \/ PutFull \/ ThrowBetweenRounds
  \/ EmptyMonPulse \/ FindAndMerge \/ WaitApplied \/ CollectTriggered
  \/ Destroy \/ Join

-----------------------------------------------------------------------------
(* A worker thread: opDetDigitizerWorkerThread.                            *)

At(w, from) == wpc[w] = from /\ Alive
Goto(w, to) == wpc' = [wpc EXCEPT ![w] = to]

(* sem_start.decrement()                                                   *)
TakeToken(w) ==
  /\ At(w, "decrement")
  /\ fSemStart >= 1
  /\ fSemStart' = fSemStart - 1
  /\ Goto(w, "check")
  /\ UNCHANGED <<mainVars, fSemFinish, fFinished, do_apply, dataVars, algVars,
                 died>>

(* A mutant of ChooseJob: does not look at finished.                       *)
ChooseJobBlind(w) ==
  /\ At(w, "check")
  /\ Goto(w, IF do_apply[w] THEN "apply" ELSE "digitize")
  /\ UNCHANGED <<mainVars, semVars, fFinished, do_apply, dataVars, algVars,
                 died>>

(* Leave the loop once finished is set; otherwise do_apply chooses the job. *)
ChooseJob(w) ==
  /\ At(w, "check")
  /\ Goto(w, IF fFinished THEN "exited"
             ELSE IF do_apply[w] THEN "apply" ELSE "digitize")
  /\ UNCHANGED <<mainVars, semVars, fFinished, do_apply, dataVars, algVars,
                 died>>

(* worker.Start: digitize the channels with photons among the prescribed.  *)
Digitize(w) ==
  /\ At(w, "digitize")
  /\ fWaveforms' = [ch \in Channels |->
                      IF ch \in Own(w) \cap light THEN event
                                                  ELSE fWaveforms[ch]]
  /\ do_apply' = [do_apply EXCEPT ![w] = ApplyTriggers]
  /\ Goto(w, "increment")
  /\ UNCHANGED <<mainVars, semVars, fFinished, fTriggered, algVars, died>>

(* A mutant of Apply: do_apply is not reset.                               *)
ApplySticky(w) ==
  /\ At(w, "apply")
  /\ fTriggered' = [fTriggered EXCEPT ![w] =
                      {<<ch, fWaveforms[ch]>> : ch \in Own(w) \cap Digitized \cap times}]
  /\ Goto(w, "increment")
  /\ UNCHANGED <<mainVars, semVars, fFinished, do_apply, fWaveforms, algVars,
                 died>>

(* worker.ApplyTriggerLocations: the triggered waveforms of the prescribed *)
(* channels that are not NULL.  GetTriggerTimes is a map lookup with at(), *)
(* whose exception no one catches on a worker thread.                      *)
Apply(w) ==
  /\ At(w, "apply")
  /\ IF SelfTriggerPerChannel => Own(w) \cap Digitized \subseteq keys
     THEN /\ fTriggered' =
               [fTriggered EXCEPT ![w] =
                  {<<ch, fWaveforms[ch]>> : ch \in Own(w) \cap Digitized \cap times}]
          /\ do_apply' = [do_apply EXCEPT ![w] = FALSE]
          /\ Goto(w, "increment")
          /\ died' = died
     ELSE /\ died' = "out_of_range"
          /\ UNCHANGED <<fTriggered, do_apply, wpc>>
  /\ UNCHANGED <<mainVars, semVars, fFinished, fWaveforms, algVars>>

(* A mutant of GiveToken: the worker goes back without a finish token.     *)
GiveNothing(w) ==
  /\ At(w, "increment")
  /\ Goto(w, "decrement")
  /\ UNCHANGED <<mainVars, semVars, fFinished, do_apply, dataVars, algVars,
                 died>>

(* sem_finish.increment()                                                  *)
GiveToken(w) ==
  /\ At(w, "increment")
  /\ fSemFinish' = fSemFinish + 1
  /\ Goto(w, "decrement")
  /\ UNCHANGED <<mainVars, fSemStart, fFinished, do_apply, dataVars, algVars,
                 died>>

WorkerStep(w) == \/ TakeToken(w) \/ ChooseJob(w) \/ Digitize(w) \/ Apply(w)
                 \/ GiveToken(w)

(* The process is gone, in order or not.                                   *)
Ended == (pp = "gone" \/ ~Alive) /\ UNCHANGED vars

Next == FrameworkStep \/ (\E w \in Workers : WorkerStep(w)) \/ Ended

Spec == Init /\ [][Next]_vars

(* Every thread is scheduled again and again; the framework may stop       *)
(* feeding events only by destroying the module.                           *)
FairSpec == /\ Spec
            /\ WF_vars(FrameworkStep)
            /\ \A w \in Workers : WF_vars(WorkerStep(w))

-----------------------------------------------------------------------------
(* Properties.                                                             *)

Busy == {w \in Workers : wpc[w] \in {"check", "digitize", "apply", "increment"}}
Exited == {w \in Workers : wpc[w] = "exited"}

(* Types of the state; wpc and pp range over the program points above.     *)
TypeOK ==
  /\ fConfig \in Configs
  /\ pp \in {"idle", "wait1", "serial", "wait2", "collect", "join", "gone"}
  /\ event \in 0 .. MaxEvents
  /\ light \subseteq Channels
  /\ fSemStart \in Nat /\ fSemFinish \in Nat
  /\ fFinished \in BOOLEAN
  /\ wpc \in [Workers -> {"decrement", "check", "digitize", "apply",
                          "increment", "exited"}]
  /\ do_apply \in [Workers -> BOOLEAN]
  /\ fWaveforms \in [Channels -> 0 .. MaxEvents]
  /\ found \subseteq Channels /\ keys \subseteq Channels /\ times \subseteq Channels
  /\ fTriggered \in [Workers -> SUBSET (Channels \X (1 .. MaxEvents))]
  /\ product \subseteq Channels \X (1 .. MaxEvents)
  /\ died \in {"no", "out_of_range", "empty_pulse"}

(* A round hands out NThreads tokens and each comes back as exactly one    *)
(* finish token, whoever took it: no token is lost, duplicated or left     *)
(* over for the next round, and at teardown each worker still in its loop  *)
(* has a token that will let it leave.                                     *)
TokenConservation ==
  LET outstanding == fSemStart + Cardinality(Busy) + fSemFinish
  IN  CASE pp \in {"wait1", "wait2"} -> outstanding = NThreads
        [] pp \in {"join", "gone"} -> outstanding + Cardinality(Exited) = NThreads
        [] OTHER -> outstanding = 0

(* While produce runs outside WaitopDetDigitizerWorkers every worker is    *)
(* blocked: produce resets fWaveforms, runs the trigger algorithm and      *)
(* moves fTriggeredWaveforms without holding any lock, and only this keeps *)
(* the workers from reading or writing them at the same time.              *)
ProduceAlone ==
  pp \in {"idle", "serial", "collect"} =>
    \A w \in Workers : wpc[w] = "decrement"

(* No worker starts or has a job once the destructor has set fFinished.    *)
NoJobAtTeardown ==
  fFinished => \A w \in Workers : wpc[w] \in {"decrement", "check", "exited"}

(* Every triggered waveform put in the event was digitized from this       *)
(* event's photons, although the pool's threads, flags and vectors persist *)
(* from event to event and rounds may be cut short by an exception.        *)
ProductSound ==
  product \subseteq light \X {event}

(* A round does what produce started it for: after the first every channel *)
(* with photons is digitized, after the second every triggered one of them *)
(* is in some worker's vector.                                             *)
RoundsComplete ==
  Alive => /\ pp = "serial" => Digitized = light
           /\ pp = "collect" =>
                UNION {fTriggered[w] : w \in Workers} = (light \cap times) \X {event}

(* The channels a worker applies triggers to have been through             *)
(* FindTriggerLocations and MergeTriggerLocations: at() finds its key.     *)
TriggersFoundFirst == died # "out_of_range"

(* With one thread both hold: the one worker takes the tokens in turn.     *)
RoundsInOrder == RoundsComplete /\ TriggersFoundFirst

(* produce returns (or the process dies): no event waits for ever.         *)
EventEnds == pp \in {"wait1", "serial", "wait2", "collect"} ~> (pp = "idle" \/ ~Alive)

(* The destructor's join returns: every worker thread leaves its loop.     *)
TeardownEnds == <>(pp = "gone" \/ ~Alive)

(* Seen from produce and the destructor the pool forks NThreads jobs and   *)
(* rejoins when they are done, and runs none outside a round.              *)
FJ == INSTANCE ForkJoin WITH
        stage   <- CASE pp \in {"wait1", "wait2"} -> "working"
                     [] pp \in {"join", "gone"} -> "down"
                     [] OTHER -> "alone",
        pending <- IF pp \in {"wait1", "wait2"} THEN NThreads - fSemFinish
                                                ELSE 0
ForksAndJoins == FJ!FJSpec
=============================================================================
