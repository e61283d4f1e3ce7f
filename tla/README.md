# Verification of sbndcode

TLA+ models, model-checking configurations and machine-checked proofs for the
event-processing core of `sbndcode`, the simulation and reconstruction code of
the SBND liquid-argon experiment. Paths below are relative to
`src/sbndcode/`.

Contents: 1 the system, 2 what makes it hard, 3 modules and how they correspond
to the code, 4 runs and bounds, 5 fairness, 6 theorems, 7 findings,
8 abstractions, 9 not modelled, 10 plan, 11 how to run it.

## 1. The system

The code is a set of *art* modules. The framework calls the `produce` method of
each module of a job once per event, in the order of the job's configuration and
on one thread; modules hand on their products through the event and keep
whatever they keep in member variables, which outlive the event. Only the
optical digitizer has threads of its own.

| Component | State | Operations | Talks to |
|---|---|---|---|
| Optical digitizer worker pool (`OpDetSim/opDetDigitizerSBND_module.cc`, `opDetDigitizerWorker.*`) | two counting semaphores, `fFinished`, the vector of waveforms, a vector of triggered waveforms per worker, a `do_apply` flag on each worker's stack | `produce` (start, wait, trigger, start, wait, collect), destructor, worker loop | the trigger algorithm and the trigger emulation on `produce`'s thread, `GetTriggerTimes` of the algorithm on the workers' threads |
| Optical trigger algorithm (`OpDetSim/opDetSBNDTriggerAlg.*`) | ranges and times per channel, global times | `FindTriggerLocations`, `MergeTriggerLocations`, `ApplyTriggerLocations`, `ClearTriggerLocations` | called by the pool |
| Trigger emulation (`OpDetSim/TriggerEmulationService.*`) | pair lists | `ConstructMonPulse` | called by the pool between its rounds, and by the PMT decoder for each flash |
| PMT decoder (`Decoders/PMT/SBNDPMTDecoder_module.cc`) | the fragments per board of one event | `produce` | fragments and FrameShift in; waveforms, monitor pulses out |
| XARAPUCA decoder (`Decoders/XARAPUCA/SBNDXARAPUCADecoder_module.cc`) | loop variables of one event; `factive_timing_frame`, which outlives it | `produce`, `decode_fragment` | fragments and FrameShift in; waveforms out |
| PMT software trigger (`Trigger/PMTSoftware/PMTMetricProducer_module.cc`) | `fWvfmPostPercent`, `fWindowStart`, which outlive the event | `produce` | DAQ header, TDC, PTB and fragments in; metrics out |
| Timing: FrameShift (`Timing/FrameShift/`) | the event's stamps and words, in members | `produce`, `ResetEventVars` | DAQ header, TDC and PTB in; the frame of the decoders and of the CRT out |
| CRT simulation (`CRT/CRTSimulation/`) | strips per tagger, FEB data of the event | `ClearTaggers`, `FillTaggers`, `CreateData`, `ProcessStrips` | FEB data, and the deposits they come of |
| CRT strip hits, clusters, space points (`CRT/CRTReco/`) | none between events | `produce` of each | FEB data and frames in; hits, clusters, space points out |
| CRT veto, blobs, tracks (`CRT/CRTVeto/`, `CRT/CRTReco/`) | none | `produce` of each | space points in; flags, blobs, tracks out |
| Flash finder (`OpDetReco/OpFlash/FlashFinder/SimpleFlashAlgo.*`) | static vectors of bins, shared by the instances | `RecoFlash`, `Veto` | hits of one TPC in, flashes out |
| Other decoders (`Decoders/`) | none | `produce` of each | fragments in, products out |
| Everything else (TPC simulation, light, calibration, channel maps, analysis, filters, geometry) | tables and histograms | numerical, lookups, output | products of the above |

`PROJECT.json` lists every component with its files and, for one that is not
modelled, the reason.

### What makes each part correct

- *Worker pool*: a round ends when its work is done and leaves no token; while
  `produce` uses the shared vectors no worker does; what goes into an event was
  made of that event, although flags and vectors persist and an exception may
  leave `produce` between its rounds; events and the teardown end.
- *Trigger algorithm*: live pulses are found and no trigger falls in a holdoff;
  the beam trigger is sent; a global trigger is a coincidence; readouts are
  disjoint, cover the triggers' windows, and have the size they should have.
- *PMT decoder, trigger emulation*: a waveform is what one trigger recorded, on
  one time axis; a pulse counts the pairs that fired in one flash; slices keep
  the samples around every rise.
- *XARAPUCA decoder*: no sample is lost or put twice, what belongs together is
  one waveform, its time is that of its trigger.
- *Software trigger*: the metrics are of the event's own trigger, and the flash
  is where it was.
- *FrameShift*: the frames are those of the event and not of a neighbour.
- *CRT*: a deposit is read out once at most and only with a trigger; times are
  relative to the reference, also over the end of a second; clusters keep
  together what belongs together; a crossing particle becomes a space point;
  flags have readouts behind them; blobs and tracks share no points, and what is
  left out gave way to something better.
- *Flash finder*: no bin belongs to two flashes; a flash has the hits in its
  window, of this event and TPC; a coincidence that makes no flash gave way to a
  brighter one.

## 2. What makes it hard

`PROJECT.json` lists the hazards, each at its line with the properties that
would catch it. In short:

- *Interleaving* is confined to the pool, but there it is everything: start
  tokens are not bound to workers, and the vectors have no lock.
- *State that outlives its step*: `do_apply` and the triggered waveforms after
  an exception, `t_deadtime` in the trigger algorithm, the boards in dead time
  that a new CRT trigger forgets, the static bins of the flash finder, the
  timing frame of the XARAPUCA decoder, the fractions of the software trigger,
  twenty members of FrameShift.
- *Seconds*: the tags of the digitizers, the CRT's counters and the reference
  times start from 0 in every second, and each module corrects for it in its own
  way: windows, sums, differences and sentinels each go wrong at other places.
- *Neighbours and losses*: the timing system's record holds stamps and words of
  other events, and may lack the event's own; a board may lack a fragment that
  the others have.
- *Order*: triggers inserted when they close, strips at equal times, greedy
  claims of flashes, blobs and tracks, windows opened by the earliest hit, a
  comparison that is no order.
- *Edges*: last samples of a scan, ends of windows, unsigned subtraction.
- Nothing is persisted and nothing is sent over a network: crashes, recovery and
  message loss do not occur, only records that are incomplete.

## 3. Modules

| Module | Models | Instance |
|---|---|---|
| `Semaphore` | `Semaphore::increment/decrement` with mutex, condition variable, spurious wakeups | `MCSemaphore` |
| `CountingSemaphore` | abstract: both are one atomic step | refined by `Semaphore` |
| `DigiPool` | `produce`, destructor and worker threads over atomic semaphores | `MCDigiPool` |
| `ForkJoin` | abstract: what `produce` expects of start and wait | refined by `DigiPool` |
| `ChannelPartition` | the arithmetic that gives each worker its channels | in `DigiPool` |
| `TriggerState`, `TriggerFind`, `TriggerMerge`, `TriggerApply` | members and three operations of the trigger algorithm | |
| `TriggerAlg` | the operations in the order of `produce`, event after event | `MCTriggerAlg` |
| `MonPulse` | the trigger emulation's pulse, and the digitizer's slices, as operators | |
| `PMTDecoder` | the PMT decoder's loops over fragments | |
| `PMTChain` | the pulse in its two users: decoder with its flashes, digitizer with its slices | `MCPMTChain` |
| `XArapucaDecoder` | the XARAPUCA decoder, event after event | `MCXArapuca` |
| `PMTMetric` | the software trigger, event after event | `MCPMTMetric` |
| `FrameShift` | the choice of the event's frames | |
| `CRTState`, `CRTDetSim`, `CRTStripHits`, `CRTClusters` | geometry and products, simulation, strip hits, clusters and space points | |
| `CRTVeto`, `CRTObjects` | flags; blobs and tracks | |
| `CRTChain` | the modules in the order of the jobs, simulated or data with FrameShift, event after event | `MCCRTChain` |
| `SimpleFlash` | `RecoFlash` of several instances over several calls | `MCSimpleFlash` |
| `Selections` | the elements of a sequence with a property (`Selected`), and a set in an order (`InOrder`), written so that they can be proved about | in `FrameShift`, `CRTDetSim`, `CRTObjects`, `MonPulse`, `PMTDecoder`, `PMTChain`, `TriggerMerge`, `XArapucaDecoder` |
| `SemaphoreProof`, `DigiPoolProof`, `SimpleFlashProof`, `TriggerProof`, `CRTProof`, `XArapucaProof`, `PMTProof` | theorems (section 6) | |
| `FoldLemmas` | lemmas about sums, folds, concatenations and selections | in the proofs |

Some modules hold, just before a definition, a variant of it with a mistake in
it, named for the mistake (`NotifyOne` before `NotifyAll`) and used by no
specification. Each property is known to fail when such a variant takes the
definition's place; the pairs are in `PROJECT.json` under "mutants", the source
lines of every definition under "map".

### State and actions against the code

**Worker pool.** `pp` is the place of the framework's thread: `idle` between
events, `wait1`/`wait2` in `WaitopDetDigitizerWorkers`, `serial` between the
rounds, `collect` after the second, `join` in the destructor. `wpc[w]` is the
place of a worker in `opDetDigitizerWorkerThread`: `decrement` (blocked on
`sem_start`), `check` (reads `fFinished`), `digitize` or `apply` (as `do_apply`
says), `increment`. `BeginEvent` is the head of `produce`; `FindAndMerge`,
`ThrowBetweenRounds`, `EmptyMonPulse` and `PutFull` are the ways out of the part
between the rounds; `CollectTriggered` the end. `Digitize`/`Apply` are one step
each, which is sound because workers write disjoint channels (`BlocksPartition`)
and `produce` is then in a wait (`ProduceIsAlone`). A waveform is the number of
the event it was digitized from. That an exception at `GetTriggerTimes` (`at()`
on a missing key) ends the process, and that an empty monitor pulse is read
through a null iterator, are outcomes (`died`).

**Semaphore.** One action per step under the mutex. `Wait` releases the mutex
and starts to wait in one step, as `condition_variable::wait` does;
`SpuriousWakeup` may end a wait at any time.

**Trigger algorithm.** One `Sample` step is an iteration of the loop of
`FindTriggerLocations`, one `MergeOne` an iteration over the primitives, one
`ReadSample` an iteration of `ApplyTriggerLocations`. One channel is followed
sample by sample, its values chosen as the scan reads them (below, at or above
the threshold); other channels enter with ranges a scan may have found. A
readout is the sequence of the indices of its samples, which shows what was
saved, saved twice or lost.

**PMT decoder and trigger emulation.** `GetFragments` is `produce` up to the
sorting by board, `NoFragments` and `NoFrameShift` its early ways out;
`DecodeTrigger` or `SkipExtension` is an iteration over the fragments of a
board, the inner search for extensions included (`LastExtension`), `NextBoard`
one over the boards. `ConstructFlash` is one turn of the loop over flashes, which
calls `ConstructMonPulse` of the service (`DataMonPulse`). `ConstructMonPulse`
and `SliceWaveforms` of `PMTChain` are the digitizer's two calls between the
rounds of the pool (`SimMonPulse`, `findInterestIntervals`); `DigiPool` has them
as one step. A sample is the time it was taken at, on an axis over all seconds
that the code does not know; that is how the properties say what was lost,
doubled or put elsewhere. What a read past the end of a shorter waveform finds
is free; a read through the null iterator of a missing waveform is the outcome
`null_read`.

**XARAPUCA decoder.** `BeginEvent` is `produce` up to the loops, with the frame;
`DecodeFragment`, `DecodeAlone` and `SkipInvalid` are `decode_fragment` with and
without combination, and for a fragment that is not valid. `NextEvent` keeps the
one member that survives.

**Software trigger.** `FindReference` is `produce` up to the reference time,
`FindTrigger` the first container's search for the trigger, `ReadContainer` one
turn for a board's waveforms, `Measure` the sum and the metrics.

**CRT.** In data, `ReadTiming`, `UnpackTiming` and `ShiftFrames` are what the
timing system recorded and `FrameShift::produce` up to and after its
timestamps; the record carries the event's true times in a field (`own`) that
only `FrameIsOwn` reads. `ReadEvent` puts the detector's readouts in the event.
In simulation `FillTaggers` is the call for one deposit, `LookAtStrip` an
iteration of the loop of `CreateData` (strips at equal times in any order, as
the sort leaves them), `EndTagger` the flush at the end of a tagger,
`ProcessStrips` an operator. `ProduceStripHits` or the exception
`UnixTimestampsDiffer` is `CRTStripHitProducer::produce`; `CreateCluster` one
window of `CreateClusters` and its split; `ProduceSpacePoints`, `ProduceVeto`,
`ProduceBlobs` and `ProduceTracks` a module each. The points of an event are taken in the order of time, those at equal times
in any order; points of a masked tagger are left out of tracks. `std::sort` of the
candidates is modelled as what libstdc++ does with up to 16 elements, an insertion
sort, because the order that blobs are sorted by is not one: what is shown of blobs
holds for up to 16 points, what is shown of tracks does not depend on it but for ties.

**Flash finder.** `FillBins` is `RecoFlash` up to the map of candidates, `Claim`
one turn of its loop, `Construct` the rest. `bins` are the static vectors: they
only grow, and are shared by the instances; `pesum` is the part of `_pesum_v`
the call uses.

## 4. Runs

Every run explores all reachable states of its instance.

| Run | Question | Bounds, and why they are enough |
|---|---|---|
| `MCSemaphore` | is the semaphore an atomic counting semaphore (`FairAtomicSemaphore`), is a wakeup ever lost (`NoLostWakeup`)? | 3 threads, amounts 1 and 2, count at most 3: two waiters of different needs and an incrementer, so that notifying one, or the wrong one, matters |
| `pool_one` | with the default of one thread, is each round what it is meant to be (`RoundsInOrder`)? | 3 channels, 3 events: what an event leaves can meet the next two |
| `pool_many` | tokens, isolation, soundness of products, refinement of fork-join, ends of events and of teardown | 3 threads, 3 channels, 2 events, all configurations, an exception between the rounds: a worker can take two tokens, another none, and flags left from event one act in event two |
| `pool_stolen_token` | is a round complete with several threads? No (finding) | the same module with two threads |
| `trigger` | find, merge, apply and their sequence over events | 14 samples, 6 or 7 in the enable window (all `3^n` patterns), six configurations: equal windows without holdoff as shipped, both holdoffs with uniform readouts, global, an enable window that opens before the waveform, one that outlasts it, one that misses it; readouts of 3 to 4 samples, so that readouts meet, overlap and run into the end |
| `trigger_no_coincidence` | finding | the same instance |
| `crt` | 10 invariants from the timing record, deposit or readout to veto, blob and track | 10 strips on 9 boards: a bottom, a south and two top taggers; up to 3 deposits at times around the window (3), the dead time (6) and both together; up to 2 readouts at 9 times around the end of a second of 16; one or none per board in the tops; chains of 6 space points of one tagger with all gaps up to the time requirement (blobs that overlap twice); bottom, low and high top together (triples); timing records with the own stamp, a neighbour's, both or none of every kind, for three streams and an unknown one; events follow one another |
| `crt_etrig_window` | finding | the same instance |
| `flash` | windows, hits and PE of flashes | up to 4 bursts of 4 sizes in any of ten bins: windows of 8 bins reach one another from both sides and twice; two calls in turns of two TPCs on events of different lengths show what shared bins keep |
| `pmt` | waveforms, times, flashes and pulses of the decoder; pulse and slices of the digitizer | two boards and the timing board, nominal length 3, a trigger with up to two extensions ending at each of 19 times around the end of a second of 40 ns, a second trigger at once or after a pause, a fragment lost, six references, boards ignored; simulation: all `2^9` courses of one channel against every state of the others, all `3^9` with samples at the threshold, waveforms missing |
| `xarapuca` | samples and times | two boards, a nominal or short fragment ending at each of eight times around the second's end with two fragments after gaps of 0 to 5 (jitter 1), boards in containers or together, invalid boards alone and last in a list, every order of events with and without a frame |
| `metric` | which trigger is measured and where its flash is | three boards (one ignored), one to three triggers, apart or making extensions, boards missing or lacking their first or last fragment, tags shifted or not, every source of the reference with several ETRIGs and a wrapping raw time, a reference nearer to one of two triggers by less than their rounding; five configurations; events follow one another. Numbers have 6 bits: times from 128 ns on in a second of 160 are rounded to 4 ns, so that the wrong trigger is taken, and the window starts at bin 1 of 6 instead of 2, as with 24 bits at 999 of 5000 |

`CHECK_DEADLOCK FALSE` is used only in `flash`, where the number of calls is
bounded. The pool's end and the end of `PMTChain`'s one event are explicit steps
(`Ended`), so that a deadlock there would be reported.

What the less obvious properties say:

- `TokenConservation`: start tokens, busy workers and finish tokens add up to
  `NThreads` in a round and to 0 outside one; during teardown, with those that
  left, to `NThreads` again.
- `ProductSound`: a product of event *e* has only waveforms of *e*'s photons. It
  holds although a worker may do the wrong job: the vectors of waveforms are
  fresh in each event, and an apply job done in the first round finds no trigger
  times and leaves its vector of triggered waveforms empty.
- `RoundsInOrder` is `RoundsComplete` (a round's work is done when its wait ends)
  and `TriggersFoundFirst` (no job looks for triggers that were not sought); with
  several threads neither holds.
- `TriggersSound` combines the order of triggers, their holdoffs, the beam
  trigger, the first coincidence of a global trigger, and that none is of another
  event. `PulsesFound` is its other side: a live pulse above threshold starts a
  trigger, unless it is open at the end of the scan, whose last two samples
  close none.
- `ReadoutsSound`: readouts are disjoint, of uniform size and triggered; and where
  windows are equal and readouts may grow, a sample in a window is in a readout
  *returned* exactly if the loop comes to a later sample that is in no window
  (`EndsInTime`). A readout still in progress when the loop ends, a readout's
  length before the end of the waveform, is dropped with all its windows, whether
  or not it is full. Trigger times are distinct: with two at one time the scan ahead
  finds the second, whose window is over already, and the readout is split at the
  cost of a sample.
  `PulsesReadOut` says the same of each pulse, over scan, merge and cut.
- `DeadTimeEndedByOthers` states exactly how far the CRT's dead time holds: two
  readouts of a board within it have another board's coincidence between them.
- `CrossingReconstructed` goes from two deposits to their space point, with the
  conditions on quiet time and on hidden hits the code needs.
- `OverlappingTogether` says when two hits that belong together are parted: an earlier
  hit must have opened a window that holds the first and ends before the second.
- `FrameIsOwn`: the frames are the event's own, with the exact exceptions: an RWM
  was recorded but the event's own, or its trigger, was not; or the PTB is asked
  and its last gate word is a neighbour's (the comment at
  `Timing/FrameShift/FrameShift_module.cc` 236-239 speaks of the closest; the
  code takes the last). What the last event left never matters.
- `VetoHasReadouts` goes from the flags back to pairs of readouts, on the true
  time axis: a flag needs one pair not after and one not before the window. A
  pair alone in its tagger raises its wall's flags.
- `BlobsAccounted`, `TracksAccounted`: what was left out gave way to an
  overlapping candidate that was no worse. The blobs' comparison of errors is not
  an order, because the error of a lone point is not a number; the property
  shows that, as libstdc++ sorts, it does no harm up to 16 candidates: the
  instance has up to six.
- `CandidatesAccounted`: every coincidence that would make a flash is one, is in
  the veto of one no dimmer, or runs into one no dimmer.
- `WaveformsOfTriggers`: whatever fragments were lost, a waveform begins with its
  trigger and has samples of no other; with nothing lost it has all of them up to
  a fragment that is not recognised. The exact condition of the latter is that
  what ends in the last two nominal lengths of a second is extended only by what
  ends in the next.
- `TimesAreRelative` excludes a reference at the start of a second: 0 stands for
  "no reference", and times are then not corrected over the second's end.
- `FlashIsTrigger`: stepping through the vector at the distance of complete
  boards finds the triggers if no board lost one; the pulse of a flash counts the
  pairs that fired in it and no others.
- `PulseCountsPairs` bounds a pulse from both sides: it does not count a pair
  that has not crossed the threshold in the last samples, and counts a crossing
  at once. A sample exactly at the threshold hides a crossing, as in the code.
- `SlicesCover`: around each rise all samples are in a slice but the waveform's
  last; slices are apart, unless they end at its end or both begin at its start.
- `SamplesCombined`, `WaveformTimes`: samples come out once and in order, but for
  what a list that ends with a fragment of an unknown board leaves behind, and the
  waveforms begin where they must, with the exact error of `TTT_dif` over a
  second's end; without a frame times are within the second, except after an
  event that had one, when they are absolute (`factive_timing_frame` is not set
  back).
- `TriggerOfReference`: the trigger is the closest one to the reference, and its
  time is that of the waveform. Boards that shift their time tag give it exactly.
  For others it is computed in single precision (line 758): exact up to 2^24 ns
  of a second, off by half of the spacing of such numbers later (32 ns from 2^29 ns
  on); the choice is closest up to these errors. The ETRIG, which a comment
  (line 285) calls the closest, may instead be one before the raw time that was
  recorded earlier, because the kept difference is signed; the property says which
  (`EtrigTaken`).
- `PeakIsTheFlash`: no event is thrown away while the boards agree, and the fractions
  keep their values without extensions. A flash is seen exactly if a board was read
  for a fragment that holds it, and its time is from the trigger of that fragment:
  of the trigger chosen, or of another one where a board lost a fragment. The
  trigger's place in the waveform (`TriggerFromEnd`) is right unless the last
  fraction believed is an extension's; then it is off by the difference of the
  fractions of a full waveform. The prompt window is exact to the sample: it opens
  one sample early until a board has shifted a time tag, since `1 - 0.8` in single
  precision is less than 0.2 and the bin is truncated (line 444), and from then on
  where it should, since the test of line 751 never holds again.

## 5. Fairness

- *Semaphore*: strong fairness of `Proceed(t)`, the steps a thread takes by
  itself: the operating system schedules it, and a mutex that is free again and
  again is got in the end. Weak fairness would not do: a thread may find the
  mutex taken each time it runs. Nothing is assumed of calls (`Enter`) or of
  spurious wakeups.
- *Pool*: weak fairness of the framework's thread and of each worker: every
  thread is scheduled. The framework goes from event to event and in the end
  destroys the module; that the number of events is bounded (`MaxEvents`) is
  what lets `TeardownEnds` be stated as `<>`. Fairness between the callers of
  one semaphore is not assumed: a worker may take the token another waits for,
  and does.
- The other specifications state safety only; their loops are bounded by the
  data.

## 6. Theorems

All are proved by TLAPS for every value of the constants that satisfies the
named assumptions of the modules, and the hypotheses named in the theorem.

| Theorem | States | Argument |
|---|---|---|
| `TypeCorrect` (`DigiPoolProof`) | `Spec => []TypeOK` | inductive |
| `TokensConserved`, `ProduceIsAlone`, `TeardownIsClean` | the pool's synchronisation, for any number of threads, channels and events | from `PoolInv`, below |
| `PoolForksAndJoins` | `Spec => ForksAndJoins` | every step maps to a step of `ForkJoin` or a stutter; the number of pending jobs is `NThreads - fSemFinish` in a round, which only `GiveToken` and `Wait` change |
| `ProductsAreSound` | `Spec => []ProductSound` | `DataInv`: waveforms are NULL or of the current event's photons, and so are the workers' vectors; until the triggers of the event are found no channel has trigger times and the workers' vectors are empty, so that a job done in the wrong round leaves nothing for a later event |
| `OneWorkerKeepsRounds` | `OneWorker` implies `Spec => []RoundsInOrder` | `RoundInv`: the place of the one worker, its `do_apply` flag and the tokens say what of the round is done; with the finding `pool_stolen_token` the theorem draws the line between the default of one thread and several |
| `SemTypeCorrect`, `WakeupsAreNotLost`, `ImplementsCountingSemaphore` (`SemaphoreProof`) | the semaphore's safety and its refinement | `SemInv`: types, each thread's call matches its place, no lost wakeup |
| `BlocksPartition` (`DigiPoolProof`) | every channel is in the block of exactly one worker | each block starts where the one before ends, and the last ends at the number of channels; division with remainder, first blocks one longer |
| `TriggersAreSound`, `PulsesAreFound` (`TriggerProof`) | `ShortHoldoff` implies `[]TriggersSound` and `[]PulsesFound`, for waveforms of any length | `ScanInv`, `MergeInv`, below |
| `TypesAreKept`, `ReadoutsAreApart` | the algorithm's types; readouts are runs of samples that share none, those packaged of the size of a window | `CutTyped`, no hypothesis |
| `ReadoutsAreSound` | `WholeWindows` implies `[]ReadoutsSound`: also which windows are returned, and which are lost at the end of the loop | `CutSized`, `CutCovers`, below |
| `PulsesAreReadOut` | `ShortHoldoff`, `ReadsAfter` imply `[]PulsesReadOut`: from the pulse to the readout returned, or dropped, over find, merge and apply | the scan's and the cut's invariants together |
| `ReadoutsAreOnce`, `DeadTimeHolds` (`CRTProof`) | a deposit is read out once, for every geometry and all thresholds; how far the dead time holds | `SimInv`, below |
| `TimesAreRelative` | `OneFrame` implies `[]TimeIsRelative` | `HitsTimed`: a difference within half a second is corrected to the true one |
| `OverlapsAreTogether` | `Spec => []OverlappingTogether`, for any number of hits | `ClusterInv`, below |
| `BlobsAreAccounted` | `Spec => []BlobsAccounted`, for points at any times | `ProductInv`, `BlobInv`; the sort by no order, below |
| `TracksAreAccounted` | `LightTravels` implies `[]TracksAccounted` | `ProductInv`, `TrackInv`, below |
| `ChainIsTyped` | `PedestalBelow` implies `[]ChainTypeOK`: what each module hands on is what the next takes, and no charge is above the saturation | `ProductInv`, `ChargeInv`: `AddADC` cuts to 16 bits and then to the saturation, whatever came before |
| `FramesAreOwn` | `NeighboursApart` implies `[]FrameIsOwn`: the frames are of the event itself, but for the three ways in which the gate is not | `FrameInv`: while its frames are kept, so are the record they were found in and what was unpacked of it, and nothing of the last event's is among it; then what is closest is the event's own (`OwnFound`, `OwnCode`), and the word that counts is the last (`LastWord`) |
| `VetoIsOfReadouts` | `HitsReferenced` implies `[]VetoHasReadouts`: flags are raised by pairs of strips' readouts in the window, and those of a pair that is alone are raised | `VetoInv`, below |
| `CrossingsAreReconstructed` | `PlainSimulation` implies `[]CrossingReconstructed`: from two deposits on crossing strips, through trigger, dead time, charges, strip hits and clusters, to one space point, whatever else is deposited | `CrossInv`, below |
| `FlashesAreDisjoint` (`SimpleFlashProof`) | `Spec => []WindowsDisjoint` | `FlashInv`, below |
| `CandidatesAreAccounted` | `Spec => []CandidatesAccounted` | `ClaimedInv`: the loop takes the brightest, so what blocks a candidate was claimed before it and is no dimmer |
| `WindowsAreAsClaimed` | `AsShipped` implies `[]WindowsAsClaimed` | a window shortened for a flash ends behind its own peak |
| `FlashesHaveTheirHits` | `Spec => []FlashOfItsHits` | `BinsInv`: the bins are empty or hold exactly the hits of the call at hand, although they are shared and never shrink; the sums over bins and channels are sums over hits (`FoldLemmas`) |
| `SamplesAreCombined`, `TimesAreOfTriggers` (`XArapucaProof`) | samples come out once and in order, what belongs together in one waveform, with the time of its trigger | `XaInv`, below |
| `PulsesCountPairs` (`PMTProof`) | `Spec => []PulseCountsPairs`, for waveforms of any length | `SimulationInv`; the fold over the pairs is a number of pairs |
| `SlicesAreCut` | `LongWaveforms` implies `[]SlicesCover`, for pulses of any shape | `Slices` one interval after the other, each made longer or followed by one that begins behind it |
| `TimesAreDistances` | `Spec => []TimesAreRelative`, for complete readouts and others | `TimeDiff` is the true distance where the two are within the allowed difference |
| `WaveformsAreOfTriggers` | `Spec => []WaveformsOfTriggers`, whatever fragments were lost | `DecodeInv`, below |
| `FlashesAreTriggers` | `Spec => []FlashIsTrigger`, for any number of boards, channels and triggers | `LayoutInv`, `FlashInv`, below |

*The pool's invariant.* `TokenConservation` alone is not inductive: `produce`
leaving a wait needs that a count of `NThreads` finish tokens means that no one
else holds any, and teardown needs that no worker can have left its loop before.
`PoolInv` is the conjunction of `TypeOK`, `TokenConservation`,
`NoJobAtTeardown`, "`fFinished` holds exactly in the destructor" and "no worker
has exited before it". `ProduceAlone` follows: outside the waits the sum is 0,
so no worker is busy, and none has exited.

*The trigger's invariants.* `ScanInv` relates `t_since_last_trigger` and
`t_deadtime`, which the scan keeps, to the trigger found latest of either kind
(`Latest`), and each range found to the samples it was found on
(`FoundOnSamples`): a range starts where the samples rise above the threshold
and lasts as long as they stay. Holdoffs and pulses follow from these, not from
one another. `MergeInv` says of the primitives kept that they are those that
overlap the one at hand, and that no coincidence was passed over. The cut's
invariants come in layers: readouts are runs of consecutive samples, apart and
before the sample at hand (`CutTyped`); each has the size of a trigger in whose
window it begins, so that distinct readouts have distinct triggers (`CutSized`);
and every sample passed that lies in a window is in a readout, because the
trigger that the loop tests its sample against is the first whose window is not
over (`CutCovers`), which is true only if windows end in the order of their
triggers. That is what `EqualWindows` gives, the condition of `WindowsCovered`. Of
a window's samples, all in one readout saved, `CoveredStep` then says whether the
readout is returned: where the loop reads a later sample in no window it has been
packaged at the latest there (`ReadToTheEnd`), and otherwise the readout in progress
at the loop's end is the one that holds them, which `Return` drops.

*The trigger's hypotheses* are true of the shipped configuration
(`OpDetSim/optriggeralg_sbnd.fcl` 11-19: holdoffs of 0, equal windows of 1 and 11
microseconds). `ShortHoldoff`: the holdoff is shorter than the time before its
start for which the scan pretends that there was no trigger. `WholeWindows`:
windows of whole samples where readouts may not grow. `ReadsAfter`: some of the
readout comes after its trigger. The last two are needed: TLC refutes
`ReadoutsTriggered` without the one and `PulsesReadOut` without the other. The proof of the scan also corrected a property: a pulse that
begins at the last sample but one of the scan may hold off the beam's trigger and
then never be stored, so `BeamHeldOff` speaks of the samples before it.

*The CRT's invariants.* `CreateData` looks at a tagger's strips in the order of
time. `SimInv` says so (`TriggerInv`), and that, when a strip may begin a trigger,
each board of the tagger that was read out before has rested for its dead time,
or a coincidence on another board came between (`Ready`); what the FEB data made
so far are made of (`Made`) gives `ReadOutOnce`. `ClusterInv` says of each pair of
hits, close in time and on overlapping strips, of which one has been used, that
they are together or that the window of an earlier hit parted them: the window
is always opened by the earliest hit that is unused. `OneFrame` of
`TimesAreRelative` says that a configuration that refers hits to a time corrects
for different seconds; both switches are off for simulation and on for data as
shipped (`CRT/CRTReco/crtrecoproducers_sbnd.fcl` 16-17, 25-26).

*The CRT's objects.* `ProductInv` says which products an event has at each stage and
what they are made of. Blobs and tracks are then sorted and chosen by the same code:
what is not chosen shares a point with something chosen before it. For tracks the
comparison is a weak order (longer first, then the better agreement), so that what
stands before is no worse. For blobs it is not: against the candidate of a lone
point every comparison is false, and a lone one can keep a worse candidate in front
of a better. `FoldLemmas` says what an insertion sort leaves by an order that some
elements `L` are not in (`Sorts`): where two that are in it stand in the wrong order
one of `L` stands between them, one of `L` is behind all that were inserted before
it, and which elements were put in front of all. With the times in order, a window
is that of the points behind its first one, so that a worse candidate that blocks
was itself passed by one whose window begins between the two and that shares a point
with both (`BlockedByBetter`).

*The veto.* `VetoInv` says that a cluster's hits are of one tagger and close in time
(`CreateCluster` opens a window at the earliest), that space points and flags are
those the producers make of clusters and points, and what frames data have. A
point's time is a sum over its pairs of crossing strips, each a sum over two hits:
the folds are unrolled into sums of functions (`ClusterTimesAdd`), and a mean within
the window has a summand not after it and one not before it (`MeanIsAmong`, on
`SumBounds` of `FoldLemmas`). A pair alone in its tagger is close enough to be
clustered (`ClusterInv`), with nothing else, so that its mean is its own
(`LoneIsPoint`). `HitsReferenced` says that data refer their hits to a time, correct
for different seconds and cluster by that time, and that hits clustered by the
other counter have it apart by the same on the boards of a tagger outside the
bottom: data are so as shipped (`CRT/CRTReco/crtrecoproducers_sbnd.fcl` 25-26, 41),
and in simulation there are no delays at all
(`Geometry/GeometryWrappers/CRTGeoService_service.cc` 122-123). Without it, hits that
are close by the one time need not be by the other, which is what the flags are
read by. TLC evaluates it on the instance (`ReferencedHits`).

*From the deposit to the space point.* What follows two deposits through the chain is
`CrossInv`. Its core, `WalkInv`, is about `CreateData`'s walk: a coincidence after a
quiet time has the time of the trigger or is a window before it, because no trigger it
could join is still open and the dead time is over, so that it can be neither joined
nor dropped; what is within a window of it is in the trigger's strips; and a pair
whose trigger is over is read out (`FlushedSees`), since a coincidence in each
orientation triggers any tagger and `FlushedParts` keeps every readout there is. That
the pair is *seen* is about `AddADC`: charges on a SiPM only grow (`ChargeGrows`), the
first strip of a board has the time that its readout is counted from and is seen
with its whole charge or the saturation (`ChargesSeen`). Then `SimHits` has the hits
of all readouts, and `ClusterInv` puts the two in one cluster or has a hit that
parted them; the latter is of a readout that began, at most a trigger's window
before, with a coincidence (`Begun`) too close to the first for the time to have been
quiet. `PlainSimulation` is what the jobs configure for the simulation: no windows,
clusters by T1 (`CRT/CRTReco/crtrecoproducers_sbnd.fcl` 13-15, 36), no delays (the
run's channel map is read for data only,
`Geometry/GeometryWrappers/CRTGeoService_service.cc` 119-124), boards dead for 22000
ticks against clusters of 50 (`CRT/CRTSimulation/crtsimmodules_sbnd.fcl` 63,
`CRT/CRTReco/crtrecoproducers_sbnd.fcl` 34), and a threshold and pedestal below the
saturation. Its bound on charges keeps `AddADC`'s sum in 16 bits
(`CRT/CRTSimulation/CRTDetSimAlg.cxx` 105-112): above it a strip with more than some
1500 photoelectrons could wrap around and be lost. TLC evaluates it on the instance
(`SimulationPlain`).

Of the conditions of the others, `LightTravels` says that the flight
time of light is a number; `PedestalBelow` that the pedestal is not above the
saturation (0 and 4089 as shipped, `CRT/CRTSimulation/crtsimmodules_sbnd.fcl` 44, 61).

*The flash finder's invariant.* The loop cuts a window for whichever flash it
meets *last* among those the window runs into, and nothing in the code says that
it is the nearest. `ClaimsOrdered` does: of two flashes the later claimed lies
either beyond the veto time of the earlier or wholly before it. Of two flashes
that a window runs into, both within one veto time, the later claimed must then
be before the earlier, so the last one met is the nearest and the cut that makes
room for it makes room for all. `AsShipped` are the relations of the shipped
parameters: equal integration and veto times, and a shortest window that reaches
past the peak.

*The XARAPUCA decoder's invariant.* `Taken` are the valid fragments before the one at
hand. `AllPut` says that their samples are those of the waveforms dumped and of
the one that waits, in order; it holds whatever the lists look like. That a
waveform is of one board and trigger does not: the code knows that a fragment
continues a waveform from an index and a tag per board (`Tags`), and the waveform
that waits may be another board's. `Pending` says that it is not while lists come
one by one, each of one board; `Located`, where fragments taken come from, lets the
tags stand for times, because a board's fragments in a list are within a second.
`Whole` then gives each waveform, and the one that waits, the fragment it begins with.
Two things came out of the proof. A list that ends with a fragment of an unknown
board dumps nothing: its last waveform waits for the next list, or is lost with the
event (`CutOff`, `Leftover`); `SamplesCombined` now says so, and the instance has such
lists. And one `CASE` of `WaveformTimes`, and one of `PMTMetric`, had guards that
overlap, which TLC reads in order and the logic does not.

*The PMT decoder's invariants.* `DecodeInv` says of the waveforms so far, of every
board before the one at hand and of the fragments before the one at hand, where each
was begun and what it was made of, in the order of the fragments. The code
knows of a trigger only the tags of its fragments, which start from 0 in every second.
Two facts tie tags to triggers. `ExtensionFollows`: a fragment recognised by its tag
lies within a window of the one before; triggers of a record are further apart
(`TriggersApart`), so it is of the same trigger, and so is all that was put together,
even when fragments between them were lost. `RecognisedExtension`: with nothing
lost, what is recognised is exactly what the property calls recognised, so a waveform
has all the samples up to the first that is not. `LayoutInv` is for complete
readouts: each board has the same triggers, so that the vector that `produce` fills
board by board holds, at the distance of a board's waveforms, those of one
trigger. `FlashInv` says that the pulses made so far are those of the flashes stepped
through, and the pulse of a flash is the pulse of simulation over its levels.
`LongWaveforms` says that a simulated waveform that exists is longer than a slice: a
whole readout of 3 ms against microseconds
(`OpDetSim/opDetDigitizerSBND_module.cc` 379).

*Folds and recursion.* Sums and folds of the community modules are recursive
over a `CHOOSE`n element, and the library's induction theorems cannot be
instantiated. `FoldLemmas` does the inductions by a smallest counterexample
(`MinimalSubset`: a set of subsets of a finite set has a minimal one), and shows
that the recursive functions exist (`RecursionExists`) before it uses them. What
stays out of reach is what is defined with an operator for a parameter and no
lemma in the library: `SelectSeq` and `SetToSortSeq`. `Selections` defines both
by what they return.

*Assumptions.* `PoolAssumption` (at least one thread and channel),
`SemaphoreAssumption` (amounts are positive), `TriggerAssumption` (the period is
positive, and the enable window and the readout windows are at least one long),
`RangesAssumption` (a range of another channel does not end before it starts), `FlashAssumption` (what `Configure` checks, and that counts are
natural numbers), `EventsAssumption` (hits have times, one of them first and one
last), the types of the CRT's geometry and parameters (`GeometryAssumption`,
`SimAssumption`, `HitAssumption`, `ClusterAssumption`, `FrameShiftAssumption`,
`InputsAssumption`: charges and times after smearing are not negative,
`CRT/CRTSimulation/CRTDetSimAlg.cxx` 543-551), of the veto and the objects
(`VetoAssumption`, with the tagger of `kBottomTagger` as the one that is in no wall
of the veto; `ObjectAssumption`), `MonPulseAssumption` (a board has an odd number
of channels, pairs are of two channels and apart), `SimulatedAssumption` (the
digitizer's waveforms have one length), `DecoderAssumption` (a second is longer than
four nominal fragments and twice the allowed difference), `ReadoutsAssumption`
(`IsReadout`: a board's fragments are of triggers, in order, within a second;
triggers are a window apart), `Event0Assumption`, `XaAssumption` and `RecordsAssumption` (a board's fragments are in
one list, in the order of their times and within a second, and each ends less than
a second after its timestamp: events are short). `BlocksPartition` assumes at least
one thread and nothing else. TLC evaluates the modules' assumptions on every run.

Several theorems have a condition of their own, named in the table. That of
`FramesAreOwn` is `NeighboursApart`: where the event's own stamps and word were recorded, those of its
neighbours are further from the time they are looked for at, which is what the
module's search for the closest relies on, and no trigger's HLT has the code 0, which
stands for a word without bits (`Timing/FrameShift/frameshift_sbnd_data.fcl` 13-17 has
none). Without it the closest may be a neighbour's and no frame is promised. Any of the
event's own may be missing, and any number of neighbours' may be there. The instance has such
records only, and TLC evaluates `RecordsApart` on them.

*Only model-checked.* Liveness (`EventEnds`, `TeardownEnds`, the fairness part
of `FairAtomicSemaphore`), which is out of the prover's reach together with
`ENABLED`.
`TriggerOfReference` and `PeakIsTheFlash` of the software trigger: the sum over
channels with padding and the search for its peak are recursive in the data, and
rounding is arithmetic with powers that the provers do not have. They are shown
for numbers of 6 bits.

## 7. Findings

Each is a run that TLC must find violated; `PROJECT.json` quotes the lines.

1. `pool_stolen_token`: with `NThreads` of 2 or more (or 0, autodetected, on a
   machine with several) a worker that returns its finish token may take the
   start token of another. It then applies triggers, of an algorithm that has
   found none, while the other's channels are never digitized. Tokens still add
   up, so nothing notices. The default of one thread is not affected
   (`pool_one`).
2. `trigger_no_coincidence`: with `SelfTriggerPerChannel` off, primitives that
   have ended are never removed, so that the trigger needs no coincidence, and
   at most one is issued in an event.
3. `crt_etrig_window`: readouts in the second before or after the one of the
   event trigger are held against its window a second off, and dropped.

Other divergences are stated as exact conditions of properties that hold
(section 4), so that the runs show what the code does instead. Those that a comment
or a configuration of the repository speaks against:

- `ApplyTriggerLocations` packages a readout in the iteration after the one that
  filled it (comment at `OpDetSim/opDetSBNDTriggerAlg.cc` 417-419). The loop ends a
  readout's length before the waveform does (line 380), whatever is in progress, and
  returns what is packaged (line 444): a readout that is full by then, or was kept
  growing by further triggers, is dropped with every pulse in it (`WindowsCovered`,
  `PulsesReadOut`).
- Of several ETRIGs the software trigger does not take the closest to the raw time
  (`Trigger/PMTSoftware/PMTMetricProducer_module.cc` 285), since the least
  difference so far is kept with its sign, line 292 (`TriggerOfReference`).
- With `IncludeExtensions`, as in `Trigger/PMTSoftware/fcls/pmtmetricproducer.fcl` 6,
  an extension that is nearly full passes for a sensible fraction (line 750) and
  overwrites that of the waveform; the peak time of any trigger of the event, and
  of later ones, is computed with it, although the right fragment was grabbed
  (line 496) (`PeakIsTheFlash`).
- The index of the trigger closest to the event trigger (line 335) is found in the
  first board's container and used for all, also for one that lost a fragment
  (`PeakIsTheFlash`).
- FrameShift's last gate word (`FrameIsOwn`).

The others: the last two samples of the trigger's scan, two triggers at one time,
the CRT's forgotten dead time, the software trigger's times and window in single
precision, extensions over a second's end, a reference at the start of a second, the
XARAPUCA decoder's frame, its lists that end with an unknown board.

## 8. Abstractions

- Doubles are integers. Only in the software trigger, where the code has floats, are
  numbers rounded (`Single`): to the nearest of a mantissa's length, the even one of
  two, as the machine does with a longer mantissa. Its fractions are of double
  precision in the code until they are stored, and exact in the model; its peak time
  is left in samples. In the trigger algorithm a unit divides the sampling
  period, so that windows, waveform and beam time need not be aligned; the
  corrections for the rounding of doubles have nothing to do and are modelled as
  the conditions they test. Mean times of space points are integers in grains
  that divide the tick; the error of a blob is a fraction compared by its parts.
- The trigger's digitized values are three levels; waveforms of the pool are
  event numbers; those of the decoders are the times of their samples; those of
  the software trigger are dark or lit.
- The CRT's light and time smearing is an input (a deposit carries ticks and
  charges); the modules of type MINOS are skipped; the emulation of waveforms is
  on, as shipped. `Ts0` equals `Ts1` in simulation, as there. The overlap of
  strips is a relation per buffer: the split of clusters uses the 10 cm that the
  code has as a literal, not the configured buffer. Charges keep their 16 bits.
  Which points lie in line, and how long light takes between them, is given by
  their strips.
- Seconds, nominal lengths and windows are short, in their real order of sizes.
- The hits of an event are a set in the flash finder: their order only orders
  sums. The clamp of negative PE is left out; hits have positive area. The
  instance has a veto one bin longer than the integration time (they are equal
  as shipped), and `min_time_before - time_dif > precount`, true as shipped
  (50, 5, 10), which keeps a shortened flash's peak in its window.
- Local variables of a method are set back when it is over, so that states do
  not differ in what the code does not keep.
- Edges outside the instances: sums of charge over 16 bits
  (`CRT/CRTSimulation/CRTDetSimAlg.cxx` 106), taggers with 65536 hits
  (`CRT/CRTReco/CRTClusterProducer_module.cc` 133), pedestals of the channels
  after the first (`CRTDetSimAlg.cxx` 135), an integration time shorter than the
  veto, vetoed ranges nested in one another and the clamp of the last channel
  (`SimpleFlashAlgo.cxx` 26, 170, 414).

## 9. Not modelled, and why

Waveform digitizers, deconvolution, hit finding, TPC simulation and signal
processing, light propagation, flash matching and geometry, blips, calorimetry
and networks are numerical and keep no state that interacts. Databases and
channel maps are lookups. Analysis, filters and display read finished products.
The PTB, TPC, NTB, SPECTDC and CRT decoders translate word by word: what they
make is the input of `FrameShift`, `CRTChain` and `PMTMetric`. Configuration is
not code; the models take their values from it. Alignment of waveforms is a fit.
Of the components that are modelled in part: positions and photoelectrons of CRT
clusters; of the flash finder's module the calibration and the corrections; of
the software trigger the metrics per channel and fragments outside containers.
The share of the repository's lines that the map covers stays small: most of
them are a vendored JSON library, ntuple writers and numerical code.

## 10. Plan

Modules were written in the order of section 3: the pool first, because it is
the only concurrent part and everything optical goes through it, then the long
chains of decisions (trigger, CRT), the flash finder, the decoders with the
pulse and the software trigger, and FrameShift with the CRT's last modules.

What is left, in this order:

1. `TriggerOfReference` for boards that shift their time tags, whose times are not
   rounded, with `PMTMetric`'s selections written with `Selections`.
2. That the detailed semaphores can take the place of the atomic ones in the pool.

## 11. How to run

In this directory, `tlc -config pool_many.cfg MCDigiPool` checks a run
(`PROJECT.json` pairs configurations and modules) and `tlapm DigiPoolProof.tla`
a module's proofs. The community modules and the library of TLAPS must be on the
module path. The longest run (`crt`) takes about three minutes on two
workers; the proofs of the trigger algorithm, of the CRT and of the PMT decoder take
several minutes each from nothing.
