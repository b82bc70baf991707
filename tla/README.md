# Models of uShopImportMetrics

uShopImportMetrics is two programs that watch a stream of seismic packets and
publish metrics about them. `uSEEDLinkPacketMetrics` reads a SEEDLink server,
`uEarthwormPacketMetrics` an Earthworm shared-memory ring. This directory holds
TLA+ models of both programs, from the first line of `main` to the destruction of
static objects and from a record or message to the exported number; TLC
configurations that check them; and proofs that TLAPS checks. Paths below are relative to the repository.

Contents: [the system](#the-system), [modules](#modules),
[runs](#runs), [fairness](#fairness), [proofs](#proofs),
[where the code and its documents disagree](#disagreements),
[what is not modelled](#not-modelled), [plan](#plan).

## The system

Each program has four threads: the main thread, an acquisition thread, a
metrics thread, and the thread of the OpenTelemetry reader.

    server or ring --acquisition--> queue --metrics--> MetricsSingleton --reader--> collector
                                                            |
                     main: starts, watches, stops           +--main: summary report

| Part | Source | State | Operations |
|---|---|---|---|
| WindowedMetrics | `src/metricsSingleton.cpp:55-180` | one stream's running sums, time of the last reset, the three gauge values | `update`, `updateAndReset` |
| MetricsSingleton | `src/metricsSingleton.cpp`, `metricsSingleton.hpp` | four counter maps, two atomic cumulative counters, the windows, three gauge maps | `tabulateMetrics`, `updateAndResetWindowedMetrics`, the increments and getters |
| Process: queue and metrics thread | both programs | `mPacketQueue`, `mKeepRunning`, the loop's `lastUpdate` | `addPacketCallback`, `tabulateMetrics` |
| Process: lifecycle | both programs | two futures, `mInterrupted`, `mStopRequested` | `start`, `handleMainThread`, `checkFuturesOkay`, `stop`, `~Process` |
| Process: summary report | `src/seedLinkPacketMetrics.cpp:506-529` | the last totals reported | `printSummary` |
| OpenTelemetry export | `src/otelMetrics.hpp` | the observable instruments | seven `observe...` callbacks |
| SEEDLink client | `src/seedLinkClient.cpp` | `mKeepRunning`, the connection and its terminate flag | `start`, `stop`, `packetToCallback`, `initialize` |
| WaveRing | `src/waveRing.cpp` | `mAcquire`, the attached region | `start`, `stop`, `connect`, `flush`, `acquire`, `disconnect` |
| Packet | `src/packet.cpp` | stream, start, stored end time, rate, samples | setters, `clear`, construction from a TraceBuf2, sums |
| TraceBuf2 | `src/traceBuf2.cpp` | the fields of an Earthworm message | `unpackEarthwormMessage`, `getData` |
| StreamIdentifier | `src/streamIdentifier.cpp` | network, station, channel, location | setters |
| StreamSelector, SEEDLinkClientOptions | `src/streamSelector.cpp`, `src/seedLinkClientOptions.cpp` | what a line of the file asks for | `fromString`, `getSelector`, `addStreamSelector` |
| Program options and `main` | both programs | the values read from the initialization file, the static objects | `parseCommandLineOptions`, `readInitializationFile`, `initializeOTelHTTP` |

How they interact. The acquisition thread calls `addPacketCallback` for each
packet, under the queue's mutex. The metrics thread takes packets from the queue
under the same mutex, and calls the singleton without it. The singleton takes a
lock of its own for every map it updates; one call of `tabulateMetrics(packet)`
takes several, one after the other. The reader copies each map in a separate
callback, and the main thread loads the two cumulative counters in its summary.
The main thread stops the acquisition thread and the metrics thread through
flags, and waits for them through futures. Before it starts them it reads the
options, creates the singleton and the exporter, and, in the SEEDLink program,
subscribes to the streams the options ask for; after them the static objects are
destroyed while the reader may still run.

What is hard, and what makes each part correct:

- *Counting.* A packet is counted through up to four locks, some counters before
  checks that may throw. Correct: each packet is counted once under the heading
  its times deserve, and each valid packet is in exactly one window.
- *Queue.* It is bounded and drops its oldest packets; a push that throws after room was
  made is caught. Correct: order is kept, only the oldest goes, only from a full queue, and
  what waits does move on.
- *Windows.* Two paths close them, one after each packet and one when idle, and
  both depend on a time shared by all streams. Correct: the sums are of exactly
  the samples in the window, and no stream keeps another's window open for ever.
- *Export and report.* Their readers see the singleton between any two of its
  steps. Correct: what is published together is consistent.
- *Lifecycle.* A signal, a failing server and a failing thread may coincide,
  and `stop()` runs twice. Correct: the program ends, nobody waits on a future
  without a task, no thread outlives what it uses, and a stop is no failure.
- *Start and end.* Options pass checks in two places, and the singleton must outlive
  the exporter. Correct: a process is constructed only with options under which
  the queue works, and what the reader reads exists.
- *Subscription.* A selector goes through text, fields, defaults and libslink's
  syntax. Correct: every stream asked for is sent, and no other station.
- *Conversion.* Buffers hold several records, each of which may fail; messages come
  in two byte orders; times are cut, rounded and stored. Correct: packets tell what
  the recording tells, and a buffer is converted as a whole or not at all.
- *Numbers.* Integer overflow of squared samples, empty windows, limits that
  are strict on one side.

PROJECT.json lists these at the lines where they bite ("hazards").

## Modules

| Module | Models |
|---|---|
| WindowedMetrics | The window as a record, `Update`, `Due`, and the three gauge values as exact rationals. The square root is never taken: the standard deviation is represented by its square. |
| MetricsSingleton | The singleton's maps and each step of `tabulateMetrics(packet)`: one action per lock or atomic, ordered by `pc`. The clock is a counter. No next-state relation of its own. |
| PacketPipeline | The queue, `addPacketCallback`, also when its push throws (`FailToEnqueue`), and the metrics thread's loop around the singleton: take, tabulate, flush, stamp `lastUpdate`, catch, idle check, sleep. `ClearKeepRunning` is the part of `stop()` this thread sees. The two programs have the same code here; the line numbers in the map alternate between them. |
| PacketLedger | Abstract: a channel that keeps the most recent packets, and a ledger in which a packet taken is settled at one instant under one heading. |
| PacketPipelineRefinement | The mapping. A packet is settled when `tabulateMetrics` compares it with the clock, so a packet classified and not yet counted is already in the tally. |
| PromptPipeline | PacketPipeline under the assumption that the metrics thread makes its idle check at least once per clock unit. Bounds on how long a window lasts exist only then. |
| PublishedGauges | PacketPipeline with a record, for each stream, of the packets averaged since its window was closed and of those of the window closed last: what `WindowAccumulation` says of one window, in the midst of the threads, the other streams and the two ways to close a window. |
| WindowAccumulation | One window fed with packets of integer samples, next to the samples themselves, so that sums and gauges can be compared with their definitions. Products are taken modulo the width of an int, as the build does. |
| MetricsExport | The seven callbacks in the order in which Process registers them, composed with PacketPipeline. |
| SummaryReport | `printSummary`, composed with PacketPipeline. |
| Observers | PacketPipeline with both readers, or the one a program has (`Configurations`). |
| Packet | StreamIdentifier and Packet: their setters as functions of the object, and when they throw. Names are codes, of which a constant says what `convertString` makes of them; rates are fractions; times are integers, with rounding and truncation as the code has them. |
| TraceBuf2 | A tracebuf2 message, the checks of `unpackEarthwormMessage` in their order, and the packet made of it. A number whose bytes are taken in the wrong order is `Garbled`. |
| PacketConversion | The three ways to a packet: the records of a SEEDLink buffer, one message of the ring, and a caller of Packet's setters in any order. |
| WaveRing | The ring reader's steps: connecting, the acquisition loop, `stop`, and `disconnect`, which either thread may run and which takes no lock, so each of its accesses is a step. `attached` is what the operating system knows of the region, `mHaveRegion` what the object believes. What becomes of a message is in PacketConversion. |
| ProgramLife | Abstract: the life of a program with threads. They are launched while it starts, leave their work by a failure or because it stops, it stops for a reason, and it ends when nothing works. No flags, futures or shared memory. |
| SEEDLinkProcess | The main, acquisition and metrics threads of uSEEDLinkPacketMetrics from `Process::start` to the exit. The metrics thread is its loop condition here, the queue is in PacketPipeline. `std::async` is called with its default policy, so a task may be deferred when no thread is to be had (`ThreadMayBeRefused`); the acquisition loop may be given up by libslink (`ServerMayFail`). |
| EarthwormProcess | uEarthwormPacketMetrics from `Process::start` to the exit, around WaveRing. |
| ProgramStartup | What both `main` functions do around the Process: the singleton, the initialization file, the exporter, and static objects, destroyed in the opposite order of their creation. |
| StreamSelection | A selector's text as a sequence of fields, `fromString`, `getSelector`, and what libslink is given. `Asks` says what a text asks for, `Sends` what a server does with a selector (external). |
| SEEDLinkProgram | SEEDLinkProcess between the steps of ProgramStartup, with the selectors read from the file and the client's `initialize`. |
| EarthwormProgram | EarthwormProcess between the steps of ProgramStartup. |
| MC... | Values for TLC. MCPackets has the packets the pipeline instances share. |
| ...Proofs | Theorems, see [proofs](#proofs). |

A packet is what tabulation reads of it: its stream, the times of its first and
last samples, how many there are, their sum and sum of squares. A stream is a
model value. The counter maps of the code have a key only after an increment;
an absent key is 0 here. Windows and gauges keep the code's key sets, because
who has a gauge and who has not matters to the export.

`rejected`, `closedPackets`, `arrivals`, `dropped`, `taken`, `lastTaken`, `logged`,
`skipped`, `collected`, `pending`, `published` and the variables marked auxiliary in WindowAccumulation are
history: no action of the code reads them.

Before some definitions there is an operator commented "Mutant:". It is the
next definition with a plausible bug; no specification uses it. PROJECT.json
pairs it with the property that fails when it takes the definition's place.

## Runs

| Run | Instance | Shows |
|---|---|---|
| pipeline | 3 packets (one in the future at first, valid later, expired at last; one of another stream; one empty), queue of 2, 4 arrivals, pushes that fail at any time, clock 0..3, interval 1, latency limit 2 | `TypeOK`; each packet counted once; windows hold the valid packets; the queue is the newest packets; the cumulative counters are the sums of the maps; the latency and counts published for a stream are the averages of exactly its packets since its window was closed before; packets are taken in order and dropped only from a full queue; queued packets move on; a stop ends the thread; the ledger is implemented |
| prompt | the same packets, interval 2, clock 0..8, 3 arrivals | no window outlasts two intervals and one polling step |
| accumulation | samples -3, 1, 4, packets of 0 to 2 samples, int of 5 bits, 3 samples in a window, clock 0..2 | averages are those of exactly the window's samples; none is divided by zero; while squares fit an int, the deviation stored is n/(n-1) times the population's |
| observers | queue of 2, 2 arrivals, clock 0..4, interval 1, report interval 1; a program with the exporter, one with the summary | valid + future + expired never exceed the total exported with them; a stream with one gauge has the others; reports add up to no more than was counted, and none is negative |
| conversion | buffers of 0 to 3 records, 2 buffers, every way a record fails, starts on both sides of the microsecond and of 1970, rates above and below one per second and one that does not divide it; messages of every format, size and byte order | a buffer is handed over whole or not at all; only skipped buffers leak; the end time is current; packets tell of the recording; no sound message is lost |
| seedlink_process | files with up to two selectors of thirteen texts, every refused option; failures and deferred tasks allowed | threads end before their members; no wait on a future without a task; nothing thrown out of `~Process`; options are sound; the exporter reads a live singleton; the file's streams are subscribed, and, if any selector was added, no other station; the abstract life is implemented; a signal and a failure end the program |
| earthworm_process | every setting of a file that a check or default distinguishes, size_t of 16 bits; a prompt reader, deferred tasks allowed, the kill flag and signals at any time | the ring is read only while attached; detached once, unless a signal comes while the kill flag is answered; threads end before their members and nothing stays attached; no wait on a future without a task; nothing thrown out of `~Process`; options are sound; the abstract life is implemented; a signal and the kill flag end the program |
| standard_deviation, sum_of_squares_overflow, doubles_are_unpacked, documented_ini_exports, stop_is_not_a_failure | | one sentence or assertion each that the code does not keep, see [disagreements](#disagreements) |

Why the bounds are enough. What a packet can do depends on its class at the
instant it is compared with the clock; the three packets reach every class, and
the first reaches three of them depending on when it is tabulated, on both sides
of both limits. Two streams are needed for one stream's flush to meet
another's packet. A queue of two, with four arrivals, is full, drops, and drops
again while the metrics thread is between any two of its steps. Windows open,
close and are used again within the clock. Three intervals and more fit in the
clock of `prompt`, so a window could outlast its bound. In `pipeline` one stream's
window can be due while the other's is not, and both can be closed twice, the second time
empty or not; the record of PublishedGauges restricts none of its behaviours. In `accumulation` a window of
three samples has every division into packets; in five bits the squares of -3 and
1 fit and that of 4 does not. In `observers` two packets on two streams are
enough for a count or a closed window to fall between any two copies, and the clock
has room for two reports. In `conversion` three records put a failure first, in the middle and
last, and a second buffer shows that nothing is left of the first. In
`seedlink_process` two selectors are needed for a duplicate, for one that is added beside
one that is not, and for a bad one after a good one; a third adds no new case. The
processes themselves are finite and have no bound. The properties of
EarthwormProcess other than `ReadsAttachedRegion` also hold for a slow reader: they are
proved without that assumption.

Deadlock is not checked where the system ends: in the bounded pipelines the clock and the
arrivals run out, a program exits, and after the last buffer there is no other.

## Fairness

PacketPipeline assumes `WF(MetricsThread)`: the thread is scheduled, and its
locks are held for a few instructions only. The two program modules assume weak
fairness of each of their three threads, and of what `main` does before and after
them (`OutsideProcess`), none of which blocks. In SEEDLinkProcess the acquisition thread's
steps end because the client sets libslink not to block
(`src/seedLinkClient.cpp:358-364`; that this succeeds, where the code only warns, is
assumed). Nothing is assumed of arrivals, of the clock, or of signals, and no fairness forces a
server to fail or a kill flag to be set. In EarthwormProcess the flush on connecting is one
step: it is assumed to find the ring empty at last. No strong fairness is used.

One assumption is about time and not about fairness. `WaveRing::stop` clears the flag,
sleeps 30 ms, and detaches the region, before anyone has waited for the thread that
reads it (`src/waveRing.cpp:92-101`). `ReaderIsPrompt` says that a round of the
acquisition loop (a sleep of 15 ms, or one message) ends within that sleep. Without it
TLC finds a read of a detached region; `ReadsAttachedRegion` is checked, and
proved, under it.

## Proofs

The theorems hold for every value of the constants that satisfies the named
assumptions: any finite set of streams, any non-empty set of packets over them, any queue
size and interval of at least one, any limits, and any setting of the
switches of the two process modules.

- `SumTheorems`. A sum over a function or sequence is a fold, and a fold is defined by a
  recursive function on the subsets of its domain. `SumUnfold` shows that this function
  exists and is unique; both take an induction, which is written as the absence of a
  minimal counterexample (`MinimalSubset`, `LeastNatural`, from the well-foundedness of the
  strict subset order and of the naturals). From there: a sum with one element more, less or
  changed, of equal terms, of naturals, of a sequence and of two sequences in a row.
- `PacketPipelineProofs`. `TypeCorrect` first. `CountedOnce` is inductive as it
  stands thanks to the packet in hand: the term `InHand` says that between the total
  and the last counter the difference is the packet `pc` points at.
  `ValidPacketsAreAveraged` adds to it that a classified packet has samples
  (`HaveSamples`), because `update` ignores a packet without them, and that a flush
  moves a window's count to the closed ones (`FlushKeepsPackets`).
  `QueueHoldsTheNewest` and `OrderAndDrops` rest on the numbers of the queued
  entries being consecutive and ending at the last arrival; a push that fails takes at most the
  first of them (`FailureNumbers`).
  `CumulativeAgrees`: one increment changes the sum of one map by one (`SumExcept`).
  `PipelineImplementsLedger`: arrivals map to
  `Read`, a push that fails in a full queue to `Lose`, taking to `Take`, the classification and the refusal of an empty packet
  to `Settle`, the clock to `Tick`, everything else to a stutter. The increments
  stutter because the mapping counts a packet in the tally from its classification.
- `PipelineWindowProofs`. `WindowsClose`: the clock advances once between two idle checks
  (`Checked`). The stamp `lastUpdate` is never more than an interval ahead of a window,
  because the flush before it left only windows that were not yet due (`Flushed`), and because the
  clock advances at most once between the flush and the stamp (`BeforeStamp`). So an
  idle check either flushes or leaves no window that is older than two intervals.
  `GaugesAreOfTheirPackets`: every window holds the totals of the packets pending for its
  stream, and a stream without a window has none (`Recorded`); `StepsOfWindows` sorts the
  pipeline's steps into those that update one window, those that flush, and the rest. That a
  classified packet has samples is needed here too: otherwise `update` would ignore a packet
  that is pending.
- `WindowAccumulationProofs`. `Exact` is the strengthening: the window holds the sums of the
  samples and latencies tabulated since it was reset, of the squares as an int holds them, and
  the gauges are those of the samples reported. `PairwiseIdentity` is the lemma behind the
  variance: n times the sum of squares less the square of the sum is the sum of the squared
  differences of all pairs of samples, for any sequence of integers. So the difference the code
  takes is never negative while the squares fit, for every width of an int
  (`VarianceIsHeld`), and what is stored is the deviation times n/(n-1)
  (`DeviationIsScaled`). `ZeroOnlyByOverflow` is the other side of the run
  `sum_of_squares_overflow`: without an overflow, a deviation of zero means equal samples.
- `ObserversProofs`. Two facts about the pipeline carry `PartsWithinTotal` and
  `GaugesComplete`: counters
  and gauge maps never shrink, so a copy stays a lower bound of its map; and at the
  instant the last map of a group is copied the live maps satisfy the pipeline's
  own invariant (`CountedOnce` for `PartsWithinTotal`, equal domains for
  `GaugesComplete`). The order of the callbacks is essential: with the total copied
  first, the parts could exceed it. `ReportsAddUp`: what was logged is what the local
  counters remember, which is never more than the live counters. `ObserversAgree`
  puts both beside one pipeline: each reader's variables are the other's stutter.
- `SEEDLinkProofs`. `Progress` is the strengthening: it says what each step of
  the main thread knows of the flags and futures, and that a task ends quietly
  only after its flag was cleared. So while the main thread watches, only an
  exception ends a task, and the first call of `stop` takes it. The three
  theorems follow from `Progress`, and so does `ProcessImplementsLife`: the mapping
  (`working`, `failed`, `phase`) is read off the threads' steps, and `Progress` is needed
  where the abstract program asks for a reason to stop and for nothing working at
  its end.
- `EarthwormProofs`. `Progress` plays the same part. `Region` says that the object
  forgets a region only after detaching it, so the program leaves nothing attached.
  `OneDisconnects` is the argument of `DetachedOnce`: the reader disconnects only
  after the kill flag, and the main thread stops beside a running reader only after a
  signal. `Apart` is that of `ReadsAttached`: when the main thread is past its sleep, or
  has skipped it because the flag was already cleared, the reader is out of its loop.
  It is the only result that assumes a prompt reader. `ProcessImplementsLife` shows that
  this program implements the same life as the other.
- Both of these, of the programs. `ProgramRunsProcess`: a program's
  behaviour is one of its process, so everything above holds of it (`ProgramLives`).
  `OptionsAreSound` and `SingletonOutlivesTheExporter` follow the order of main's
  steps. `TextReachesServer` is the lemma about selectors: for every text of fields that
  `fromString` accepts, what the server is asked for covers what the text asks for. It rests on
  `FieldsAssumption` (the empty field has no letters, upper case keeps the length) and on
  `MatchesAssumption` (`*` and `??` stand for every channel and location).
  `FileIsSubscribed` and `OnlyTheFileIsSubscribed` follow from it and an invariant
  that ties the lines read, the selectors and the streams added to each other.
- `PacketConversionProofs`. `EndTimesAreCurrent`: every setter that the end time depends on
  computes it last. `BuffersAreWhole`: the packets converted are those of the records before
  the next one, the packets handed over are the first of those converted. `SkippedBuffersLeak`
  comes out of the same induction: a record is forgotten in no step but the one that skips its buffer.
  `SoundMessagesGetThrough` and `ConversionsAreFaithful` rest on `UnpackedAsSent`, that the
  byte order is judged rightly for every sender who keeps to Earthworm's convention, and
  on `RoundingIsNear`, that a rounded quotient is off by at most half.

Every invariant and every action property that a passing run checks is proved; and
`SumsHoldTheVariance` and the types of WindowAccumulation, which no run lists, are proved, too. Only
model-checked are the liveness properties (`QueuedPacketsMoveOn`, `StopEndsTheThread`,
`SignalEndsTheProgram`, `FailureEndsTheProgram`, `KillFlagEndsTheProgram`): they rest on weak
fairness and so on ENABLED, which TLAPS does not reason about.

## Disagreements

Runs that TLC refutes, each checking one sentence of the repository.

- *Standard deviation* (`src/metricsSingleton.cpp:127`). The factor n/(n-1) corrects a
  variance; the code multiplies the root of the variance by it. README.md:17 calls the
  gauge the standard deviation of the samples. For two samples it is twice
  the population value.
- *Overflow* (`src/packet.cpp:455`). `std::inner_product` multiplies ints before it
  adds to a double: a sample of 46341 counts overflows, which C++ leaves undefined.
  Wrapped, the sum is too small, the difference is clipped at zero, and different
  samples have a standard deviation of zero.
- *Doubles* (`src/traceBuf2.cpp:320`). Line 231 admits messages of eight-byte floats and
  lines 327-331 are written for them, but the test for four bytes comes first, so such
  a message reaches `assert(false)` (lines 336 and 391). In a release build it throws "Can
  only process i or f datatype", and its packet is lost.
- *Initialization file* (`src/earthwormPacketMetrics.cpp:92`). The programs read `host` and
  `port` of `[OTelHTTPMetricsOptions]`; README.md:37-39 shows a line `url=localhost:4318`
  there, which nothing reads. A program started with that file exports no metrics.
- *Stop* (`src/seedLinkClient.cpp:552`). `setRunning(false)` issues the terminate command
  and clears the flag afterwards. A polling thread that answers the command in
  between sees the flag set, takes the stop for a failure and throws, and the
  program exits with EXIT_FAILURE. The comment at lines 243-244 expects that
  order and no failure.

More that need no run:

- *packets.all* (`src/earthwormPacketMetrics.cpp:400`). A packet that a full queue drops is
  in no counter; line 356 describes the total as the packets read from the ring.
- *Summary* (`src/seedLinkPacketMetrics.cpp:518`). The total is loaded before the valid
  count, so the line logged at 525 can tell of more valid packets than packets.
- *Fall-back* (`src/seedLinkClient.cpp:342`). The client asks for all stations "if no
  streams were specified", and also if some were and none could be added.
- *Blank station* (`streamSelector.hpp:47`). A note says what a blank station means; the setter
  throws.
- *Limits*. `metricsSingleton.hpp:10` sets the limit of expired packets to 180 days;
  README.md:13 says 2 months. README.md:15-17 call the gauges measured over a 2 minute
  window: a packet of another stream tabulated just before a window is due postpones the idle
  flush, and the window lasts almost two intervals. `prompt` shows it is never more.
- *Names and ports*. README.md:43 spells the section of the update interval
  `OtelMetricsOptions`, which the code reads as `OTelMetricsOptions`; and the default port is 4218
  (`src/earthwormPacketMetrics.cpp:95`), beside 4318 in README.md:39 and in the default at line 80.
- *Leak* (`src/seedLinkClient.cpp:84-106`). What the setters throw passes by `msr3_free`, and a record
  is lost. `OnlySkippedBuffersLeak` bounds it by the buffers skipped.

## Not modelled

- Allocation failures other than that of the push in `addPacketCallback`, which has a
  handler of its own. A packet whose push fails is not an arrival: it is logged and counted nowhere.
- The clock going back. `std::chrono::high_resolution_clock` need not be monotonic;
  the models' clock only advances.
- The network traffic of the OpenTelemetry provider and its retries; log messages and
  settings, application names and attributes; version numbers.
- Of the SEEDLink client's options, the port, the time-outs and the state file, which are
  passed on to libslink and decide nothing in this code.
- Of TraceBuf2, the end time, quality, pin and native copy, which nothing in the programs
  reads, and `writeHeartbeat` and `write` of WaveRing, which nothing calls.
- `src/modules/metrics.cppm`, an earlier form of these metrics that CMakeLists.txt does
  not compile, and the parts of `src/waveRing.cpp` that are commented out.
- libslink, libmseed and Earthworm's transport library: as far as the code uses them, they are
  nondeterministic (`Collect`, `AddStream`, `CopyFrom`). Whether a return code that tells
  of missed messages comes with a message is theirs.
- Floating point: sums, averages and variance are exact, and so are rates and
  times. A record's start in nanoseconds passes through a double, which holds today's
  times to 256 ns only (`src/seedLinkClient.cpp:103-107`): the microsecond of `PacketsAreFaithful`
  is exceeded by so much at most.
- A packet without a stream or a sampling rate, which `tabulateMetrics` would refuse
  too. Both conversions set both before a packet reaches the queue, or throw.

## Plan

Done: packet pipeline, ledger and refinement; windows; export and summary beside
one pipeline; the ring reader; conversion to packets; stream selection; both programs
from `main` to the end, as implementations of one abstract life; proofs of their
safety, of every stored average and of the deviation.

Left:

1. A stop of the pipeline inside the programs: the packets that it leaves in the queue.
2. How old a packet can be when its window is published, with a prompt metrics thread.
3. Messages of the ring that are missed, if the transport library's promises are
   written down.
