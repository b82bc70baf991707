---------------------------- MODULE ObserversProofs ----------------------------
(***************************************************************************)
(* Proofs about the two readers of the singleton.  The results on an       *)
(* export cycle rest on two facts about the pipeline: counters and gauge   *)
(* maps only grow, so a copy stays a lower bound of its map, and at the    *)
(* instant the last map of a group is copied the pipeline's own invariant  *)
(* orders the live maps.  The summary reports add up for every interval    *)
(* and whatever is tabulated between the two loads of a report.  Each      *)
(* reader is considered alone beside the pipeline, and at the end both.    *)
(***************************************************************************)
EXTENDS PacketPipelineProofs, Observers

exportedVars == <<vars, exportVars>>

\* The exporter only reads: without its own variables, a behavior of the
\* composition is one of the pipeline.
LEMMA ExportIsPipeline == ExportSpec => Spec
<1>1. ExportInit => Init
  BY DEF ExportInit
<1>2. [ExportNext]_exportedVars => [Next]_vars
  <2> SUFFICES ASSUME [ExportNext]_exportedVars PROVE [Next]_vars
    OBVIOUS
  <2>1. CASE Exporter
    BY <2>1 DEF Exporter, StartCycle, ObserveCounter, ObserveGauge,
                observeValidPacketsReceived, observeFuturePacketsReceived,
                observeExpiredPacketsReceived, observeTotalPacketsReceived,
                observeWindowedAverageLatency, observeWindowedAverageCounts,
                observeWindowedStdCounts
  <2>2. CASE Next /\ UNCHANGED exportVars
    BY <2>2
  <2>3. CASE UNCHANGED exportedVars
    BY <2>3 DEF exportedVars
  <2>4. QED
    BY <2>1, <2>2, <2>3 DEF ExportNext
<1>3. QED
  BY <1>1, <1>2, PTL DEF ExportSpec, Spec, exportedVars

-----------------------------------------------------------------------------
\* What only grows.

\* Every gauge map has the same streams.
GaugesAgree == \A g \in GaugeName : DOMAIN gauge[g] = DOMAIN gauge["latency"]

\* No step of the pipeline lowers a counter or removes a gauge, and a step
\* that publishes one gauge of a stream publishes all three.
LEMMA CountersAndGaugesGrow ==
  ASSUME TypeOK, GaugesAgree, [Next]_vars
  PROVE  /\ \A c \in CounterName, s \in Streams : counter[c][s] <= counter'[c][s]
         /\ \A g \in GaugeName : DOMAIN gauge[g] \subseteq DOMAIN gauge'[g]
         /\ GaugesAgree'
<1> DEFINE CountersGrow == \A c \in CounterName, s \in Streams :
                              counter[c][s] <= counter'[c][s]
           GaugesGrow == /\ \A g \in GaugeName : DOMAIN gauge[g] \subseteq DOMAIN gauge'[g]
                         /\ GaugesAgree'
<1> USE DEF counterVars, windowVars, singletonVars, pipelineVars
<1>1. counter \in [CounterName -> [Streams -> Nat]]
  BY DEF TypeOK
<1>2. UNCHANGED counter => CountersGrow
  BY <1>1
<1>3. UNCHANGED gauge => GaugesGrow
  BY DEF GaugesAgree
<1>4. ASSUME NEW name \in CounterName, Increment(name) PROVE CountersGrow
  BY <1>1, <1>4 DEF Increment
<1>5. updateAndResetWindowedMetrics => GaugesGrow
  <2> SUFFICES ASSUME updateAndResetWindowedMetrics PROVE GaugesGrow
    OBVIOUS
  <2> DEFINE due == {s \in DOMAIN windows : Due(windows[s], clock)}
  <2>1. gauge' = [g \in GaugeName |->
                     [s \in DOMAIN gauge[g] \cup due |->
                         IF s \in due THEN GaugeValue(g, windows[s]) ELSE gauge[g][s]]]
    BY DEF updateAndResetWindowedMetrics
  <2> HIDE DEF due
  <2>2. \A g \in GaugeName : DOMAIN gauge'[g] = DOMAIN gauge[g] \cup due
    BY <2>1
  <2>3. QED
    BY <2>2 DEF GaugesAgree, GaugeName
<1>6. CASE TabulateStep
  <2>1. UNCHANGED gauge
    BY <1>6 DEF TabulateStep, tabulateMetrics, IncrementCumulativeTotal, IncrementTotal,
                RejectEmpty, Classify, IncrementFuture, IncrementExpired,
                IncrementCumulativeValid, IncrementReceived, UpdateWindow
  <2>2. CASE UNCHANGED counter
    BY <2>1, <2>2, <1>2, <1>3
  <2>3. CASE \E name \in CounterName : Increment(name)
    BY <2>1, <2>3, <1>3, <1>4
  <2>4. QED
    BY <1>6, <2>2, <2>3
       DEF TabulateStep, tabulateMetrics, IncrementCumulativeTotal, IncrementTotal,
           RejectEmpty, Classify, IncrementFuture, IncrementExpired,
           IncrementCumulativeValid, IncrementReceived, UpdateWindow, CounterName
<1>7. CASE FlushAfterPacket
  BY <1>7, <1>2, <1>5 DEF FlushAfterPacket
<1>8. CASE FlushWhenIdle
  BY <1>8, <1>2, <1>3, <1>5 DEF FlushWhenIdle
<1>9. CASE addPacketCallback \/ FailToEnqueue \/ LoopAgain \/ LeaveLoop \/ TakePacket \/ FindQueueEmpty
  BY <1>9, <1>2, <1>3
     DEF addPacketCallback, FailToEnqueue, LoopAgain, LeaveLoop, TakePacket, FindQueueEmpty
<1>10. CASE StampLastUpdate \/ CatchException \/ WakeUp \/ ClearKeepRunning \/ PassTime
  BY <1>10, <1>2, <1>3
     DEF StampLastUpdate, CatchException, WakeUp, ClearKeepRunning, PassTime, Tick
<1>11. CASE UNCHANGED vars
  BY <1>11, <1>2, <1>3 DEF vars
<1>12. QED
  BY <1>6, <1>7, <1>8, <1>9, <1>10, <1>11 DEF Next, MetricsThread

-----------------------------------------------------------------------------
\* The copies of the counters.

\* While a cycle is under way: the copies already made are lower bounds of
\* the live counters, and once the total is copied they are within it.
CopiesWithin(s) ==
    /\ observing \in {"future", "expired", "total"} =>
          observed["valid"][s] <= counter["valid"][s]
    /\ observing \in {"expired", "total"} =>
          observed["future"][s] <= counter["future"][s]
    /\ observing = "total" => observed["expired"][s] <= counter["expired"][s]
    /\ observing \in {"latency", "counts", "std", "waiting"} =>
          observed["valid"][s] + observed["future"][s] + observed["expired"][s]
              <= observed["total"][s]

CopiesWithinTotal == \A s \in Streams : CopiesWithin(s)

\* The callbacks copy counters to counters and gauges to gauges.
LEMMA ExportTypeCorrect == ExportSpec => []ExportTypeOK
<1>1. ExportInit => ExportTypeOK
  BY DEF ExportInit, ExportTypeOK, Callback, CounterName
<1>2. TypeOK /\ ExportTypeOK /\ [ExportNext]_exportedVars => ExportTypeOK'
  <2> SUFFICES ASSUME TypeOK, ExportTypeOK, [ExportNext]_exportedVars
               PROVE  ExportTypeOK'
    OBVIOUS
  <2>1. CASE UNCHANGED exportVars
    BY <2>1 DEF exportVars, ExportTypeOK
  <2>2. CASE StartCycle
    BY <2>2 DEF StartCycle, ExportTypeOK, Callback, CounterName
  <2>3. ASSUME NEW c \in CounterName, NEW next \in Callback, ObserveCounter(c, next)
        PROVE  ExportTypeOK'
    BY <2>3 DEF ObserveCounter, ExportTypeOK, TypeOK
  <2>4. ASSUME NEW g \in GaugeName, NEW next \in Callback, ObserveGauge(g, next)
        PROVE  ExportTypeOK'
    BY <2>4 DEF ObserveGauge, ExportTypeOK, TypeOK
  <2>5. QED
    BY <2>1, <2>2, <2>3, <2>4
       DEF ExportNext, Exporter, exportedVars, Callback, CounterName, GaugeName,
           observeValidPacketsReceived, observeFuturePacketsReceived,
           observeExpiredPacketsReceived, observeTotalPacketsReceived,
           observeWindowedAverageLatency, observeWindowedAverageCounts,
           observeWindowedStdCounts
<1>3. ExportSpec => []TypeOK
  BY ExportIsPipeline, TypeCorrect, PTL
<1>4. QED
  BY <1>1, <1>2, <1>3, PTL DEF ExportSpec, exportedVars

\* All gauge maps have the same streams in every reachable state.
LEMMA GaugesAlwaysAgree == Spec => []GaugesAgree
<1>1. Init => GaugesAgree
  BY DEF Init, SingletonInit, GaugesAgree, GaugeName
<1>2. TypeOK /\ GaugesAgree /\ [Next]_vars => GaugesAgree'
  BY CountersAndGaugesGrow
<1>3. QED
  BY <1>1, <1>2, TypeCorrect, PTL DEF Spec

\* In every cycle, whatever the pipeline does between the four copies, the
\* valid, future and expired packets the collector receives are within the
\* total it receives with them.
THEOREM PartsWithinTotal == ExportSpec => []ExportedPartsWithinTotal
<1>1. ExportInit => CopiesWithinTotal
  BY DEF ExportInit, CopiesWithinTotal, CopiesWithin, CounterName
<1>2. TypeOK /\ TypeOK' /\ ExportTypeOK /\ GaugesAgree /\ EveryPacketCountedOnce
        /\ CopiesWithinTotal /\ [ExportNext]_exportedVars
      => CopiesWithinTotal'
  <2> SUFFICES ASSUME TypeOK, TypeOK', ExportTypeOK, GaugesAgree, EveryPacketCountedOnce,
                      CopiesWithinTotal, [ExportNext]_exportedVars,
                      NEW s \in Streams
               PROVE  CopiesWithin(s)'
    BY DEF CopiesWithinTotal
  <2>a. CopiesWithin(s)
    BY DEF CopiesWithinTotal
  <2>1. \A c \in CounterName : counter[c][s] \in Nat /\ observed[c][s] \in Nat
    BY DEF TypeOK, ExportTypeOK
  <2>2. CASE UNCHANGED exportVars /\ [Next]_vars
    <3>1. \A c \in CounterName : counter'[c][s] \in Nat /\ counter[c][s] <= counter'[c][s]
      BY <2>2, CountersAndGaugesGrow DEF TypeOK
    <3>2. QED
      BY <2>1, <2>a, <2>2, <3>1 DEF CopiesWithin, exportVars, CounterName
  <2>3. CASE StartCycle
    BY <2>a, <2>3 DEF StartCycle, CopiesWithin
  <2>4. CASE observeValidPacketsReceived
    BY <2>1, <2>a, <2>4 DEF observeValidPacketsReceived, ObserveCounter, CounterName,
                            ExportTypeOK, CopiesWithin, vars, singletonVars, counterVars
  <2>5. CASE observeFuturePacketsReceived
    BY <2>1, <2>a, <2>5 DEF observeFuturePacketsReceived, ObserveCounter, CounterName,
                            ExportTypeOK, CopiesWithin, vars, singletonVars, counterVars
  <2>6. CASE observeExpiredPacketsReceived
    BY <2>1, <2>a, <2>6 DEF observeExpiredPacketsReceived, ObserveCounter, CounterName,
                            ExportTypeOK, CopiesWithin, vars, singletonVars, counterVars
  <2>7. CASE observeTotalPacketsReceived
    <3>1. counter["valid"][s] + counter["future"][s] + counter["expired"][s]
            <= counter["total"][s]
      <4>1. rejected[s] \in Nat
        BY DEF TypeOK
      <4>2. InHand(s, {"classify", "future", "expired", "cumulativeValid", "valid"}) \in Nat
        BY DEF InHand
      <4>3. QED
        BY <2>1, <4>1, <4>2 DEF EveryPacketCountedOnce, CounterName
    <3>2. QED
      BY <2>1, <2>a, <2>7, <3>1 DEF observeTotalPacketsReceived, ObserveCounter, CounterName,
                                    ExportTypeOK, CopiesWithin
  <2>8. CASE observeWindowedAverageLatency \/ observeWindowedAverageCounts
             \/ observeWindowedStdCounts
    BY <2>1, <2>a, <2>8
       DEF observeWindowedAverageLatency, observeWindowedAverageCounts,
           observeWindowedStdCounts, ObserveGauge, CopiesWithin
  <2>9. QED
    BY <2>2, <2>3, <2>4, <2>5, <2>6, <2>7, <2>8
       DEF ExportNext, Exporter, exportedVars
<1>3. CopiesWithinTotal => ExportedPartsWithinTotal
  BY DEF CopiesWithinTotal, CopiesWithin, ExportedPartsWithinTotal
<1>4. ExportSpec => [](TypeOK /\ GaugesAgree /\ EveryPacketCountedOnce)
  BY ExportIsPipeline, TypeCorrect, GaugesAlwaysAgree, CountedOnce, PTL
<1>5. QED
  BY <1>1, <1>2, <1>3, <1>4, ExportTypeCorrect, PTL DEF ExportSpec, exportedVars

-----------------------------------------------------------------------------
\* The copies of the gauges.

\* Each copy made in this cycle is within its live map, and within the copies
\* made after it.
CopiesComplete ==
    /\ observing = "counts" => DOMAIN observedGauge["latency"] \subseteq DOMAIN gauge["latency"]
    /\ observing = "std" =>
          /\ DOMAIN observedGauge["latency"] \subseteq DOMAIN observedGauge["counts"]
          /\ DOMAIN observedGauge["counts"] \subseteq DOMAIN gauge["counts"]
    /\ observing \notin {"counts", "std"} =>
          /\ DOMAIN observedGauge["latency"] \subseteq DOMAIN observedGauge["counts"]
          /\ DOMAIN observedGauge["counts"] \subseteq DOMAIN observedGauge["std"]

\* A stream the collector receives a latency of comes with its counts and its
\* standard deviation, in every cycle.
THEOREM GaugesComplete == ExportSpec => []ExportedGaugesComplete
<1>1. ExportInit => CopiesComplete
  BY DEF ExportInit, CopiesComplete, GaugeName
<1>2. TypeOK /\ ExportTypeOK /\ GaugesAgree /\ CopiesComplete
        /\ [ExportNext]_exportedVars
      => CopiesComplete'
  <2> SUFFICES ASSUME TypeOK, ExportTypeOK, GaugesAgree, CopiesComplete,
                      [ExportNext]_exportedVars
               PROVE  CopiesComplete'
    OBVIOUS
  <2>1. CASE UNCHANGED exportVars /\ [Next]_vars
    <3>1. \A g \in GaugeName : DOMAIN gauge[g] \subseteq DOMAIN gauge'[g]
      BY <2>1, CountersAndGaugesGrow
    <3>2. QED
      BY <2>1, <3>1 DEF CopiesComplete, exportVars, GaugeName
  <2>2. CASE StartCycle \/ observeValidPacketsReceived \/ observeFuturePacketsReceived
             \/ observeExpiredPacketsReceived \/ observeTotalPacketsReceived
    BY <2>2 DEF StartCycle, observeValidPacketsReceived, observeFuturePacketsReceived,
                observeExpiredPacketsReceived, observeTotalPacketsReceived,
                ObserveCounter, CopiesComplete
  <2>3. CASE observeWindowedAverageLatency
    BY <2>3 DEF observeWindowedAverageLatency, ObserveGauge, CopiesComplete, GaugeName,
                ExportTypeOK, vars, singletonVars, windowVars
  <2>4. CASE observeWindowedAverageCounts
    BY <2>4 DEF observeWindowedAverageCounts, ObserveGauge, CopiesComplete, GaugeName,
                ExportTypeOK, GaugesAgree, vars, singletonVars, windowVars
  <2>5. CASE observeWindowedStdCounts
    BY <2>5 DEF observeWindowedStdCounts, ObserveGauge, CopiesComplete, GaugeName,
                ExportTypeOK, GaugesAgree
  <2>6. QED
    BY <2>1, <2>2, <2>3, <2>4, <2>5 DEF ExportNext, Exporter, exportedVars
<1>3. CopiesComplete => ExportedGaugesComplete
  BY DEF CopiesComplete, ExportedGaugesComplete
<1>4. ExportSpec => [](TypeOK /\ GaugesAgree)
  BY ExportIsPipeline, TypeCorrect, GaugesAlwaysAgree, PTL
<1>5. QED
  BY <1>1, <1>2, <1>3, <1>4, ExportTypeCorrect, PTL DEF ExportSpec, exportedVars

-----------------------------------------------------------------------------
\* The summary.

reportedVars == <<vars, reportVars>>

\* What was logged so far is what the last report remembered, and what was
\* remembered or loaded is not ahead of the counters.
ReportsRemembered ==
    /\ cumulativeTotal \in Nat
    /\ cumulativeValid \in Nat
    /\ totalPackets \in Nat
    /\ totalReceivedLastReport \in Nat
    /\ validReceivedLastReport \in Nat
    /\ logged = [total |-> totalReceivedLastReport, valid |-> validReceivedLastReport]
    /\ totalReceivedLastReport <= totalPackets
    /\ totalPackets <= cumulativeTotal
    /\ validReceivedLastReport <= cumulativeValid
    /\ report.total \in Nat
    /\ report.valid \in Nat

\* The pipeline's steps raise the cumulative counters by one or leave them.
LEMMA CumulativeGrow ==
  ASSUME [Next]_vars
  PROVE  /\ cumulativeTotal' \in {cumulativeTotal, cumulativeTotal + 1}
         /\ cumulativeValid' \in {cumulativeValid, cumulativeValid + 1}
<1> USE DEF counterVars, windowVars, singletonVars, pipelineVars
<1>1. CASE TabulateStep
  BY <1>1 DEF TabulateStep, tabulateMetrics, IncrementCumulativeTotal, IncrementTotal,
              RejectEmpty, Classify, IncrementFuture, IncrementExpired,
              IncrementCumulativeValid, IncrementReceived, UpdateWindow
<1>2. CASE MetricsThread /\ ~TabulateStep
  BY <1>2 DEF MetricsThread, LoopAgain, LeaveLoop, TakePacket, FindQueueEmpty,
              FlushAfterPacket, StampLastUpdate, CatchException, FlushWhenIdle, WakeUp
<1>3. CASE addPacketCallback \/ FailToEnqueue \/ ClearKeepRunning \/ PassTime
              \/ UNCHANGED vars
  BY <1>3 DEF addPacketCallback, FailToEnqueue, ClearKeepRunning, PassTime, Tick, vars
<1>4. QED
  BY <1>1, <1>2, <1>3 DEF Next

\* Over the life of the program no packet is reported twice, and no report is
\* negative.
THEOREM ReportsAddUp == ReportSpec => []NoPacketReportedTwice
<1>1. ReportInit => ReportsRemembered
  BY DEF ReportInit, Init, SingletonInit, Nothing, ReportsRemembered
<1>2. ReportsRemembered /\ [ReportNext]_reportedVars => ReportsRemembered'
  <2> SUFFICES ASSUME ReportsRemembered, [ReportNext]_reportedVars PROVE ReportsRemembered'
    OBVIOUS
  <2> USE DEF ReportsRemembered, vars, singletonVars, counterVars
  <2>1. CASE [Next]_vars /\ UNCHANGED reportVars
    BY <2>1, CumulativeGrow DEF reportVars
  <2>2. CASE SummaryDue
    BY <2>2 DEF SummaryDue
  <2>3. CASE LoadTotal
    BY <2>3 DEF LoadTotal
  <2>4. CASE LoadValidAndLog
    <3>1. report' = [total |-> totalPackets - totalReceivedLastReport,
                     valid |-> cumulativeValid - validReceivedLastReport]
      BY <2>4 DEF LoadValidAndLog
    <3>2. report'.total \in Nat /\ report'.valid \in Nat
      BY <3>1
    <3>3. logged' = [total |-> totalPackets, valid |-> cumulativeValid]
      BY <2>4, <3>1 DEF LoadValidAndLog
    <3>4. QED
      BY <2>4, <3>2, <3>3 DEF LoadValidAndLog
  <2>5. QED
    BY <2>1, <2>2, <2>3, <2>4 DEF ReportNext, printSummary, reportedVars
<1>3. ReportsRemembered => NoPacketReportedTwice
  BY DEF ReportsRemembered, NoPacketReportedTwice
<1>4. QED
  BY <1>1, <1>2, <1>3, PTL DEF ReportSpec, reportedVars

-----------------------------------------------------------------------------
\* Both readers.

\* Neither reader disturbs the other, and a program may lack either.
LEMMA ObserversExport == ObserversSpec => ExportSpec
<1>1. ObserversInit => ExportInit
  BY DEF ObserversInit
<1>2. [ObserversNext]_observerVars => [ExportNext]_exportedVars
  BY DEF ObserversNext, ExportNext, observerVars, exportedVars, printSummary, SummaryDue,
         LoadTotal, LoadValidAndLog
<1>3. QED
  BY <1>1, <1>2, PTL DEF ObserversSpec, ExportSpec, exportedVars

LEMMA ObserversReport == ObserversSpec => ReportSpec
<1>1. ObserversInit => ReportInit
  BY DEF ObserversInit
<1>2. [ObserversNext]_observerVars => [ReportNext]_reportedVars
  BY DEF ObserversNext, ReportNext, observerVars, reportedVars, Exporter, StartCycle,
         ObserveCounter, ObserveGauge, observeValidPacketsReceived,
         observeFuturePacketsReceived, observeExpiredPacketsReceived,
         observeTotalPacketsReceived, observeWindowedAverageLatency,
         observeWindowedAverageCounts, observeWindowedStdCounts
<1>3. QED
  BY <1>1, <1>2, PTL DEF ObserversSpec, ReportSpec, reportedVars

\* In a program with any observers, what is exported and what is reported hold
\* together, and its packets are counted once all the same.
THEOREM ObserversAgree ==
  ObserversSpec => [](/\ ExportedPartsWithinTotal
                      /\ ExportedGaugesComplete
                      /\ NoPacketReportedTwice
                      /\ EveryPacketCountedOnce)
BY ObserversExport, ObserversReport, PartsWithinTotal, GaugesComplete, ReportsAddUp,
   ExportIsPipeline, CountedOnce, PTL

=============================================================================
