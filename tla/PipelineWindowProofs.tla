-------------------------- MODULE PipelineWindowProofs --------------------------
(***************************************************************************)
(* Proofs about the windows of the pipeline, for every set of streams and  *)
(* whatever packets arrive: that they close in time when the metrics       *)
(* thread keeps up, and that what is published when one closes are the     *)
(* averages of the packets that went into it.                              *)
(***************************************************************************)
EXTENDS PromptPipeline, PublishedGauges, PacketPipelineProofs

-----------------------------------------------------------------------------
\* How long a window lasts.

\* The clock advances only once between two idle checks.
Checked ==
    /\ checkedAt \in Int
    /\ checkedAt <= clock /\ clock <= checkedAt + 1

\* lastUpdate was stamped after a flush, and a window that this flush left alone was
\* not yet due: so the idle check waits for no more than two intervals.
Flushed ==
    /\ lastUpdate <= clock
    /\ \A s \in DOMAIN windows :
          /\ windows[s].lastUpdate <= clock
          /\ lastUpdate <= windows[s].lastUpdate + UpdateInterval
          /\ checkedAt <= windows[s].lastUpdate + 2 * UpdateInterval

\* Between the flush and the stamp the clock may advance, but only once.
BeforeStamp ==
    pc = "stamp" =>
        \A s \in DOMAIN windows :
            /\ clock <= windows[s].lastUpdate + UpdateInterval
            /\ checkedAt = clock => clock < windows[s].lastUpdate + UpdateInterval

InTime == Checked /\ Flushed /\ BeforeStamp

-----------------------------------------------------------------------------
\* A prompt behaviour is one of the pipeline.
LEMMA PromptIsPipeline == PromptSpec => Spec
<1>1. PromptInit => Init
  BY DEF PromptInit
<1>2. [PromptNext]_promptVars => [Next]_vars
  BY DEF PromptNext, promptVars
<1>3. QED
  BY <1>1, <1>2, PTL DEF PromptSpec, Spec

LEMMA Interval == UpdateInterval \in Nat /\ UpdateInterval >= 1
BY UpdateIntervalAssumption

\* After a flush no window is due.
LEMMA FlushLeavesNoneDue ==
  ASSUME TypeOK, updateAndResetWindowedMetrics
  PROVE  /\ DOMAIN windows' = DOMAIN windows
         /\ \A s \in DOMAIN windows :
               /\ windows[s].lastUpdate \in Nat /\ windows'[s].lastUpdate \in Nat
               /\ windows'[s].lastUpdate \in {windows[s].lastUpdate, clock}
               /\ clock < windows'[s].lastUpdate + UpdateInterval
<1> DEFINE due == {s \in DOMAIN windows : Due(windows[s], clock)}
<1>1. windows' = [s \in DOMAIN windows |->
                    IF s \in due THEN NewWindow(clock) ELSE windows[s]]
  BY DEF updateAndResetWindowedMetrics
<1>2. clock \in Nat /\ \A s \in DOMAIN windows : windows[s].lastUpdate \in Nat
  BY DEF TypeOK, Window
<1>3. ASSUME NEW s \in DOMAIN windows
      PROVE  /\ windows'[s].lastUpdate \in {windows[s].lastUpdate, clock}
             /\ clock < windows'[s].lastUpdate + UpdateInterval
  <2>1. CASE s \in due
    <3>1. windows'[s] = NewWindow(clock)
      BY <1>1, <2>1
    <3>2. windows'[s].lastUpdate = clock
      BY <3>1 DEF NewWindow
    <3>3. QED
      BY <1>2, <3>2, Interval
  <2>2. CASE s \notin due
    <3>1. windows'[s] = windows[s] /\ ~Due(windows[s], clock)
      BY <1>1, <2>2
    <3>2. QED
      BY <1>2, <3>1, Interval DEF Due
  <2>3. QED
    BY <2>1, <2>2
<1>4. QED
  BY <1>1, <1>2, <1>3

\* Only the idle check can be told from its two states.
LEMMA OnlyTheIdleCheck ==
  ASSUME FlushWhenIdle
  PROVE  pc = "idle" /\ pc' = "sleep"
BY DEF FlushWhenIdle

\* A step that leaves windows, the clock and the stamp alone.
LEMMA OtherStepsAreInTime ==
  ASSUME InTime, pc' # "stamp" \/ pc' = pc,
         UNCHANGED <<clock, windows, lastUpdate, checkedAt>>
  PROVE  InTime'
BY DEF InTime, Checked, Flushed, BeforeStamp

LEMMA StepIsInTime == TypeOK /\ InTime /\ [PromptNext]_promptVars => InTime'
<1> SUFFICES ASSUME TypeOK, InTime, [PromptNext]_promptVars
             PROVE  InTime'
  OBVIOUS
<1>t. /\ clock \in Nat /\ lastUpdate \in Nat /\ checkedAt \in Int
      /\ \A s \in DOMAIN windows : windows[s].lastUpdate \in Nat
  BY DEF TypeOK, Window, InTime, Checked
<1>1. CASE FlushWhenIdle /\ PromptNext
  <2>1. /\ pc' = "sleep" /\ checkedAt' = clock
        /\ UNCHANGED <<clock, lastUpdate>>
    BY <1>1 DEF FlushWhenIdle, PromptNext, pipelineVars
  <2>2. CASE clock > lastUpdate + UpdateInterval
    <3>1. updateAndResetWindowedMetrics
      BY <1>1, <2>2 DEF FlushWhenIdle
    <3>2. ASSUME NEW s \in DOMAIN windows'
          PROVE  /\ windows'[s].lastUpdate <= clock
                 /\ lastUpdate <= windows'[s].lastUpdate + UpdateInterval
                 /\ clock <= windows'[s].lastUpdate + 2 * UpdateInterval
      <4>1. /\ s \in DOMAIN windows /\ windows'[s].lastUpdate \in Nat
            /\ windows'[s].lastUpdate \in {windows[s].lastUpdate, clock}
            /\ clock < windows'[s].lastUpdate + UpdateInterval
        BY <3>1, FlushLeavesNoneDue
      <4>2. /\ windows[s].lastUpdate <= clock
            /\ lastUpdate <= clock
        BY <4>1 DEF InTime, Flushed
      <4>3. QED
        BY <1>t, <4>1, <4>2, Interval
    <3>3. QED
      BY <1>t, <2>1, <3>2 DEF InTime, Checked, Flushed, BeforeStamp
  <2>3. CASE ~(clock > lastUpdate + UpdateInterval)
    <3>1. windows' = windows
      BY <1>1, <2>3 DEF FlushWhenIdle, windowVars
    <3>2. ASSUME NEW s \in DOMAIN windows
          PROVE  clock <= windows[s].lastUpdate + 2 * UpdateInterval
      <4>1. lastUpdate <= windows[s].lastUpdate + UpdateInterval
        BY DEF InTime, Flushed
      <4>2. QED
        BY <1>t, <2>3, <4>1, Interval
    <3>3. QED
      BY <1>t, <2>1, <3>1, <3>2 DEF InTime, Checked, Flushed, BeforeStamp
  <2>4. QED
    BY <2>2, <2>3
<1>2. CASE PassTime /\ PromptNext
  <2>1. /\ clock' = clock + 1 /\ UNCHANGED <<windows, lastUpdate, pc>>
    BY <1>2 DEF PassTime, Tick, pipelineVars, windowVars
  <2>2. ~FlushWhenIdle
    BY <2>1, OnlyTheIdleCheck
  <2>3. checkedAt' = checkedAt /\ checkedAt = clock
    BY <1>t, <1>2, <2>1, <2>2 DEF PromptNext
  <2>4. Flushed'
    BY <1>t, <2>1, <2>3 DEF InTime, Flushed
  <2>5. BeforeStamp'
    BY <1>t, <2>1, <2>3, Interval DEF InTime, BeforeStamp
  <2>6. QED
    BY <1>t, <2>1, <2>3, <2>4, <2>5 DEF InTime, Checked
<1>3. CASE FlushAfterPacket /\ PromptNext
  <2>1. /\ pc = "returned" /\ updateAndResetWindowedMetrics
        /\ UNCHANGED <<clock, lastUpdate>>
    BY <1>3 DEF FlushAfterPacket, pipelineVars
  <2>2. checkedAt' = checkedAt
    BY <1>3, <2>1, OnlyTheIdleCheck DEF PromptNext
  <2>3. ASSUME NEW s \in DOMAIN windows'
        PROVE  /\ windows'[s].lastUpdate <= clock
               /\ clock < windows'[s].lastUpdate + UpdateInterval
               /\ clock <= windows'[s].lastUpdate + UpdateInterval
               /\ lastUpdate <= windows'[s].lastUpdate + UpdateInterval
               /\ checkedAt <= windows'[s].lastUpdate + 2 * UpdateInterval
    <3>1. /\ s \in DOMAIN windows /\ windows'[s].lastUpdate \in Nat
          /\ windows'[s].lastUpdate \in {windows[s].lastUpdate, clock}
          /\ clock < windows'[s].lastUpdate + UpdateInterval
      BY <2>1, FlushLeavesNoneDue
    <3>2. /\ windows[s].lastUpdate <= clock /\ lastUpdate <= clock
          /\ checkedAt <= clock
      BY <3>1 DEF InTime, Flushed, Checked
    <3>3. QED
      BY <1>t, <3>1, <3>2, Interval
  <2>4. QED
    BY <2>1, <2>2, <2>3 DEF InTime, Checked, Flushed, BeforeStamp
<1>4. CASE StampLastUpdate /\ PromptNext
  <2>1. /\ pc = "stamp" /\ pc' = "loop" /\ lastUpdate' = clock
        /\ UNCHANGED <<clock, windows>>
    BY <1>4 DEF StampLastUpdate, windowVars
  <2>2. checkedAt' = checkedAt
    BY <1>4, <2>1, OnlyTheIdleCheck DEF PromptNext
  <2>3. QED
    BY <1>t, <2>1, <2>2 DEF InTime, Checked, Flushed, BeforeStamp
<1>5. CASE TabulateStep /\ PromptNext
  <2>1. UNCHANGED <<clock, lastUpdate>>
    BY <1>5 DEF TabulateStep, pipelineVars, tabulateMetrics, IncrementCumulativeTotal,
                IncrementTotal, RejectEmpty, Classify, IncrementFuture,
                IncrementExpired, IncrementCumulativeValid, IncrementReceived,
                UpdateWindow
  <2>2. CASE UpdateWindow
    <3> DEFINE w == Update(WindowOf(packet.stream), packet,
                           Latency(packet, tabulatedAt))
    <3>1. /\ pc = "window" /\ pc' = "returned"
          /\ windows' = [t \in DOMAIN windows \cup {packet.stream} |->
                            IF t = packet.stream THEN w ELSE windows[t]]
      BY <2>2 DEF UpdateWindow
    <3>2. w.lastUpdate = WindowOf(packet.stream).lastUpdate
      BY DEF Update
    <3> HIDE DEF w
    <3>3. checkedAt' = checkedAt
      BY <1>5, <3>1, OnlyTheIdleCheck DEF PromptNext
    <3>4. ASSUME NEW s \in DOMAIN windows'
          PROVE  /\ windows'[s].lastUpdate \in Nat
                 /\ windows'[s].lastUpdate <= clock
                 /\ lastUpdate <= windows'[s].lastUpdate + UpdateInterval
                 /\ checkedAt <= windows'[s].lastUpdate + 2 * UpdateInterval
      <4>1. CASE s \in DOMAIN windows
        <5>1. windows'[s].lastUpdate = windows[s].lastUpdate
          BY <3>1, <3>2, <4>1 DEF WindowOf
        <5>2. QED
          BY <1>t, <4>1, <5>1 DEF InTime, Flushed
      <4>2. CASE s \notin DOMAIN windows
        <5>1. s = packet.stream /\ windows'[s].lastUpdate = clock
          BY <3>1, <3>2, <4>2 DEF WindowOf, NewWindow
        <5>2. lastUpdate <= clock /\ checkedAt <= clock
          BY DEF InTime, Flushed, Checked
        <5>3. QED
          BY <1>t, <5>1, <5>2, Interval
      <4>3. QED
        BY <4>1, <4>2
    <3>5. QED
      BY <2>1, <3>1, <3>3, <3>4 DEF InTime, Checked, Flushed, BeforeStamp
  <2>3. CASE ~UpdateWindow
    <3>1. pc' # "stamp" /\ pc' # "sleep" /\ windows' = windows
      BY <1>5, <2>3
         DEF TabulateStep, tabulateMetrics, windowVars, IncrementCumulativeTotal,
             IncrementTotal, RejectEmpty, Classify, ClassOf, IncrementFuture,
             IncrementExpired, IncrementCumulativeValid, IncrementReceived
    <3>2. checkedAt' = checkedAt
      BY <1>5, <3>1, OnlyTheIdleCheck DEF PromptNext
    <3>3. QED
      BY <2>1, <3>1, <3>2, OtherStepsAreInTime
  <2>4. QED
    BY <2>2, <2>3
<1>6. CASE /\ \/ addPacketCallback \/ FailToEnqueue \/ ClearKeepRunning \/ LoopAgain \/ LeaveLoop
              \/ TakePacket \/ FindQueueEmpty \/ CatchException \/ WakeUp
           /\ PromptNext
  <2>1. /\ UNCHANGED <<clock, windows, lastUpdate>>
        /\ (pc' # "stamp" /\ pc' # "sleep") \/ pc' = pc
    BY <1>6 DEF addPacketCallback, FailToEnqueue, ClearKeepRunning, LoopAgain, LeaveLoop, TakePacket,
                FindQueueEmpty, CatchException, WakeUp, singletonVars, windowVars,
                pipelineVars
  <2>2. checkedAt' = checkedAt
    BY <1>6, <2>1, OnlyTheIdleCheck DEF PromptNext
  <2>3. QED
    BY <2>1, <2>2, OtherStepsAreInTime
<1>7. CASE UNCHANGED promptVars
  BY <1>7, OtherStepsAreInTime DEF promptVars, vars, singletonVars, windowVars,
                                   pipelineVars
<1>8. QED
  BY <1>1, <1>2, <1>3, <1>4, <1>5, <1>6, <1>7
     DEF PromptNext, Next, MetricsThread

\* When the metrics thread keeps up, no window outlasts two update intervals and the
\* unit of the clock that may pass before the loop looks again.
THEOREM WindowsClose == PromptSpec => []WindowsCloseInTime
<1>1. PromptInit => InTime
  BY DEF PromptInit, Init, SingletonInit, InTime, Checked, Flushed, BeforeStamp
<1>2. TypeOK /\ InTime => WindowsCloseInTime
  <2> SUFFICES ASSUME TypeOK, InTime, NEW s \in DOMAIN windows
               PROVE  clock <= windows[s].lastUpdate + 2 * UpdateInterval + 1
    BY DEF WindowsCloseInTime
  <2>1. /\ clock \in Nat /\ checkedAt \in Int /\ windows[s].lastUpdate \in Nat
        /\ clock <= checkedAt + 1
        /\ checkedAt <= windows[s].lastUpdate + 2 * UpdateInterval
    BY DEF TypeOK, Window, InTime, Checked, Flushed
  <2>2. QED
    BY <2>1, Interval
<1>3. QED
  BY <1>1, <1>2, StepIsInTime, PromptIsPipeline, TypeCorrect, PTL DEF PromptSpec

-----------------------------------------------------------------------------
\* What is published for a stream.

Contribution == [nSamples : Nat, sum : Int, latency : Nat]
Field == {"nSamples", "sum", "latency"}

Values(field, record) == [i \in DOMAIN record |-> record[i][field]]

LEMMA ValuesOfRecord ==
  ASSUME NEW field \in Field, NEW record \in Seq(Contribution)
  PROVE  /\ Values(field, record) \in Seq(Int)
         /\ Len(Values(field, record)) = Len(record)
<1>1. Len(record) \in Nat /\ DOMAIN record = 1 .. Len(record)
  OBVIOUS
<1>2. \A i \in 1 .. Len(record) : record[i] \in Contribution
  BY <1>1
<1>3. \A i \in 1 .. Len(record) : record[i][field] \in Int
  BY <1>2 DEF Contribution, Field
<1>4. Values(field, record) \in [1 .. Len(record) -> Int]
  BY <1>1, <1>3 DEF Values
<1>5. QED
  BY <1>1, <1>4

LEMMA TotalOfNone == ASSUME NEW field PROVE Total(field, <<>>) = 0
<1> DEFINE f == [i \in DOMAIN <<>> |-> <<>>[i][field]]
<1>1. DOMAIN f = {}
  OBVIOUS
<1> HIDE DEF f
<1>2. SumFunction(f) = 0
  BY <1>1, SumOfNone DEF SumFunction
<1>3. QED
  BY <1>2 DEF Total, f

\* One more packet adds its value to every total.
LEMMA TotalOfAppend ==
  ASSUME NEW field \in Field, NEW record \in Seq(Contribution), NEW e \in Contribution
  PROVE  /\ Total(field, Append(record, e)) = Total(field, record) + e[field]
         /\ Total(field, record) \in Int
<1> DEFINE v == Values(field, record)
           more == Append(record, e)
           n == Len(record)
<1>1. /\ n \in Nat /\ DOMAIN record = 1 .. n
      /\ more \in Seq(Contribution) /\ Len(more) = n + 1 /\ DOMAIN more = 1 .. n + 1
      /\ \A i \in 1 .. n : more[i] = record[i]
      /\ more[n + 1] = e
  BY AppendProperties
<1>2. e[field] \in Int
  BY DEF Contribution, Field
<1>3. v \in Seq(Int) /\ Len(v) = n /\ Values(field, more) \in Seq(Int)
      /\ Len(Values(field, more)) = n + 1
  BY <1>1, ValuesOfRecord
<1>4. /\ Append(v, e[field]) \in Seq(Int) /\ Len(Append(v, e[field])) = n + 1
      /\ \A i \in 1 .. n : Append(v, e[field])[i] = v[i]
      /\ Append(v, e[field])[n + 1] = e[field]
  BY <1>2, <1>3, AppendProperties
<1>5. \A i \in 1 .. n : v[i] = record[i][field] /\ Values(field, more)[i] = record[i][field]
  BY <1>1 DEF Values
<1>6. Values(field, more)[n + 1] = e[field]
  BY <1>1 DEF Values
<1>7. Values(field, more) = Append(v, e[field])
  <2>1. \A i \in 1 .. n + 1 : Values(field, more)[i] = Append(v, e[field])[i]
    <3> HIDE DEF v, more
    <3>1. \A i \in 1 .. n + 1 : i \in 1 .. n \/ i = n + 1
      BY <1>1
    <3>2. QED
      BY <1>4, <1>5, <1>6, <3>1
  <2> HIDE DEF v, more
  <2>2. QED
    BY <1>3, <1>4, <2>1, SeqEqual
<1>8. SumFunction(Append(v, e[field])) = SumFunction(v) + e[field] /\ SumFunction(v) \in Int
  <2> HIDE DEF v
  <2>1. QED
    BY <1>2, <1>3, SumOfAppend, SumOfSequence
<1>9. QED
  BY <1>7, <1>8 DEF Total, Values

\* A window that holds the totals of a record.
Holds(w, record) ==
    /\ w.packetsCount = Len(record)
    /\ w.samplesCount = Total("nSamples", record)
    /\ w.sum = Total("sum", record)
    /\ w.sumLatency = Total("latency", record)
    /\ record # <<>> => w.samplesCount > 0

LEMMA NewWindowHoldsNone == ASSUME NEW now PROVE Holds(NewWindow(now), <<>>)
  BY TotalOfNone DEF Holds, NewWindow

LEMMA UpdateHoldsOneMore ==
  ASSUME NEW w \in Window, NEW record \in Seq(Contribution), Holds(w, record),
         NEW p \in Packets, p.nSamples > 0, NEW latency \in Nat
  PROVE  LET e == [nSamples |-> p.nSamples, sum |-> p.sum, latency |-> latency]
         IN  /\ e \in Contribution
             /\ Append(record, e) \in Seq(Contribution)
             /\ Holds(Update(w, p, latency), Append(record, e))
<1> DEFINE e == [nSamples |-> p.nSamples, sum |-> p.sum, latency |-> latency]
           more == Append(record, e)
<1>1. p.nSamples \in Nat /\ p.sum \in Int
  BY PacketsAssumption DEF PacketType
<1>2. e \in Contribution /\ e.nSamples = p.nSamples /\ e.sum = p.sum /\ e.latency = latency
  BY <1>1 DEF Contribution
<1> HIDE DEF e
<1>3. /\ Total("nSamples", more) = Total("nSamples", record) + p.nSamples
      /\ Total("sum", more) = Total("sum", record) + p.sum
      /\ Total("latency", more) = Total("latency", record) + latency
  BY <1>2, TotalOfAppend DEF Field
<1>4. more \in Seq(Contribution) /\ Len(more) = Len(record) + 1
  BY <1>2, AppendProperties
<1> HIDE DEF more
<1>5. /\ Update(w, p, latency).packetsCount = w.packetsCount + 1
      /\ Update(w, p, latency).samplesCount = w.samplesCount + p.nSamples
      /\ Update(w, p, latency).sum = w.sum + p.sum
      /\ Update(w, p, latency).sumLatency = w.sumLatency + latency
  BY <1>1 DEF Update
<1>6. w.samplesCount \in Nat
  BY DEF Window
<1>7. Holds(Update(w, p, latency), more)
  BY <1>1, <1>3, <1>4, <1>5, <1>6 DEF Holds
<1>8. QED
  BY <1>2, <1>4, <1>7 DEF e, more

\* The values of the gauges of a window that holds a record are its averages.
LEMMA GaugesOfRecord ==
  ASSUME NEW w \in Window, NEW record \in Seq(Contribution), Holds(w, record)
  PROVE  AreAveragesOf([g \in GaugeName |-> GaugeValue(g, w)], record)
<1> DEFINE n == w.samplesCount
           m == w.packetsCount
           v == VarianceNumerator(w)
<1>1. /\ n \in Nat /\ m \in Nat /\ w.sum \in Int /\ w.sumSquared \in Int
      /\ w.sumLatency \in Nat
  BY DEF Window
<1>2. /\ record = <<>> => n = 0
      /\ record # <<>> => n > 0 /\ m > 0
  <2>1. record # <<>> => Len(record) > 0
    OBVIOUS
  <2>2. QED
    BY <2>1, TotalOfNone DEF Holds
<1>3. /\ GaugeValue("latency", w)[2] > 0
      /\ record = <<>> => GaugeValue("latency", w) = <<UpdateInterval, 1>>
      /\ record # <<>> => GaugeValue("latency", w) = <<Total("latency", record), Len(record)>>
  BY <1>1, <1>2 DEF GaugeValue, AverageLatency, Holds
<1>4. /\ GaugeValue("counts", w)[2] > 0
      /\ record = <<>> => GaugeValue("counts", w) = <<0, 1>>
      /\ record # <<>> => GaugeValue("counts", w) = <<Total("sum", record), Total("nSamples", record)>>
  BY <1>1, <1>2 DEF GaugeValue, AverageCounts, Holds
<1>5. /\ GaugeValue("std", w)[2] > 0
      /\ record = <<>> => GaugeValue("std", w) = <<0, 1>>
  <2>1. n > 1 => (n - 1) * (n - 1) > 0
    BY <1>1
  <2>2. QED
    BY <1>1, <1>2, <2>1 DEF GaugeValue, StdCountsSquared
<1>6. QED
  BY <1>3, <1>4, <1>5 DEF AreAveragesOf, GaugeName, EqualRationals

Published(s) == AreAveragesOf([g \in GaugeName |-> gauge[g][s]], published[s])

\* Every window holds the packets pending for its stream, a stream without a
\* window has none, and what the gauges show was published together.
Recorded ==
    /\ pending \in [Streams -> Seq(Contribution)]
    /\ published \in [Streams -> Seq(Contribution)]
    /\ \A s \in Streams : IF s \in DOMAIN windows THEN Holds(windows[s], pending[s])
                                                 ELSE pending[s] = <<>>
    /\ \A g \in GaugeName : DOMAIN gauge[g] = DOMAIN gauge["counts"]
    /\ GaugesAverageTheirPackets

\* A behaviour with records is one of the pipeline.
LEMMA PublishedIsPipeline == PublishedSpec => Spec
<1>1. PublishedInit => Init
  BY DEF PublishedInit
<1>2. [PublishedNext]_publishedVars => [Next]_vars
  BY DEF PublishedNext, publishedVars
<1>3. QED
  BY <1>1, <1>2, PTL DEF PublishedSpec, Spec

\* A step updates one window, flushes, or leaves windows, gauges and records.
LEMMA StepsOfWindows ==
  ASSUME TypeOK, [Next]_vars
  PROVE  \/ /\ UpdateWindow
            /\ \A s \in Streams : ~Closes(s) /\ (Averages(s) <=> s = packet.stream)
         \/ /\ updateAndResetWindowedMetrics
            /\ \A s \in Streams : ~Averages(s)
            /\ \A s \in Streams : Closes(s) <=> s \in DOMAIN windows /\ Due(windows[s], clock)
         \/ /\ UNCHANGED <<windows, gauge>>
            /\ \A s \in Streams : ~Averages(s) /\ ~Closes(s)
<1> USE DEF Averages, Closes
<1>1. CASE addPacketCallback \/ FailToEnqueue \/ ClearKeepRunning \/ PassTime
              \/ UNCHANGED vars
  BY <1>1 DEF addPacketCallback, FailToEnqueue, ClearKeepRunning, PassTime, Tick, vars, singletonVars,
              windowVars
<1>2. CASE LoopAgain \/ LeaveLoop \/ TakePacket \/ FindQueueEmpty
  BY <1>2 DEF LoopAgain, LeaveLoop, TakePacket, FindQueueEmpty, windowVars
<1>3. CASE StampLastUpdate \/ CatchException \/ WakeUp
  BY <1>3 DEF StampLastUpdate, CatchException, WakeUp, windowVars
<1>4. CASE UpdateWindow
  BY <1>4 DEF UpdateWindow
<1>5. CASE TabulateStep /\ ~UpdateWindow
  BY <1>5 DEF TabulateStep, tabulateMetrics, IncrementCumulativeTotal, IncrementTotal,
              RejectEmpty, Classify, IncrementFuture, IncrementExpired,
              IncrementCumulativeValid, IncrementReceived, windowVars
<1>6. CASE FlushAfterPacket
  BY <1>6 DEF FlushAfterPacket
<1>7. CASE FlushWhenIdle
  <2>1. CASE clock > lastUpdate + UpdateInterval
    BY <1>7, <2>1 DEF FlushWhenIdle
  <2>2. CASE ~(clock > lastUpdate + UpdateInterval)
    BY <1>7, <2>2 DEF FlushWhenIdle, windowVars
  <2>3. QED
    BY <2>1, <2>2
<1>8. QED
  BY <1>1, <1>2, <1>3, <1>4, <1>5, <1>6, <1>7 DEF Next, MetricsThread, TabulateStep

LEMMA StepKeepsRecord ==
  ASSUME TypeOK, ClassifiedPacketsHaveSamples, Recorded, PublishedNext
  PROVE  Recorded'
<1>a. /\ pending \in [Streams -> Seq(Contribution)]
      /\ published \in [Streams -> Seq(Contribution)]
      /\ \A s \in Streams : s \in DOMAIN windows => Holds(windows[s], pending[s])
      /\ \A s \in Streams : s \notin DOMAIN windows => pending[s] = <<>>
      /\ \A g \in GaugeName : DOMAIN gauge[g] = DOMAIN gauge["counts"]
      /\ \A s \in DOMAIN gauge["counts"] : Published(s)
  BY DEF Recorded, GaugesAverageTheirPackets, Published
<1>b. /\ DOMAIN windows \subseteq Streams
      /\ \A s \in DOMAIN windows : windows[s] \in Window
      /\ DOMAIN gauge["counts"] \subseteq Streams
      /\ packet \in Packets /\ packet.stream \in Streams
      /\ clock \in Nat /\ tabulatedAt \in Nat
  BY PacketsAssumption DEF TypeOK, GaugeName, PacketType
<1>c. /\ pending' =
           [s \in Streams |->
              IF Averages(s)
              THEN Append(pending[s], [nSamples |-> packet.nSamples,
                                       sum      |-> packet.sum,
                                       latency  |-> Latency(packet, tabulatedAt)])
              ELSE IF Closes(s) THEN <<>> ELSE pending[s]]
      /\ published' = [s \in Streams |-> IF Closes(s) THEN pending[s] ELSE published[s]]
      /\ [Next]_vars
  BY DEF PublishedNext
<1>d. <<>> \in Seq(Contribution)
  OBVIOUS
<1>1. CASE /\ UpdateWindow
           /\ \A s \in Streams : ~Closes(s) /\ (Averages(s) <=> s = packet.stream)
  <2> DEFINE t == packet.stream
             latency == Latency(packet, tabulatedAt)
             e == [nSamples |-> packet.nSamples, sum |-> packet.sum, latency |-> latency]
             w == Update(WindowOf(t), packet, latency)
  <2>1. /\ windows' = [u \in DOMAIN windows \cup {t} |-> IF u = t THEN w ELSE windows[u]]
        /\ gauge' = gauge
        /\ published' = published
        /\ pending' = [s \in Streams |-> IF s = t THEN Append(pending[s], e) ELSE pending[s]]
        /\ packet.nSamples > 0
    <3>1. published' = published
      BY <1>1, <1>a, <1>c
    <3>2. packet.nSamples > 0
      BY <1>1 DEF UpdateWindow, ClassifiedPacketsHaveSamples
    <3>3. pending' = [s \in Streams |-> IF s = t THEN Append(pending[s], e) ELSE pending[s]]
      BY <1>1, <1>c
    <3>4. QED
      BY <1>1, <3>1, <3>2, <3>3 DEF UpdateWindow
  <2>2. latency \in Nat
    BY <1>b, LatencyType
  <2>3. WindowOf(t) \in Window /\ Holds(WindowOf(t), pending[t])
    BY <1>a, <1>b, NewWindowType, NewWindowHoldsNone DEF WindowOf
  <2>4. Append(pending[t], e) \in Seq(Contribution) /\ Holds(w, Append(pending[t], e))
    <3>1. pending[t] \in Seq(Contribution)
      BY <1>a, <1>b
    <3> DEFINE old == WindowOf(t)
               r == pending[t]
    <3>2. old \in Window /\ Holds(old, r) /\ r \in Seq(Contribution)
      BY <2>3, <3>1
    <3> HIDE DEF old, r, latency
    <3>3. QED
      BY <1>b, <2>1, <2>2, <3>2, UpdateHoldsOneMore DEF old, r
  <2> HIDE DEF e, w, latency
  <2>5. pending' \in [Streams -> Seq(Contribution)]
    BY <1>a, <2>1, <2>4
  <2>6. \A s \in Streams : IF s \in DOMAIN windows' THEN Holds(windows'[s], pending'[s])
                                                   ELSE pending'[s] = <<>>
    BY <1>a, <1>b, <2>1, <2>4
  <2>7. \A s \in DOMAIN gauge'["counts"] : Published(s)'
    BY <1>a, <2>1 DEF Published
  <2>8. QED
    BY <1>a, <2>1, <2>5, <2>6, <2>7 DEF Recorded, GaugesAverageTheirPackets, Published
<1>2. CASE /\ updateAndResetWindowedMetrics
           /\ \A s \in Streams : ~Averages(s)
           /\ \A s \in Streams : Closes(s) <=> s \in DOMAIN windows /\ Due(windows[s], clock)
  <2> DEFINE due == {s \in DOMAIN windows : Due(windows[s], clock)}
  <2>1. /\ windows' = [s \in DOMAIN windows |->
                          IF s \in due THEN NewWindow(clock) ELSE windows[s]]
        /\ gauge' = [g \in GaugeName |->
                        [s \in DOMAIN gauge[g] \cup due |->
                            IF s \in due THEN GaugeValue(g, windows[s]) ELSE gauge[g][s]]]
    BY <1>2 DEF updateAndResetWindowedMetrics
  <2>2. \A s \in Streams : Closes(s) <=> s \in due
    BY <1>2
  <2>3. due \subseteq DOMAIN windows
    OBVIOUS
  <2> HIDE DEF due
  <2>4. /\ pending' = [s \in Streams |-> IF s \in due THEN <<>> ELSE pending[s]]
        /\ published' = [s \in Streams |-> IF s \in due THEN pending[s] ELSE published[s]]
    BY <1>2, <1>c, <2>2
  <2>5. /\ pending' \in [Streams -> Seq(Contribution)]
        /\ published' \in [Streams -> Seq(Contribution)]
    BY <1>a, <1>d, <2>4
  <2>6. ASSUME NEW s \in Streams
        PROVE  IF s \in DOMAIN windows' THEN Holds(windows'[s], pending'[s])
                                        ELSE pending'[s] = <<>>
    BY <1>a, <2>1, <2>3, <2>4, NewWindowHoldsNone
  <2>7. \A g \in GaugeName : DOMAIN gauge'[g] = DOMAIN gauge'["counts"]
    BY <1>a, <2>1 DEF GaugeName
  <2>8. ASSUME NEW s \in DOMAIN gauge'["counts"]
        PROVE  Published(s)'
    <3>1. s \in DOMAIN gauge["counts"] \cup due /\ s \in Streams
      BY <1>b, <2>1, <2>3 DEF GaugeName
    <3>2. CASE s \in due
      <4>1. [g \in GaugeName |-> gauge'[g][s]] = [g \in GaugeName |-> GaugeValue(g, windows[s])]
        BY <2>1, <3>2
      <4>2. published'[s] = pending[s]
        BY <2>4, <3>1, <3>2
      <4>3. AreAveragesOf([g \in GaugeName |-> GaugeValue(g, windows[s])], pending[s])
        <5>1. windows[s] \in Window /\ pending[s] \in Seq(Contribution)
              /\ Holds(windows[s], pending[s])
          BY <1>a, <1>b, <2>3, <3>1, <3>2
        <5>2. QED
          BY <5>1, GaugesOfRecord
      <4>4. QED
        BY <4>1, <4>2, <4>3 DEF Published
    <3>3. CASE s \notin due
      <4>1. \A g \in GaugeName : gauge'[g][s] = gauge[g][s]
        BY <1>a, <2>1, <3>1, <3>3
      <4>2. [g \in GaugeName |-> gauge'[g][s]] = [g \in GaugeName |-> gauge[g][s]]
        BY <4>1
      <4>3. published'[s] = published[s]
        BY <2>4, <3>1, <3>3
      <4>4. QED
        BY <1>a, <3>1, <3>3, <4>2, <4>3 DEF Published
    <3>4. QED
      BY <3>2, <3>3
  <2>9. QED
    BY <2>5, <2>6, <2>7, <2>8 DEF Recorded, GaugesAverageTheirPackets, Published
<1>3. CASE /\ UNCHANGED <<windows, gauge>>
           /\ \A s \in Streams : ~Averages(s) /\ ~Closes(s)
  <2>1. pending' = pending /\ published' = published
    BY <1>3, <1>a, <1>c
  <2>2. QED
    BY <1>3, <1>a, <2>1 DEF Recorded, GaugesAverageTheirPackets, Published
<1>4. QED
  BY <1>1, <1>2, <1>3, <1>c, StepsOfWindows

\* In every reachable state what is published for a stream are the averages of
\* exactly the packets averaged between the last two closings of its window,
\* for every queue, every number of streams and every order of their packets.
THEOREM GaugesAreOfTheirPackets == PublishedSpec => []GaugesAverageTheirPackets
<1>1. PublishedInit => Recorded
  <2> SUFFICES ASSUME PublishedInit PROVE Recorded
    OBVIOUS
  <2>1. /\ DOMAIN windows = {} /\ \A g \in GaugeName : DOMAIN gauge[g] = {}
        /\ pending = [s \in Streams |-> <<>>] /\ published = [s \in Streams |-> <<>>]
    BY DEF PublishedInit, Init, SingletonInit
  <2>2. <<>> \in Seq(Contribution)
    OBVIOUS
  <2>3. QED
    BY <2>1, <2>2 DEF Recorded, GaugesAverageTheirPackets, GaugeName
<1>2. TypeOK /\ ClassifiedPacketsHaveSamples /\ Recorded /\ [PublishedNext]_publishedVars
      => Recorded'
  <2>1. ASSUME UNCHANGED publishedVars, Recorded PROVE Recorded'
    BY <2>1 DEF publishedVars, vars, singletonVars, windowVars, Recorded,
                GaugesAverageTheirPackets
  <2>2. QED
    BY <2>1, StepKeepsRecord
<1>3. Recorded => GaugesAverageTheirPackets
  BY DEF Recorded
<1>4. QED
  BY <1>1, <1>2, <1>3, PublishedIsPipeline, TypeCorrect, HaveSamples, PTL DEF PublishedSpec

=============================================================================
