------------------------- MODULE PacketPipelineProofs -------------------------
(***************************************************************************)
(* Proofs about the packet pipeline, for every set of streams and packets, *)
(* every queue size, update interval, latency limit and bound.             *)
(***************************************************************************)
EXTENDS PacketPipelineRefinement, SequenceTheorems, SumTheorems, TLAPS

-----------------------------------------------------------------------------
\* The windows.

LEMMA NewWindowType == ASSUME NEW now \in Nat PROVE NewWindow(now) \in Window
  BY DEF NewWindow, Window

LEMMA LatencyType ==
  ASSUME NEW p \in Packets, NEW now \in Nat
  PROVE  Latency(p, now) \in Nat
  BY PacketsAssumption DEF Latency, PacketType

LEMMA UpdateType ==
  ASSUME NEW w \in Window, NEW p \in Packets, NEW latency \in Nat
  PROVE  Update(w, p, latency) \in Window
  BY PacketsAssumption DEF Update, Window, PacketType

LEMMA GaugeValueType ==
  ASSUME NEW w \in Window, NEW g \in GaugeName
  PROVE  GaugeValue(g, w) \in Rational
<1>1. AverageLatency(w) \in Rational
  BY UpdateIntervalAssumption DEF AverageLatency, Rational, Window
<1>2. AverageCounts(w) \in Rational
  BY DEF AverageCounts, Rational, Window
<1>3. StdCountsSquared(w) \in Rational
  <2>1. VarianceNumerator(w) \in Int
    BY DEF VarianceNumerator, Window
  <2>2. w.samplesCount \in Int
    BY DEF Window
  <2>3. (w.samplesCount - 1) * (w.samplesCount - 1) \in Int
    BY <2>2
  <2>4. QED
    BY <2>1, <2>3 DEF StdCountsSquared, Rational
<1>4. QED
  BY <1>1, <1>2, <1>3 DEF GaugeValue, GaugeName

\* The flush keeps both maps and the auxiliary count well typed.
LEMMA FlushType ==
  ASSUME TypeOK, updateAndResetWindowedMetrics
  PROVE  /\ DOMAIN windows' \subseteq Streams
         /\ \A s \in DOMAIN windows' : windows'[s] \in Window
         /\ DOMAIN gauge' = GaugeName
         /\ \A g \in GaugeName : /\ DOMAIN gauge'[g] \subseteq Streams
                                 /\ \A s \in DOMAIN gauge'[g] : gauge'[g][s] \in Rational
         /\ closedPackets' \in [Streams -> Nat]
<1> DEFINE due == {s \in DOMAIN windows : Due(windows[s], clock)}
<1>1. due \subseteq DOMAIN windows /\ DOMAIN windows \subseteq Streams
  BY DEF TypeOK
<1>2. \A s \in DOMAIN windows : windows[s] \in Window
  BY DEF TypeOK
<1>3. NewWindow(clock) \in Window
  BY NewWindowType DEF TypeOK
<1>4. /\ windows' = [s \in DOMAIN windows |->
                        IF s \in due THEN NewWindow(clock) ELSE windows[s]]
      /\ gauge' = [g \in GaugeName |->
                      [s \in DOMAIN gauge[g] \cup due |->
                          IF s \in due THEN GaugeValue(g, windows[s]) ELSE gauge[g][s]]]
      /\ closedPackets' = [s \in Streams |->
                              IF s \in due THEN closedPackets[s] + windows[s].packetsCount
                                           ELSE closedPackets[s]]
  BY DEF updateAndResetWindowedMetrics
<1> HIDE DEF due
<1>5. /\ DOMAIN windows' \subseteq Streams
      /\ \A s \in DOMAIN windows' : windows'[s] \in Window
  BY <1>1, <1>2, <1>3, <1>4
<1>6. ASSUME NEW g \in GaugeName
      PROVE  /\ DOMAIN gauge'[g] \subseteq Streams
             /\ \A s \in DOMAIN gauge'[g] : gauge'[g][s] \in Rational
  <2>1. gauge'[g] = [s \in DOMAIN gauge[g] \cup due |->
                        IF s \in due THEN GaugeValue(g, windows[s]) ELSE gauge[g][s]]
    BY <1>4
  <2>2. DOMAIN gauge[g] \subseteq Streams
    BY DEF TypeOK
  <2>3. ASSUME NEW s \in DOMAIN gauge'[g] PROVE gauge'[g][s] \in Rational
    <3>1. CASE s \in due
      <4>1. GaugeValue(g, windows[s]) \in Rational
        BY <1>1, <1>2, <3>1, GaugeValueType
      <4>2. QED
        BY <2>1, <3>1, <4>1
    <3>2. CASE s \notin due
      <4>1. s \in DOMAIN gauge[g] /\ gauge'[g][s] = gauge[g][s]
        BY <2>1, <3>2
      <4>2. QED
        BY <4>1 DEF TypeOK
    <3>3. QED
      BY <3>1, <3>2
  <2>4. QED
    BY <1>1, <2>1, <2>2, <2>3
<1>7. closedPackets' \in [Streams -> Nat]
  <2>1. ASSUME NEW s \in due PROVE windows[s].packetsCount \in Nat
    BY <1>1, <1>2 DEF Window
  <2>2. closedPackets \in [Streams -> Nat]
    BY DEF TypeOK
  <2>3. QED
    BY <1>4, <2>1, <2>2
<1>8. DOMAIN gauge' = GaugeName
  BY <1>4
<1>9. QED
  BY <1>5, <1>6, <1>7, <1>8

-----------------------------------------------------------------------------
\* The queue.

\* What addPacketCallback leaves of a queue that is not over its capacity:
\* the queue itself, or the queue without its oldest packet.
LEMMA WithRoomProperties ==
  ASSUME NEW S, NEW q \in Seq(S), Len(q) <= MaximumQueueSize
  PROVE  /\ WithRoom(q) \in Seq(S)
         /\ Len(q) < MaximumQueueSize => WithRoom(q) = q
         /\ Len(q) = MaximumQueueSize => /\ q # <<>>
                                        /\ WithRoom(q) = Tail(q)
                                        /\ Len(WithRoom(q)) = Len(q) - 1
         /\ Len(WithRoom(q)) < MaximumQueueSize
<1>1. Len(q) \in Nat /\ MaximumQueueSize \in Nat \ {0}
  BY QueueSizeAssumption
<1>2. CASE Len(q) < MaximumQueueSize
  BY <1>1, <1>2 DEF WithRoom
<1>3. CASE Len(q) = MaximumQueueSize
  <2>1. q # <<>>
    BY <1>1, <1>3
  <2>2. Tail(q) = SubSeq(q, 2, Len(q))
    BY <2>1, TailIsSubSeq
  <2>3. WithRoom(q) = Tail(q)
    BY <1>1, <1>3, <2>2 DEF WithRoom
  <2>4. Tail(q) \in Seq(S) /\ Len(Tail(q)) = Len(q) - 1
    BY <2>1, HeadTailProperties
  <2>5. QED
    BY <1>1, <1>3, <2>1, <2>3, <2>4
<1>4. QED
  BY <1>1, <1>2, <1>3

-----------------------------------------------------------------------------
\* Type correctness.

\* Every variable keeps its type: in particular the queue never exceeds its
\* capacity, whatever the callbacks and the metrics thread do.
THEOREM TypeCorrect == Spec => []TypeOK
<1>1. Init => TypeOK
  <2> SUFFICES ASSUME Init PROVE TypeOK
    OBVIOUS
  <2>1. DefaultPacket \in Packets
    BY PacketsAssumption DEF DefaultPacket
  <2>2. Len(queue) <= MaximumQueueSize /\ queue \in Seq(Entry)
    BY QueueSizeAssumption DEF Init
  <2>3. QED
    BY <2>1, <2>2 DEF Init, SingletonInit, TypeOK, TabulatorStep, CounterName
<1>2. TypeOK /\ [Next]_vars => TypeOK'
  <2> SUFFICES ASSUME TypeOK, [Next]_vars PROVE TypeOK'
    OBVIOUS
  <2> USE DEF counterVars, windowVars, singletonVars, pipelineVars
  <2>a. /\ WithRoom(queue) \in Seq(Entry) /\ Len(WithRoom(queue)) \in Nat
        /\ Len(WithRoom(queue)) < MaximumQueueSize
        /\ Len(WithRoom(queue)) <= Len(queue)
    <3>1. queue \in Seq(Entry) /\ Len(queue) <= MaximumQueueSize
      BY DEF TypeOK
    <3>2. Len(queue) \in Nat /\ MaximumQueueSize \in Nat
      BY <3>1, QueueSizeAssumption
    <3>3. CASE Len(queue) < MaximumQueueSize
      BY <3>1, <3>2, <3>3, WithRoomProperties
    <3>4. CASE Len(queue) = MaximumQueueSize
      BY <3>1, <3>2, <3>4, WithRoomProperties
    <3>5. QED
      BY <3>1, <3>2, <3>3, <3>4
  <2>b. CASE FailToEnqueue
    <3>1. queue' \in Seq(Entry) /\ Len(queue') <= MaximumQueueSize
      BY <2>a, <2>b, QueueSizeAssumption DEF FailToEnqueue
    <3>2. dropped' \in Nat
      BY <2>a, <2>b DEF FailToEnqueue, TypeOK
    <3>3. QED
      BY <2>b, <3>1, <3>2 DEF FailToEnqueue, TypeOK
  <2>1. CASE addPacketCallback
    <3>2. PICK p \in Packets :
             queue' = Append(WithRoom(queue), [number |-> arrivals + 1, packet |-> p])
      BY <2>1 DEF addPacketCallback
    <3>3. [number |-> arrivals + 1, packet |-> p] \in Entry
      BY DEF Entry, TypeOK
    <3>4. queue' \in Seq(Entry) /\ Len(queue') <= MaximumQueueSize
      BY <2>a, <3>2, <3>3, QueueSizeAssumption, AppendProperties
    <3>5. dropped' \in Nat
      BY <2>1, <2>a DEF addPacketCallback, TypeOK
    <3>6. QED
      BY <2>1, <3>4, <3>5 DEF addPacketCallback, TypeOK
  <2>2. CASE LoopAgain
    <3>1. DefaultPacket \in Packets
      BY PacketsAssumption DEF DefaultPacket
    <3>2. QED
      BY <2>2, <3>1 DEF LoopAgain, TypeOK, TabulatorStep
  <2>3. CASE LeaveLoop
    BY <2>3 DEF LeaveLoop, TypeOK, TabulatorStep
  <2>4. CASE TakePacket
    <3>1. /\ Head(queue) \in Entry
          /\ Tail(queue) \in Seq(Entry)
          /\ Len(Tail(queue)) <= MaximumQueueSize
      BY <2>4, QueueSizeAssumption, HeadTailProperties DEF TakePacket, TypeOK
    <3>2. QED
      BY <2>4, <3>1 DEF TakePacket, TypeOK, TabulatorStep, Entry
  <2>5. CASE FindQueueEmpty
    BY <2>5 DEF FindQueueEmpty, TypeOK, TabulatorStep
  <2>6. CASE TabulateStep
    <3> packet.stream \in Streams
      BY PacketsAssumption DEF TypeOK, PacketType
    <3>1. ASSUME NEW name \in CounterName, Increment(name)
          PROVE  counter' \in [CounterName -> [Streams -> Nat]]
      BY <3>1 DEF Increment, TypeOK
    <3>2. CASE IncrementCumulativeTotal
      BY <2>6, <3>2 DEF TabulateStep, IncrementCumulativeTotal, TypeOK, TabulatorStep
    <3>3. CASE IncrementTotal
      BY <2>6, <3>1, <3>3 DEF TabulateStep, IncrementTotal, TypeOK, TabulatorStep, CounterName
    <3>4. CASE RejectEmpty
      BY <2>6, <3>4 DEF TabulateStep, RejectEmpty, TypeOK, TabulatorStep
    <3>5. CASE Classify
      <4>1. ClassOf(packet, clock) \in {"valid", "future", "expired"}
        BY DEF ClassOf
      <4>2. QED
        BY <2>6, <3>5, <4>1 DEF TabulateStep, Classify, TypeOK, TabulatorStep
    <3>6. CASE IncrementFuture
      BY <2>6, <3>1, <3>6 DEF TabulateStep, IncrementFuture, TypeOK, TabulatorStep, CounterName
    <3>7. CASE IncrementExpired
      BY <2>6, <3>1, <3>7 DEF TabulateStep, IncrementExpired, TypeOK, TabulatorStep, CounterName
    <3>8. CASE IncrementCumulativeValid
      BY <2>6, <3>8 DEF TabulateStep, IncrementCumulativeValid, TypeOK, TabulatorStep
    <3>9. CASE IncrementReceived
      BY <2>6, <3>1, <3>9 DEF TabulateStep, IncrementReceived, TypeOK, TabulatorStep, CounterName
    <3>10. CASE UpdateWindow
      <4> DEFINE w == Update(WindowOf(packet.stream), packet, Latency(packet, tabulatedAt))
      <4>1. WindowOf(packet.stream) \in Window
        BY NewWindowType DEF WindowOf, TypeOK
      <4>2. w \in Window
        BY <4>1, LatencyType, UpdateType DEF TypeOK
      <4>3. windows' = [t \in DOMAIN windows \cup {packet.stream} |->
                           IF t = packet.stream THEN w ELSE windows[t]]
        BY <3>10 DEF UpdateWindow
      <4> HIDE DEF w
      <4>4. /\ DOMAIN windows' \subseteq Streams
            /\ \A s \in DOMAIN windows' : windows'[s] \in Window
        BY <4>2, <4>3 DEF TypeOK
      <4>5. QED
        BY <2>6, <3>10, <4>4 DEF TabulateStep, UpdateWindow, TypeOK, TabulatorStep
    <3>11. QED
      BY <2>6, <3>2, <3>3, <3>4, <3>5, <3>6, <3>7, <3>8, <3>9, <3>10
         DEF TabulateStep, tabulateMetrics
  <2>7. CASE FlushAfterPacket
    BY <2>7, FlushType DEF FlushAfterPacket, TypeOK, TabulatorStep
  <2>8. CASE StampLastUpdate
    BY <2>8 DEF StampLastUpdate, TypeOK, TabulatorStep
  <2>9. CASE CatchException
    BY <2>9 DEF CatchException, TypeOK, TabulatorStep
  <2>10. CASE FlushWhenIdle
    <3>1. CASE updateAndResetWindowedMetrics
      BY <2>10, <3>1, FlushType DEF FlushWhenIdle, TypeOK, TabulatorStep
    <3>2. CASE UNCHANGED windowVars
      BY <2>10, <3>2 DEF FlushWhenIdle, TypeOK, TabulatorStep
    <3>3. QED
      BY <2>10, <3>1, <3>2 DEF FlushWhenIdle
  <2>11. CASE WakeUp
    BY <2>11 DEF WakeUp, TypeOK, TabulatorStep
  <2>12. CASE ClearKeepRunning
    BY <2>12 DEF ClearKeepRunning, TypeOK
  <2>13. CASE PassTime
    BY <2>13 DEF PassTime, Tick, TypeOK
  <2>14. CASE UNCHANGED vars
    BY <2>14 DEF vars, TypeOK
  <2>15. QED
    BY <2>b, <2>1, <2>2, <2>3, <2>4, <2>5, <2>6, <2>7, <2>8, <2>9, <2>10, <2>11,
       <2>12, <2>13, <2>14 DEF Next, MetricsThread
<1>3. QED
  BY <1>1, <1>2, PTL DEF Spec

-----------------------------------------------------------------------------
\* Every packet is counted once.

\* In every reachable state, each stream's total is the sum of its valid,
\* future, expired and refused packets and of the one in hand.
THEOREM CountedOnce == Spec => []EveryPacketCountedOnce
<1>1. Init => EveryPacketCountedOnce
  BY DEF Init, SingletonInit, EveryPacketCountedOnce, InHand, CounterName
<1>2. TypeOK /\ EveryPacketCountedOnce /\ [Next]_vars => EveryPacketCountedOnce'
  <2> SUFFICES ASSUME TypeOK, EveryPacketCountedOnce, [Next]_vars,
                      NEW s \in Streams
               PROVE  counter'["total"][s] =
                        counter'["valid"][s] + counter'["future"][s]
                        + counter'["expired"][s] + rejected'[s]
                        + InHand(s, {"classify", "future", "expired",
                                     "cumulativeValid", "valid"})'
    BY DEF EveryPacketCountedOnce
  <2> DEFINE Uncounted == {"classify", "future", "expired", "cumulativeValid", "valid"}
             Balanced == counter["total"][s] =
                           counter["valid"][s] + counter["future"][s]
                           + counter["expired"][s] + rejected[s]
                           + (IF pc \in Uncounted /\ packet.stream = s THEN 1 ELSE 0)
  <2> USE DEF counterVars, windowVars, singletonVars, pipelineVars, InHand
  <2>a. Balanced
    BY DEF EveryPacketCountedOnce
  <2>b. /\ counter \in [CounterName -> [Streams -> Nat]]
        /\ rejected \in [Streams -> Nat]
        /\ packet.stream \in Streams
    BY PacketsAssumption DEF TypeOK, PacketType
  <2>c. ASSUME NEW name \in CounterName, Increment(name)
        PROVE  \A n \in CounterName :
                  counter'[n][s] = IF n = name /\ packet.stream = s
                                   THEN counter[n][s] + 1 ELSE counter[n][s]
    BY <2>b, <2>c DEF Increment
  \* A step that leaves the counters and the packet alone, between two steps
  \* of the loop that are both inside or both outside the counting.
  <2>d. ASSUME UNCHANGED <<counter, rejected>>,
               \/ pc \notin Uncounted /\ pc' \notin Uncounted
               \/ pc \in Uncounted /\ pc' \in Uncounted /\ UNCHANGED packet
        PROVE  Balanced'
    BY <2>a, <2>d
  <2>1. CASE addPacketCallback \/ FailToEnqueue
    BY <2>1, <2>a DEF addPacketCallback, FailToEnqueue
  <2>2. CASE LoopAgain
    BY <2>2, <2>d DEF LoopAgain
  <2>3. CASE LeaveLoop
    BY <2>3, <2>d DEF LeaveLoop
  <2>4. CASE TakePacket
    BY <2>4, <2>d DEF TakePacket
  <2>5. CASE FindQueueEmpty
    BY <2>5, <2>d DEF FindQueueEmpty
  <2>6. CASE TabulateStep
    <3>1. CASE IncrementCumulativeTotal
      BY <3>1, <2>d DEF IncrementCumulativeTotal
    <3>2. CASE IncrementTotal
      BY <3>2, <2>a, <2>b, <2>c DEF IncrementTotal, CounterName
    <3>3. CASE RejectEmpty
      BY <3>3, <2>a, <2>b DEF RejectEmpty, CounterName
    <3>4. CASE Classify
      <4>1. pc' \in Uncounted
        BY <3>4 DEF Classify, ClassOf
      <4>2. QED
        BY <3>4, <4>1, <2>d DEF Classify
    <3>5. CASE IncrementFuture
      BY <3>5, <2>a, <2>b, <2>c DEF IncrementFuture, CounterName
    <3>6. CASE IncrementExpired
      BY <3>6, <2>a, <2>b, <2>c DEF IncrementExpired, CounterName
    <3>7. CASE IncrementCumulativeValid
      BY <3>7, <2>d DEF IncrementCumulativeValid
    <3>8. CASE IncrementReceived
      BY <3>8, <2>a, <2>b, <2>c DEF IncrementReceived, CounterName
    <3>9. CASE UpdateWindow
      BY <3>9, <2>d DEF UpdateWindow
    <3>10. QED
      BY <2>6, <3>1, <3>2, <3>3, <3>4, <3>5, <3>6, <3>7, <3>8, <3>9
         DEF TabulateStep, tabulateMetrics
  <2>7. CASE FlushAfterPacket
    BY <2>7, <2>d DEF FlushAfterPacket
  <2>8. CASE StampLastUpdate
    BY <2>8, <2>d DEF StampLastUpdate
  <2>9. CASE CatchException
    BY <2>9, <2>d DEF CatchException
  <2>10. CASE FlushWhenIdle
    BY <2>10, <2>d DEF FlushWhenIdle
  <2>11. CASE WakeUp
    BY <2>11, <2>d DEF WakeUp
  <2>12. CASE ClearKeepRunning
    BY <2>12, <2>a DEF ClearKeepRunning
  <2>13. CASE PassTime
    BY <2>13, <2>a DEF PassTime, Tick
  <2>14. CASE UNCHANGED vars
    BY <2>14, <2>a DEF vars
  <2>15. QED
    BY <2>1, <2>2, <2>3, <2>4, <2>5, <2>6, <2>7, <2>8, <2>9, <2>10, <2>11,
       <2>12, <2>13, <2>14 DEF Next, MetricsThread
<1>3. QED
  BY <1>1, <1>2, TypeCorrect, PTL DEF Spec

-----------------------------------------------------------------------------
\* The valid packets are the averaged packets.

\* Past the classification a packet has samples, so that the window it is
\* added to counts it.
LEMMA HaveSamples == Spec => []ClassifiedPacketsHaveSamples
<1>1. Init => ClassifiedPacketsHaveSamples
  BY DEF Init, ClassifiedPacketsHaveSamples
<1>2. ClassifiedPacketsHaveSamples /\ [Next]_vars => ClassifiedPacketsHaveSamples'
  <2> SUFFICES ASSUME ClassifiedPacketsHaveSamples, [Next]_vars
               PROVE  ClassifiedPacketsHaveSamples'
    OBVIOUS
  <2> USE DEF ClassifiedPacketsHaveSamples, counterVars, windowVars, singletonVars,
              pipelineVars
  <2>1. CASE addPacketCallback \/ FailToEnqueue
    BY <2>1 DEF addPacketCallback, FailToEnqueue
  <2>2. CASE TabulateStep
    BY <2>2 DEF TabulateStep, tabulateMetrics, IncrementCumulativeTotal, IncrementTotal,
       RejectEmpty, Classify, IncrementFuture, IncrementExpired,
       IncrementCumulativeValid, IncrementReceived, UpdateWindow
  <2>3. CASE LoopAgain \/ LeaveLoop \/ TakePacket \/ FindQueueEmpty
    BY <2>3 DEF LoopAgain, LeaveLoop, TakePacket, FindQueueEmpty
  <2>4. CASE FlushAfterPacket \/ StampLastUpdate \/ CatchException
    BY <2>4 DEF FlushAfterPacket, StampLastUpdate, CatchException
  <2>5. CASE FlushWhenIdle \/ WakeUp
    BY <2>5 DEF FlushWhenIdle, WakeUp
  <2>6. CASE ClearKeepRunning
    BY <2>6 DEF ClearKeepRunning
  <2>7. CASE PassTime
    BY <2>7 DEF PassTime, Tick
  <2>8. CASE UNCHANGED vars
    BY <2>8 DEF vars
  <2>9. QED
    BY <2>1, <2>2, <2>3, <2>4, <2>5, <2>6, <2>7, <2>8 DEF Next, MetricsThread
<1>3. QED
  BY <1>1, <1>2, PTL DEF Spec

\* The packets of s in its open window.
Open(s) == IF s \in DOMAIN windows THEN windows[s].packetsCount ELSE 0

\* A flush moves packets from open windows to closed ones.
LEMMA FlushKeepsPackets ==
  ASSUME TypeOK, updateAndResetWindowedMetrics, NEW s \in Streams
  PROVE  closedPackets'[s] + Open(s)' = closedPackets[s] + Open(s)
<1>1. closedPackets[s] \in Nat
  BY DEF TypeOK
<1>2. CASE s \in DOMAIN windows
  <2>1. windows[s].packetsCount \in Nat
    BY <1>2 DEF TypeOK, Window
  <2>2. CASE Due(windows[s], clock)
    <3>1. windows'[s] = NewWindow(clock) /\ s \in DOMAIN windows'
      BY <1>2, <2>2 DEF updateAndResetWindowedMetrics
    <3>2. closedPackets'[s] = closedPackets[s] + windows[s].packetsCount
      BY <1>2, <2>2 DEF updateAndResetWindowedMetrics
    <3>3. Open(s)' = 0
      BY <3>1 DEF Open, NewWindow
    <3>4. QED
      BY <1>1, <1>2, <2>1, <3>2, <3>3 DEF Open
  <2>3. CASE ~Due(windows[s], clock)
    <3>1. windows'[s] = windows[s] /\ s \in DOMAIN windows'
      BY <1>2, <2>3 DEF updateAndResetWindowedMetrics
    <3>2. closedPackets'[s] = closedPackets[s]
      BY <1>2, <2>3 DEF updateAndResetWindowedMetrics
    <3>3. QED
      BY <1>2, <3>1, <3>2 DEF Open
  <2>4. QED
    BY <2>2, <2>3
<1>3. CASE s \notin DOMAIN windows
  <2>1. s \notin DOMAIN windows' /\ closedPackets'[s] = closedPackets[s]
    BY <1>3 DEF updateAndResetWindowedMetrics
  <2>2. QED
    BY <1>3, <2>1 DEF Open
<1>4. QED
  BY <1>2, <1>3

\* In every reachable state, the packets counted valid in a stream are those
\* in its closed windows, in its open window, and on their way to it.
THEOREM ValidPacketsAreAveraged == Spec => []WindowsHoldTheValidPackets
<1>1. Init => WindowsHoldTheValidPackets
  BY DEF Init, SingletonInit, WindowsHoldTheValidPackets, InHand, CounterName
<1>2. TypeOK /\ ClassifiedPacketsHaveSamples /\ WindowsHoldTheValidPackets /\ [Next]_vars
      => WindowsHoldTheValidPackets'
  <2> SUFFICES ASSUME TypeOK, ClassifiedPacketsHaveSamples, WindowsHoldTheValidPackets,
                      [Next]_vars, NEW s \in Streams
               PROVE  (counter["valid"][s] =
                         closedPackets[s] + Open(s)
                         + (IF pc = "window" /\ packet.stream = s THEN 1 ELSE 0))'
    BY DEF WindowsHoldTheValidPackets, InHand, Open
  <2> DEFINE Balanced == counter["valid"][s] =
                           closedPackets[s] + Open(s)
                           + (IF pc = "window" /\ packet.stream = s THEN 1 ELSE 0)
  <2> USE DEF counterVars, windowVars, singletonVars, pipelineVars
  <2>a. Balanced
    BY DEF WindowsHoldTheValidPackets, InHand, Open
  <2>b. /\ counter \in [CounterName -> [Streams -> Nat]]
        /\ closedPackets[s] \in Nat
        /\ Open(s) \in Nat
        /\ packet \in Packets
        /\ packet.stream \in Streams
    BY PacketsAssumption DEF TypeOK, PacketType, Open, Window
  <2>c. ASSUME NEW name \in CounterName, Increment(name)
        PROVE  counter'["valid"][s] = IF name = "valid" /\ packet.stream = s
                                      THEN counter["valid"][s] + 1
                                      ELSE counter["valid"][s]
    BY <2>b, <2>c DEF Increment, CounterName
  \* A step away from the window step that leaves the sums alone.
  <2>d. ASSUME counter'["valid"][s] = counter["valid"][s],
               UNCHANGED <<windows, closedPackets>>,
               pc # "window", pc' # "window"
        PROVE  Balanced'
    <3>1. Open(s)' = Open(s)
      BY <2>d DEF Open
    <3>2. QED
      BY <2>a, <2>d, <3>1
  <2>e. ASSUME UNCHANGED <<counter, windows, closedPackets, pc, packet>>
        PROVE  Balanced'
    <3>1. Open(s)' = Open(s)
      BY <2>e DEF Open
    <3>2. QED
      BY <2>a, <2>e, <3>1
  <2>f. ASSUME UNCHANGED counter, updateAndResetWindowedMetrics,
               pc # "window", pc' # "window"
        PROVE  Balanced'
    BY <2>a, <2>b, <2>f, FlushKeepsPackets
  <2>1. CASE addPacketCallback \/ FailToEnqueue
    BY <2>1, <2>e DEF addPacketCallback, FailToEnqueue
  <2>2. CASE LoopAgain \/ LeaveLoop \/ TakePacket \/ FindQueueEmpty
    BY <2>2, <2>d DEF LoopAgain, LeaveLoop, TakePacket, FindQueueEmpty
  <2>3. CASE TabulateStep
    <3>1. CASE IncrementCumulativeTotal \/ RejectEmpty \/ IncrementCumulativeValid
      BY <3>1, <2>d DEF IncrementCumulativeTotal, RejectEmpty, IncrementCumulativeValid
    <3>2. CASE IncrementTotal \/ IncrementFuture \/ IncrementExpired
      BY <3>2, <2>c, <2>d DEF IncrementTotal, IncrementFuture, IncrementExpired, CounterName
    <3>3. CASE Classify
      <4>1. pc # "window" /\ pc' # "window"
        BY <3>3 DEF Classify, ClassOf
      <4>2. QED
        BY <3>3, <4>1, <2>d DEF Classify
    <3>4. CASE IncrementReceived
      <4>1. Open(s)' = Open(s) /\ closedPackets' = closedPackets
        BY <3>4 DEF IncrementReceived, Open
      <4>2. pc = "valid" /\ pc' = "window" /\ packet' = packet /\ Increment("valid")
        BY <3>4 DEF IncrementReceived
      <4>3. counter'["valid"][s] = IF packet.stream = s THEN counter["valid"][s] + 1
                                                       ELSE counter["valid"][s]
        BY <4>2, <2>c DEF CounterName
      <4>4. QED
        BY <2>a, <2>b, <4>1, <4>2, <4>3
    <3>5. CASE UpdateWindow
      <4> DEFINE t == packet.stream
                 w == Update(WindowOf(t), packet, Latency(packet, tabulatedAt))
      <4>1. /\ pc = "window" /\ pc' = "returned" /\ packet' = packet
            /\ UNCHANGED <<counter, closedPackets>>
            /\ windows' = [u \in DOMAIN windows \cup {t} |->
                              IF u = t THEN w ELSE windows[u]]
        BY <3>5 DEF UpdateWindow
      <4>2. packet.nSamples > 0 /\ packet.nSamples \in Nat
        BY <2>b, <4>1, PacketsAssumption DEF ClassifiedPacketsHaveSamples, PacketType
      <4>3. WindowOf(t).packetsCount = Open(t)
        BY DEF WindowOf, Open, NewWindow
      <4>4. w.packetsCount = Open(t) + 1
        BY <4>2, <4>3 DEF Update
      <4> HIDE DEF w
      <4>5. Open(s)' = IF s = t THEN Open(s) + 1 ELSE Open(s)
        BY <4>1, <4>4 DEF Open
      <4>6. QED
        BY <2>a, <2>b, <4>1, <4>5
    <3>6. QED
      BY <2>3, <3>1, <3>2, <3>3, <3>4, <3>5 DEF TabulateStep, tabulateMetrics
  <2>4. CASE FlushAfterPacket
    BY <2>4, <2>f DEF FlushAfterPacket
  <2>5. CASE StampLastUpdate \/ CatchException \/ WakeUp
    BY <2>5, <2>d DEF StampLastUpdate, CatchException, WakeUp
  <2>6. CASE FlushWhenIdle
    <3>1. CASE updateAndResetWindowedMetrics
      BY <2>6, <3>1, <2>f DEF FlushWhenIdle
    <3>2. CASE UNCHANGED windowVars
      BY <2>6, <3>2, <2>d DEF FlushWhenIdle
    <3>3. QED
      BY <2>6, <3>1, <3>2 DEF FlushWhenIdle
  <2>7. CASE ClearKeepRunning
    BY <2>7, <2>e DEF ClearKeepRunning
  <2>8. CASE PassTime
    BY <2>8, <2>e DEF PassTime, Tick
  <2>9. CASE UNCHANGED vars
    BY <2>9, <2>e DEF vars
  <2>10. QED
    BY <2>1, <2>2, <2>3, <2>4, <2>5, <2>6, <2>7, <2>8, <2>9 DEF Next, MetricsThread
<1>3. QED
  BY <1>1, <1>2, TypeCorrect, HaveSamples, PTL DEF Spec

-----------------------------------------------------------------------------
\* The cumulative counters.

\* A count adds one to the sum of its map and leaves the other maps' sums.
LEMMA IncrementAddsOne ==
  ASSUME TypeOK, NEW name \in CounterName, Increment(name), NEW n \in CounterName
  PROVE  SumFunction(counter'[n]) = IF n = name THEN SumFunction(counter[n]) + 1
                                               ELSE SumFunction(counter[n])
<1> DEFINE f == counter[n]
           s == packet.stream
<1>1. /\ counter \in [CounterName -> [Streams -> Nat]]
      /\ s \in Streams
  BY PacketsAssumption DEF TypeOK, PacketType
<1>2. f \in [Streams -> Int] /\ f[s] \in Int
  BY <1>1
<1>3. counter'[n] = IF n = name THEN [f EXCEPT ![s] = f[s] + 1] ELSE f
  BY <1>1 DEF Increment
<1>4. SumFunction(f) \in Int
  BY <1>2, StreamsAssumption, SumIsInteger DEF SumFunction
<1> DEFINE v == f[s] + 1
<1>5. v \in Int
  BY <1>2
<1> HIDE DEF f, s, v
<1>6. SumFunction([f EXCEPT ![s] = v]) = SumFunction(f) - f[s] + v
  BY <1>1, <1>2, <1>5, StreamsAssumption, SumExcept
<1>7. SumFunction([f EXCEPT ![s] = v]) = SumFunction(f) + 1
  BY <1>2, <1>4, <1>6 DEF v
<1>8. QED
  BY <1>3, <1>7 DEF f, v

\* In every reachable state the atomics agree with the sums of their maps, except
\* between the two increments, and with the number of packets taken.
THEOREM CumulativeAgrees == Spec => []CumulativeCountersAgree
<1>1. Init => CumulativeCountersAgree
  <2> SUFFICES ASSUME Init PROVE CumulativeCountersAgree
    OBVIOUS
  <2>1. ASSUME NEW name \in CounterName PROVE SumFunction(counter[name]) = 0
    <3> DEFINE f == counter[name]
    <3>1. DOMAIN f = Streams /\ \A s \in Streams : f[s] = 0
      BY DEF Init, SingletonInit
    <3> HIDE DEF f
    <3>2. SumFunctionOnSet(f, Streams) = 0
      BY <3>1, StreamsAssumption, SumOfZeros
    <3>3. QED
      BY <3>1, <3>2 DEF SumFunction, f
  <2>2. QED
    BY <2>1 DEF Init, SingletonInit, CumulativeCountersAgree, CounterName
<1>2. TypeOK /\ CumulativeCountersAgree /\ [Next]_vars => CumulativeCountersAgree'
  <2> SUFFICES ASSUME TypeOK, CumulativeCountersAgree, [Next]_vars
               PROVE  CumulativeCountersAgree'
    OBVIOUS
  <2> DEFINE Counting == {"cumulativeTotal", "total", "valid"}
  <2> USE DEF counterVars, windowVars, singletonVars, pipelineVars
  <2>a. /\ cumulativeTotal \in Nat /\ cumulativeValid \in Nat /\ taken \in Nat
        /\ SumFunction(counter["total"]) \in Int /\ SumFunction(counter["valid"]) \in Int
    <3>1. ASSUME NEW name \in CounterName PROVE SumFunction(counter[name]) \in Int
      <4>1. DOMAIN counter[name] = Streams /\ \A s \in Streams : counter[name][s] \in Int
        BY DEF TypeOK
      <4>2. QED
        BY <4>1, StreamsAssumption, SumIsInteger DEF SumFunction
    <3>2. QED
      BY <3>1 DEF TypeOK, CounterName
  \* A step between two of the loop's steps that are not counting.
  <2>b. ASSUME UNCHANGED <<cumulativeTotal, cumulativeValid, counter, taken>>,
               UNCHANGED pc \/ (pc \notin Counting /\ pc' \notin Counting)
        PROVE  CumulativeCountersAgree'
    BY <2>b DEF CumulativeCountersAgree
  <2>1. CASE addPacketCallback \/ FailToEnqueue
    BY <2>1, <2>b DEF addPacketCallback, FailToEnqueue
  <2>2. CASE LoopAgain \/ LeaveLoop \/ FindQueueEmpty
    BY <2>2, <2>b DEF LoopAgain, LeaveLoop, FindQueueEmpty
  <2>3. CASE TakePacket
    BY <2>3, <2>a DEF TakePacket, CumulativeCountersAgree
  <2>4. CASE TabulateStep
    <3>1. CASE IncrementCumulativeTotal
      BY <2>4, <3>1, <2>a DEF TabulateStep, IncrementCumulativeTotal, CumulativeCountersAgree
    <3>2. CASE IncrementTotal
      <4>1. /\ SumFunction(counter'["total"]) = SumFunction(counter["total"]) + 1
            /\ SumFunction(counter'["valid"]) = SumFunction(counter["valid"])
        BY <3>2, IncrementAddsOne DEF IncrementTotal, CounterName
      <4>2. QED
        BY <2>4, <3>2, <4>1, <2>a DEF TabulateStep, IncrementTotal, CumulativeCountersAgree
    <3>3. CASE RejectEmpty
      BY <2>4, <3>3, <2>b DEF TabulateStep, RejectEmpty
    <3>4. CASE Classify
      <4>1. pc \notin Counting /\ pc' \notin Counting
        BY <3>4 DEF Classify, ClassOf
      <4>2. QED
        BY <2>4, <3>4, <4>1, <2>b DEF TabulateStep, Classify
    <3>5. CASE IncrementFuture \/ IncrementExpired
      <4>1. /\ SumFunction(counter'["total"]) = SumFunction(counter["total"])
            /\ SumFunction(counter'["valid"]) = SumFunction(counter["valid"])
        BY <3>5, IncrementAddsOne DEF IncrementFuture, IncrementExpired, CounterName
      <4>2. QED
        BY <2>4, <3>5, <4>1 DEF TabulateStep, IncrementFuture, IncrementExpired,
                               CumulativeCountersAgree
    <3>6. CASE IncrementCumulativeValid
      BY <2>4, <3>6, <2>a DEF TabulateStep, IncrementCumulativeValid, CumulativeCountersAgree
    <3>7. CASE IncrementReceived
      <4>1. /\ SumFunction(counter'["valid"]) = SumFunction(counter["valid"]) + 1
            /\ SumFunction(counter'["total"]) = SumFunction(counter["total"])
        BY <3>7, IncrementAddsOne DEF IncrementReceived, CounterName
      <4>2. QED
        BY <2>4, <3>7, <4>1, <2>a DEF TabulateStep, IncrementReceived, CumulativeCountersAgree
    <3>8. CASE UpdateWindow
      BY <2>4, <3>8, <2>b DEF TabulateStep, UpdateWindow
    <3>9. QED
      BY <2>4, <3>1, <3>2, <3>3, <3>4, <3>5, <3>6, <3>7, <3>8
         DEF TabulateStep, tabulateMetrics
  <2>5. CASE FlushAfterPacket \/ StampLastUpdate \/ CatchException \/ FlushWhenIdle \/ WakeUp
    BY <2>5, <2>b DEF FlushAfterPacket, StampLastUpdate, CatchException, FlushWhenIdle, WakeUp
  <2>6. CASE ClearKeepRunning
    BY <2>6, <2>b DEF ClearKeepRunning
  <2>7. CASE PassTime
    BY <2>7, <2>b DEF PassTime, Tick
  <2>8. CASE UNCHANGED vars
    BY <2>8, <2>b DEF vars
  <2>9. QED
    BY <2>1, <2>2, <2>3, <2>4, <2>5, <2>6, <2>7, <2>8 DEF Next, MetricsThread
<1>3. QED
  BY <1>1, <1>2, TypeCorrect, PTL DEF Spec

-----------------------------------------------------------------------------
\* The queue holds the newest packets, in order.

\* addPacketCallback and the queue: what an arrival does to the numbers.
LEMMA ArrivalNumbers ==
  ASSUME TypeOK, QueueIsTheNewest, addPacketCallback
  PROVE  /\ QueueIsTheNewest'
         /\ Len(queue) < MaximumQueueSize => dropped' = dropped
         /\ Len(queue) = MaximumQueueSize => /\ dropped' = dropped + 1
                                            /\ Len(queue') = MaximumQueueSize
<1>1. /\ queue \in Seq(Entry) /\ Len(queue) \in Nat /\ Len(queue) <= MaximumQueueSize
      /\ arrivals \in Nat /\ dropped \in Nat /\ taken \in Nat /\ lastTaken \in Nat
      /\ MaximumQueueSize \in Nat \ {0}
  BY QueueSizeAssumption DEF TypeOK
<1>2. PICK p \in Packets :
         queue' = Append(WithRoom(queue), [number |-> arrivals + 1, packet |-> p])
  BY DEF addPacketCallback
<1> DEFINE e == [number |-> arrivals + 1, packet |-> p]
<1>3. /\ arrivals' = arrivals + 1
      /\ dropped' = dropped + Len(queue) - Len(WithRoom(queue))
      /\ UNCHANGED <<taken, lastTaken>>
  BY DEF addPacketCallback
<1>4. e \in Entry /\ e.number = arrivals + 1 /\ queue' = Append(WithRoom(queue), e)
  BY <1>1, <1>2 DEF Entry
<1> HIDE DEF e
<1>5. WithRoom(queue) \in Seq(Entry)
  BY <1>1, WithRoomProperties
<1>6. /\ queue' \in Seq(Entry)
      /\ Len(queue') = Len(WithRoom(queue)) + 1
      /\ \A i \in 1 .. Len(WithRoom(queue)) : queue'[i] = WithRoom(queue)[i]
      /\ queue'[Len(WithRoom(queue)) + 1] = e
  BY <1>4, <1>5, AppendProperties
<1>7. CASE Len(queue) < MaximumQueueSize
  <2>1. WithRoom(queue) = queue
    BY <1>1, <1>7, WithRoomProperties
  <2>2. arrivals' = arrivals + 1 /\ Len(queue') = Len(queue) + 1 /\ dropped' = dropped
    BY <1>1, <1>3, <1>6, <2>1
  <2>3. ASSUME NEW i \in 1 .. Len(queue')
        PROVE  queue'[i].number = arrivals' - Len(queue') + i
    <3>1. CASE i <= Len(queue)
      BY <1>1, <1>6, <2>1, <2>2, <3>1 DEF QueueIsTheNewest
    <3>2. CASE i = Len(queue) + 1
      BY <1>1, <1>4, <1>6, <2>1, <2>2, <3>2
    <3>3. QED
      BY <1>1, <2>2, <3>1, <3>2
  <2>4. arrivals' = dropped' + taken' + Len(queue') /\ lastTaken' <= arrivals' - Len(queue')
    BY <1>1, <1>3, <2>2 DEF QueueIsTheNewest
  <2>5. QueueIsTheNewest'
    BY <2>3, <2>4 DEF QueueIsTheNewest
  <2>6. QED
    BY <1>1, <1>7, <2>2, <2>5
<1>8. CASE Len(queue) = MaximumQueueSize
  <2>1. /\ queue # <<>>
        /\ WithRoom(queue) = Tail(queue)
        /\ Len(WithRoom(queue)) = Len(queue) - 1
    BY <1>1, <1>8, WithRoomProperties
  <2>2. \A i \in 1 .. Len(queue) - 1 : WithRoom(queue)[i] = queue[i + 1]
    <3>1. \A i \in 1 .. Len(Tail(queue)) : Tail(queue)[i] = queue[i + 1]
      BY <1>1, <2>1, HeadTailProperties
    <3>2. QED
      BY <2>1, <3>1
  <2>3. arrivals' = dropped' + taken' + Len(queue')
    BY <1>1, <1>3, <1>6, <2>1 DEF QueueIsTheNewest
  <2>4. \A i \in 1 .. Len(queue') : queue'[i].number = arrivals' - Len(queue') + i
    <3> SUFFICES ASSUME NEW i \in 1 .. Len(queue')
                 PROVE  queue'[i].number = arrivals' - Len(queue') + i
      OBVIOUS
    <3>1. arrivals' = arrivals + 1 /\ Len(queue') = Len(queue)
      BY <1>1, <1>3, <1>6, <2>1
    <3>2. CASE i <= Len(queue) - 1
      <4>1. queue'[i] = queue[i + 1]
        BY <1>1, <1>6, <2>1, <2>2, <3>1, <3>2
      <4>2. queue[i + 1].number = arrivals - Len(queue) + (i + 1)
        BY <1>1, <3>1, <3>2 DEF QueueIsTheNewest
      <4>3. QED
        BY <1>1, <3>1, <4>1, <4>2
    <3>3. CASE i = Len(queue)
      <4>1. queue'[i] = e
        BY <1>1, <1>6, <2>1, <3>3
      <4>2. QED
        BY <1>1, <1>4, <3>1, <3>3, <4>1
    <3>4. QED
      BY <1>1, <3>1, <3>2, <3>3
  <2>5. lastTaken' <= arrivals' - Len(queue')
    BY <1>1, <1>3, <1>6, <2>1 DEF QueueIsTheNewest
  <2>6. QueueIsTheNewest'
    BY <2>3, <2>4, <2>5 DEF QueueIsTheNewest
  <2>7. dropped' = dropped + 1 /\ Len(queue') = MaximumQueueSize
    <3>1. dropped' = dropped + Len(queue) - (Len(queue) - 1)
      BY <1>3, <2>1
    <3>2. Len(queue') = (Len(queue) - 1) + 1
      BY <1>6, <2>1
    <3>3. QED
      BY <1>1, <1>8, <3>1, <3>2
  <2>8. QED
    BY <1>1, <1>8, <2>6, <2>7
<1>9. QED
  BY <1>1, <1>7, <1>8

\* A push that fails: a full queue is left without its oldest packet, any other
\* as it was.
LEMMA FailureNumbers ==
  ASSUME TypeOK, QueueIsTheNewest, FailToEnqueue
  PROVE  /\ QueueIsTheNewest'
         /\ Len(queue) < MaximumQueueSize => dropped' = dropped
         /\ Len(queue) = MaximumQueueSize => dropped' = dropped + 1
<1>1. /\ queue \in Seq(Entry) /\ Len(queue) \in Nat /\ Len(queue) <= MaximumQueueSize
      /\ arrivals \in Nat /\ dropped \in Nat /\ taken \in Nat /\ lastTaken \in Nat
      /\ MaximumQueueSize \in Nat \ {0}
  BY QueueSizeAssumption DEF TypeOK
<1>2. /\ queue' = WithRoom(queue)
      /\ dropped' = dropped + Len(queue) - Len(WithRoom(queue))
      /\ UNCHANGED <<arrivals, taken, lastTaken>>
  BY DEF FailToEnqueue
<1>3. CASE Len(queue) < MaximumQueueSize
  <2>1. queue' = queue /\ dropped' = dropped
    BY <1>1, <1>2, <1>3, WithRoomProperties
  <2>2. QED
    BY <1>1, <1>2, <1>3, <2>1 DEF QueueIsTheNewest
<1>4. CASE Len(queue) = MaximumQueueSize
  <2>1. queue # <<>> /\ queue' = Tail(queue)
    BY <1>1, <1>2, <1>4, WithRoomProperties
  <2>2. /\ Len(queue') = Len(queue) - 1
        /\ \A i \in 1 .. Len(queue') : queue'[i] = queue[i + 1]
    BY <1>1, <2>1, HeadTailProperties
  <2>3. dropped' = dropped + 1
    BY <1>1, <1>2, <2>2
  <2>4. ASSUME NEW i \in 1 .. Len(queue')
        PROVE  queue'[i].number = arrivals' - Len(queue') + i
    <3>1. queue[i + 1].number = arrivals - Len(queue) + (i + 1)
      BY <1>1, <2>2 DEF QueueIsTheNewest
    <3>2. QED
      BY <1>1, <1>2, <2>2, <3>1
  <2>5. arrivals' = dropped' + taken' + Len(queue') /\ lastTaken' <= arrivals' - Len(queue')
    BY <1>1, <1>2, <2>2, <2>3 DEF QueueIsTheNewest
  <2>6. QED
    BY <1>1, <1>4, <2>3, <2>4, <2>5 DEF QueueIsTheNewest
<1>5. QED
  BY <1>1, <1>3, <1>4

\* TakePacket and the queue.
LEMMA TakenNumber ==
  ASSUME TypeOK, QueueIsTheNewest, TakePacket
  PROVE  QueueIsTheNewest' /\ lastTaken' > lastTaken
<1>1. /\ queue \in Seq(Entry) /\ Len(queue) \in Nat /\ queue # <<>>
      /\ arrivals \in Nat /\ dropped \in Nat /\ taken \in Nat /\ lastTaken \in Nat
  BY DEF TypeOK, TakePacket
<1>2. /\ queue' = Tail(queue) /\ taken' = taken + 1 /\ lastTaken' = Head(queue).number
      /\ UNCHANGED <<arrivals, dropped>>
  BY DEF TakePacket
<1>3. /\ Len(queue) > 0
      /\ Len(Tail(queue)) = Len(queue) - 1
      /\ \A i \in 1 .. Len(Tail(queue)) : Tail(queue)[i] = queue[i + 1]
  BY <1>1, HeadTailProperties
<1>4. Head(queue) = queue[1]
  BY <1>1
<1>5. lastTaken' = arrivals - Len(queue) + 1
  BY <1>1, <1>2, <1>3, <1>4 DEF QueueIsTheNewest
<1>6. lastTaken' > lastTaken /\ lastTaken' <= arrivals' - Len(queue')
  BY <1>1, <1>2, <1>3, <1>5 DEF QueueIsTheNewest
<1>7. ASSUME NEW i \in 1 .. Len(queue')
      PROVE  queue'[i].number = arrivals' - Len(queue') + i
  <2>1. queue'[i] = queue[i + 1] /\ i + 1 \in 1 .. Len(queue)
    BY <1>1, <1>2, <1>3
  <2>2. queue[i + 1].number = arrivals - Len(queue) + (i + 1)
    BY <2>1 DEF QueueIsTheNewest
  <2>3. QED
    BY <1>1, <1>2, <1>3, <2>1, <2>2
<1>8. arrivals' = dropped' + taken' + Len(queue')
  BY <1>1, <1>2, <1>3 DEF QueueIsTheNewest
<1>9. QED
  BY <1>6, <1>7, <1>8 DEF QueueIsTheNewest

\* The steps of the metrics thread other than TakePacket, the stop request
\* and the clock leave the queue and its history alone.
LEMMA OtherStepsKeepQueue ==
  ASSUME [Next]_vars, ~addPacketCallback, ~FailToEnqueue, ~TakePacket
  PROVE  UNCHANGED <<queue, arrivals, dropped, taken, lastTaken>>
<1> USE DEF pipelineVars
<1>1. CASE MetricsThread
  BY <1>1 DEF MetricsThread, LoopAgain, LeaveLoop, FindQueueEmpty, TabulateStep,
     FlushAfterPacket, StampLastUpdate, CatchException, FlushWhenIdle, WakeUp
<1>2. CASE ClearKeepRunning \/ PassTime
  BY <1>2 DEF ClearKeepRunning, PassTime
<1>3. CASE UNCHANGED vars
  BY <1>3 DEF vars
<1>4. QED
  BY <1>1, <1>2, <1>3 DEF Next

\* In every reachable state, the queue holds exactly the packets that arrived
\* last, in the order they arrived, and every other packet was taken or
\* dropped.
THEOREM QueueHoldsTheNewest == Spec => []QueueIsTheNewest
<1>1. Init => QueueIsTheNewest
  BY DEF Init, QueueIsTheNewest
<1>2. TypeOK /\ QueueIsTheNewest /\ [Next]_vars => QueueIsTheNewest'
  <2> SUFFICES ASSUME TypeOK, QueueIsTheNewest, [Next]_vars PROVE QueueIsTheNewest'
    OBVIOUS
  <2>1. CASE addPacketCallback
    BY <2>1, ArrivalNumbers
  <2>2. CASE TakePacket
    BY <2>2, TakenNumber
  <2>3. CASE FailToEnqueue
    BY <2>3, FailureNumbers
  <2>4. CASE ~addPacketCallback /\ ~FailToEnqueue /\ ~TakePacket
    BY <2>4, OtherStepsKeepQueue DEF QueueIsTheNewest
  <2>5. QED
    BY <2>1, <2>2, <2>3, <2>4
<1>3. QED
  BY <1>1, <1>2, TypeCorrect, PTL DEF Spec

\* Along every behaviour, packets are taken in the order they arrived and one
\* is dropped only when the queue is full.
THEOREM OrderAndDrops == Spec => TakenInOrderDroppedWhenFull
<1> DEFINE Step == /\ taken' # taken => lastTaken' > lastTaken
                   /\ dropped' # dropped => /\ dropped' = dropped + 1
                                           /\ Len(queue) = MaximumQueueSize
                                           /\ (arrivals' # arrivals
                                                 => Len(queue') = MaximumQueueSize)
<1>1. TypeOK /\ QueueIsTheNewest /\ [Next]_vars => [Step]_vars
  <2> SUFFICES ASSUME TypeOK, QueueIsTheNewest, [Next]_vars PROVE Step
    OBVIOUS
  <2>1. CASE addPacketCallback
    <3>1. taken' = taken
      BY <2>1 DEF addPacketCallback
    <3>2. Len(queue) \in Nat /\ MaximumQueueSize \in Nat /\ Len(queue) <= MaximumQueueSize
      BY QueueSizeAssumption DEF TypeOK
    <3>3. QED
      BY <2>1, <3>1, <3>2, ArrivalNumbers
  <2>2. CASE TakePacket
    <3>1. dropped' = dropped
      BY <2>2 DEF TakePacket
    <3>2. QED
      BY <2>2, <3>1, TakenNumber
  <2>3. CASE FailToEnqueue
    <3>1. taken' = taken /\ arrivals' = arrivals
      BY <2>3 DEF FailToEnqueue
    <3>2. Len(queue) \in Nat /\ MaximumQueueSize \in Nat /\ Len(queue) <= MaximumQueueSize
      BY QueueSizeAssumption DEF TypeOK
    <3>3. QED
      BY <2>3, <3>1, <3>2, FailureNumbers
  <2>4. CASE ~addPacketCallback /\ ~FailToEnqueue /\ ~TakePacket
    BY <2>4, OtherStepsKeepQueue
  <2>5. QED
    BY <2>1, <2>2, <2>3, <2>4
<1>2. QED
  BY <1>1, TypeCorrect, QueueHoldsTheNewest, PTL DEF Spec, TakenInOrderDroppedWhenFull

-----------------------------------------------------------------------------
\* The packet pipeline implements the packet ledger: its initial states map to
\* initial states of the ledger, and each of its steps to a step of the ledger
\* or to none.

LedgerVars == <<clock, arrivals, ChannelBar, HandBar, TallyBar>>

\* The tally is the same when every entry is.
LEMMA SameTally ==
  ASSUME \A s \in Streams : \A h \in Ledger!Heading : Settled(s, h)' = Settled(s, h)
  PROVE  TallyBar' = TallyBar
  BY DEF TallyBar, Ledger!Heading

\* Adding one packet to one heading.
LEMMA OneMoreInTally ==
  ASSUME NEW st \in Streams, NEW hd \in Ledger!Heading,
         \A s \in Streams : \A h \in Ledger!Heading :
            Settled(s, h)' = IF s = st /\ h = hd THEN Settled(s, h) + 1 ELSE Settled(s, h)
  PROVE  TallyBar' = [TallyBar EXCEPT ![st][hd] = @ + 1]
  BY DEF TallyBar, Ledger!Heading

\* The channel is a sequence of packets as long as the queue.
LEMMA ChannelOfQueue ==
  ASSUME NEW q \in Seq(Entry)
  PROVE  /\ [i \in 1 .. Len(q) |-> q[i].packet] \in Seq(Packets)
         /\ Len([i \in 1 .. Len(q) |-> q[i].packet]) = Len(q)
<1>1. Len(q) \in Nat
  OBVIOUS
<1>2. \A i \in 1 .. Len(q) : q[i].packet \in Packets
  <2>1. \A i \in 1 .. Len(q) : q[i] \in Entry
    BY <1>1, LenProperties
  <2>2. QED
    BY <2>1 DEF Entry
<1> DEFINE c == [i \in 1 .. Len(q) |-> q[i].packet]
<1>3. c \in [1 .. Len(q) -> Packets]
  BY <1>2
<1>4. QED
  BY <1>1, <1>3, IsASeq


\* A step that leaves the queue alone, and the counts and the packet in hand
\* as the ledger sees them, is no step of the ledger.
LEMMA LedgerStutters ==
  ASSUME UNCHANGED <<clock, arrivals, queue, HandBar, TallyBar>>
  PROVE  UNCHANGED LedgerVars
  BY DEF LedgerVars, ChannelBar

-----------------------------------------------------------------------------
\* Arrivals and takes.

LEMMA ArrivalRefines ==
  ASSUME TypeOK, addPacketCallback
  PROVE  \E p \in Packets : Ledger!Read(p)
<1>1. PICK p \in Packets :
         queue' = Append(WithRoom(queue), [number |-> arrivals + 1, packet |-> p])
  BY DEF addPacketCallback
<1> DEFINE e == [number |-> arrivals + 1, packet |-> p]
           room == IF Len(ChannelBar) = MaximumQueueSize THEN Tail(ChannelBar)
                                                         ELSE ChannelBar
<1>2. e \in Entry /\ e.packet = p /\ queue' = Append(WithRoom(queue), e)
  BY <1>1 DEF Entry, TypeOK
<1> HIDE DEF e
<1>3. /\ queue \in Seq(Entry) /\ Len(queue) \in Nat /\ Len(queue) <= MaximumQueueSize
      /\ MaximumQueueSize \in Nat \ {0}
  BY QueueSizeAssumption DEF TypeOK
<1>4. /\ ChannelBar \in Seq(Packets) /\ Len(ChannelBar) = Len(queue)
      /\ \A i \in 1 .. Len(queue) : ChannelBar[i] = queue[i].packet
  BY <1>3, ChannelOfQueue DEF ChannelBar
<1>5. WithRoom(queue) \in Seq(Entry)
  BY <1>3, WithRoomProperties
<1>6. /\ queue' \in Seq(Entry)
      /\ Len(queue') = Len(WithRoom(queue)) + 1
      /\ \A i \in 1 .. Len(WithRoom(queue)) : queue'[i] = WithRoom(queue)[i]
      /\ queue'[Len(WithRoom(queue)) + 1] = e
  BY <1>2, <1>5, AppendProperties
<1>7. /\ ChannelBar' \in Seq(Packets) /\ Len(ChannelBar') = Len(queue')
      /\ \A i \in 1 .. Len(queue') : ChannelBar'[i] = queue'[i].packet
  <2>1. ChannelBar' = [i \in 1 .. Len(queue') |-> queue'[i].packet]
    BY DEF ChannelBar
  <2>2. QED
    BY <1>6, <2>1, ChannelOfQueue
\* The room the callback makes is the room the ledger makes.
<1>8. /\ room \in Seq(Packets) /\ Len(room) = Len(WithRoom(queue))
      /\ \A i \in 1 .. Len(room) : room[i] = WithRoom(queue)[i].packet
  <2>1. CASE Len(queue) < MaximumQueueSize
    <3>1. WithRoom(queue) = queue
      BY <1>3, <2>1, WithRoomProperties
    <3>2. room = ChannelBar
      BY <1>3, <1>4, <2>1
    <3>3. QED
      BY <1>3, <1>4, <3>1, <3>2
  <2>2. CASE Len(queue) = MaximumQueueSize
    <3>1. queue # <<>> /\ WithRoom(queue) = Tail(queue)
      BY <1>3, <2>2, WithRoomProperties
    <3>2. room = Tail(ChannelBar) /\ ChannelBar # <<>>
      BY <1>3, <1>4, <2>2
    <3>3. /\ Len(Tail(queue)) = Len(queue) - 1
          /\ \A i \in 1 .. Len(Tail(queue)) : Tail(queue)[i] = queue[i + 1]
      BY <1>3, <3>1, HeadTailProperties
    <3>4. /\ Tail(ChannelBar) \in Seq(Packets)
          /\ Len(Tail(ChannelBar)) = Len(ChannelBar) - 1
          /\ \A i \in 1 .. Len(Tail(ChannelBar)) : Tail(ChannelBar)[i] = ChannelBar[i + 1]
      BY <1>4, <3>2, HeadTailProperties
    <3>5. ASSUME NEW i \in 1 .. Len(Tail(ChannelBar))
          PROVE  Tail(ChannelBar)[i] = Tail(queue)[i].packet
      BY <1>3, <1>4, <3>3, <3>4
    <3>6. QED
      BY <1>4, <3>1, <3>2, <3>3, <3>4, <3>5
  <2>3. QED
    BY <1>3, <2>1, <2>2
<1> HIDE DEF room
<1>9. /\ Append(room, p) \in Seq(Packets)
      /\ Len(Append(room, p)) = Len(room) + 1
      /\ \A i \in 1 .. Len(room) : Append(room, p)[i] = room[i]
      /\ Append(room, p)[Len(room) + 1] = p
  BY <1>8, AppendProperties
<1>10. ChannelBar' = Append(room, p)
  <2>1. Len(ChannelBar') = Len(Append(room, p))
    BY <1>6, <1>7, <1>8, <1>9
  <2>2. ASSUME NEW i \in 1 .. Len(ChannelBar')
        PROVE  ChannelBar'[i] = Append(room, p)[i]
    <3>1. Len(room) \in Nat /\ Len(ChannelBar') = Len(room) + 1
      BY <1>6, <1>7, <1>8
    <3>2. CASE i <= Len(room)
      <4>1. ChannelBar'[i] = queue'[i].packet
        BY <1>7
      <4>2. queue'[i] = WithRoom(queue)[i]
        BY <1>6, <1>8, <3>1, <3>2
      <4>3. Append(room, p)[i] = WithRoom(queue)[i].packet
        BY <1>8, <1>9, <3>1, <3>2
      <4>4. QED
        BY <4>1, <4>2, <4>3
    <3>3. CASE i = Len(room) + 1
      BY <1>2, <1>6, <1>7, <1>8, <1>9, <3>3
    <3>4. QED
      BY <3>1, <3>2, <3>3
  <2>3. QED
    BY <1>7, <1>9, <2>1, <2>2, SeqEqual
<1>11. arrivals < MaxArrivals /\ arrivals' = arrivals + 1
  BY DEF addPacketCallback
<1>12. UNCHANGED <<clock, HandBar, TallyBar>>
  BY DEF addPacketCallback, singletonVars, counterVars, HandBar, TallyBar, Settled, InHand
<1>13. Ledger!Read(p)
  BY <1>10, <1>11, <1>12 DEF Ledger!Read, room
<1>14. QED
  BY <1>13

\* A push that fails in a full queue is a loss of the ledger.
LEMMA FailureRefines ==
  ASSUME TypeOK, FailToEnqueue
  PROVE  Ledger!Lose \/ UNCHANGED LedgerVars
<1>1. /\ queue \in Seq(Entry) /\ Len(queue) \in Nat /\ Len(queue) <= MaximumQueueSize
      /\ MaximumQueueSize \in Nat \ {0}
  BY QueueSizeAssumption DEF TypeOK
<1>2. queue' = WithRoom(queue) /\ UNCHANGED arrivals
  BY DEF FailToEnqueue
<1>3. UNCHANGED <<clock, HandBar, TallyBar>>
  BY DEF FailToEnqueue, singletonVars, counterVars, HandBar, TallyBar, Settled, InHand
<1>4. CASE Len(queue) < MaximumQueueSize
  <2>1. queue' = queue
    BY <1>1, <1>2, <1>4, WithRoomProperties
  <2>2. QED
    BY <1>2, <1>3, <2>1, LedgerStutters
<1>5. CASE Len(queue) = MaximumQueueSize
  <2>1. queue # <<>> /\ queue' = Tail(queue)
    BY <1>1, <1>2, <1>5, WithRoomProperties
  <2>2. /\ ChannelBar \in Seq(Packets) /\ Len(ChannelBar) = Len(queue)
        /\ \A i \in 1 .. Len(queue) : ChannelBar[i] = queue[i].packet
    BY <1>1, ChannelOfQueue DEF ChannelBar
  <2>3. /\ queue' \in Seq(Entry) /\ Len(queue') = Len(queue) - 1
        /\ \A i \in 1 .. Len(queue') : queue'[i] = queue[i + 1]
    BY <1>1, <2>1, HeadTailProperties
  <2>4. /\ ChannelBar' \in Seq(Packets) /\ Len(ChannelBar') = Len(queue')
        /\ \A i \in 1 .. Len(queue') : ChannelBar'[i] = queue'[i].packet
    <3>1. ChannelBar' = [i \in 1 .. Len(queue') |-> queue'[i].packet]
      BY DEF ChannelBar
    <3>2. QED
      BY <2>3, <3>1, ChannelOfQueue
  <2>5. ChannelBar # <<>>
    BY <1>1, <1>5, <2>2
  <2>6. /\ Tail(ChannelBar) \in Seq(Packets)
        /\ Len(Tail(ChannelBar)) = Len(ChannelBar) - 1
        /\ \A i \in 1 .. Len(Tail(ChannelBar)) : Tail(ChannelBar)[i] = ChannelBar[i + 1]
    BY <2>2, <2>5, HeadTailProperties
  <2>7. ChannelBar' = Tail(ChannelBar)
    <3>1. Len(ChannelBar') = Len(Tail(ChannelBar))
      BY <2>2, <2>3, <2>4, <2>6
    <3>2. ASSUME NEW i \in 1 .. Len(ChannelBar')
          PROVE  ChannelBar'[i] = Tail(ChannelBar)[i]
      BY <1>1, <2>2, <2>3, <2>4, <2>6, <3>1
    <3>3. QED
      BY <2>4, <2>6, <3>1, <3>2, SeqEqual
  <2>8. Len(ChannelBar) = MaximumQueueSize
    BY <1>5, <2>2
  <2>9. Ledger!Lose
    BY <1>2, <1>3, <2>7, <2>8 DEF Ledger!Lose
  <2>10. QED
    BY <2>9
<1>6. QED
  BY <1>1, <1>4, <1>5

LEMMA TakeRefines ==
  ASSUME TypeOK, TakePacket
  PROVE  Ledger!Take
<1>1. queue \in Seq(Entry) /\ Len(queue) \in Nat /\ queue # <<>> /\ queue' = Tail(queue)
  BY DEF TypeOK, TakePacket
<1>2. /\ ChannelBar \in Seq(Packets) /\ Len(ChannelBar) = Len(queue)
      /\ \A i \in 1 .. Len(queue) : ChannelBar[i] = queue[i].packet
  BY <1>1, ChannelOfQueue DEF ChannelBar
<1>3. /\ Tail(queue) \in Seq(Entry)
      /\ Len(Tail(queue)) = Len(queue) - 1
      /\ \A i \in 1 .. Len(Tail(queue)) : Tail(queue)[i] = queue[i + 1]
  BY <1>1, HeadTailProperties
<1>4. ChannelBar # <<>>
  BY <1>1, <1>2
<1>5. /\ Tail(ChannelBar) \in Seq(Packets)
      /\ Len(Tail(ChannelBar)) = Len(ChannelBar) - 1
      /\ \A i \in 1 .. Len(Tail(ChannelBar)) : Tail(ChannelBar)[i] = ChannelBar[i + 1]
  BY <1>2, <1>4, HeadTailProperties
<1>6. /\ ChannelBar' \in Seq(Packets) /\ Len(ChannelBar') = Len(Tail(queue))
      /\ \A i \in 1 .. Len(Tail(queue)) : ChannelBar'[i] = Tail(queue)[i].packet
  <2>1. ChannelBar' = [i \in 1 .. Len(Tail(queue)) |-> Tail(queue)[i].packet]
    BY <1>1 DEF ChannelBar
  <2>2. QED
    BY <1>3, <2>1, ChannelOfQueue
<1>7. ChannelBar' = Tail(ChannelBar)
  <2>1. ASSUME NEW i \in 1 .. Len(ChannelBar')
        PROVE  ChannelBar'[i] = Tail(ChannelBar)[i]
    <3>1. /\ i \in 1 .. Len(Tail(queue)) /\ i \in 1 .. Len(Tail(ChannelBar))
          /\ i + 1 \in 1 .. Len(queue)
      BY <1>1, <1>2, <1>3, <1>5, <1>6
    <3>2. ChannelBar'[i] = queue[i + 1].packet
      BY <1>3, <1>6, <3>1
    <3>3. Tail(ChannelBar)[i] = queue[i + 1].packet
      BY <1>2, <1>5, <3>1
    <3>4. QED
      BY <3>2, <3>3
  <2>2. QED
    BY <1>2, <1>3, <1>5, <1>6, <2>1, SeqEqual
<1>8. Head(ChannelBar) = packet'
  <2>1. Head(ChannelBar) = ChannelBar[1] /\ Head(queue) = queue[1]
    BY <1>1, <1>2, <1>4
  <2>2. Len(queue) > 0
    BY <1>1
  <2>3. ChannelBar[1] = queue[1].packet
    BY <1>1, <1>2, <2>2
  <2>4. QED
    BY <2>1, <2>3 DEF TakePacket
<1>9. HandBar = <<>> /\ HandBar' = <<packet'>>
  BY DEF TakePacket, HandBar
<1>10. UNCHANGED <<clock, arrivals, TallyBar>>
  BY DEF TakePacket, counterVars, TallyBar, Settled, InHand, Pending
<1>11. QED
  BY <1>4, <1>7, <1>8, <1>9, <1>10 DEF Ledger!Take

-----------------------------------------------------------------------------
\* Settling and counting.

\* The classification is where the ledger settles a packet.
LEMMA ClassifyRefines ==
  ASSUME TypeOK, Classify, UNCHANGED pipelineVars
  PROVE  \E h \in Ledger!Heading : Ledger!Settle(h)
<1> DEFINE h == ClassOf(packet, clock)
<1>1. /\ packet \in Packets /\ packet.stream \in Streams /\ packet.nSamples \in Nat
      /\ packet.start \in Int /\ packet.end \in Int /\ clock \in Nat
      /\ counter \in [CounterName -> [Streams -> Nat]]
  BY PacketsAssumption DEF TypeOK, PacketType
<1>2. h \in {"valid", "future", "expired"}
  BY DEF ClassOf
<1>3. /\ pc = "classify" /\ packet.nSamples > 0 /\ packet' = packet
      /\ pc' = IF h = "valid" THEN "cumulativeValid" ELSE h
      /\ UNCHANGED <<clock, counter, rejected, queue, arrivals>>
  BY DEF Classify, counterVars, pipelineVars
<1>4. HandBar = <<packet>> /\ HandBar' = <<>>
  BY <1>2, <1>3 DEF HandBar
<1>5. Ledger!Deserves(packet, clock, h)
  BY <1>1, <1>3, TimesAssumption DEF Ledger!Deserves, ClassOf
<1> HIDE DEF h
<1>6. ASSUME NEW s \in Streams, NEW g \in Ledger!Heading
      PROVE  Settled(s, g)' = IF s = packet.stream /\ g = h THEN Settled(s, g) + 1
                                                            ELSE Settled(s, g)
  <2>1. InHand(s, Pending(g)) = 0
    BY <1>3 DEF InHand, Pending, Ledger!Heading
  <2>2. g # "empty" => InHand(s, Pending(g))' = IF s = packet.stream /\ g = h THEN 1 ELSE 0
    BY <1>2, <1>3 DEF InHand, Pending, Ledger!Heading
  <2>3. g # "empty" => counter[g][s] \in Nat
    BY <1>1 DEF Ledger!Heading, CounterName
  <2>4. g = "empty" => g # h
    BY <1>2
  <2>5. QED
    BY <1>3, <2>1, <2>2, <2>3, <2>4 DEF Settled
<1>7. h \in Ledger!Heading
  BY <1>2 DEF Ledger!Heading
<1>8. TallyBar' = [TallyBar EXCEPT ![packet.stream][h] = @ + 1]
  BY <1>1, <1>6, <1>7, OneMoreInTally
<1>9. ChannelBar' = ChannelBar
  BY <1>3 DEF ChannelBar
<1>10. HandBar # <<>> /\ HandBar[1] = packet
  BY <1>4
<1>11. Ledger!Settle(h)
  BY <1>3, <1>4, <1>5, <1>8, <1>9, <1>10 DEF Ledger!Settle
<1>12. QED
  BY <1>7, <1>11

\* A packet without samples is settled when it is refused.
LEMMA RejectRefines ==
  ASSUME TypeOK, RejectEmpty, UNCHANGED pipelineVars
  PROVE  Ledger!Settle("empty")
<1>1. /\ packet.stream \in Streams
      /\ counter \in [CounterName -> [Streams -> Nat]]
      /\ rejected \in [Streams -> Nat]
  BY PacketsAssumption DEF TypeOK, PacketType
<1>2. /\ pc = "classify" /\ packet.nSamples <= 0 /\ packet' = packet /\ pc' = "threw"
      /\ rejected' = [rejected EXCEPT ![packet.stream] = @ + 1]
      /\ UNCHANGED <<clock, counter, queue, arrivals>>
  BY DEF RejectEmpty, pipelineVars
<1>3. HandBar = <<packet>> /\ HandBar' = <<>>
  BY <1>2 DEF HandBar
<1>4. Ledger!Deserves(packet, clock, "empty")
  BY <1>2 DEF Ledger!Deserves
<1>5. ASSUME NEW s \in Streams, NEW g \in Ledger!Heading
      PROVE  Settled(s, g)' = IF s = packet.stream /\ g = "empty" THEN Settled(s, g) + 1
                                                                  ELSE Settled(s, g)
  <2>1. InHand(s, Pending(g)) = 0 /\ InHand(s, Pending(g))' = 0
    BY <1>2 DEF InHand, Pending, Ledger!Heading
  <2>2. QED
    BY <1>1, <1>2, <2>1 DEF Settled
<1>6. "empty" \in Ledger!Heading
  BY DEF Ledger!Heading
<1>7. TallyBar' = [TallyBar EXCEPT ![packet.stream]["empty"] = @ + 1]
  BY <1>1, <1>5, <1>6, OneMoreInTally
<1>8. ChannelBar' = ChannelBar
  BY <1>2 DEF ChannelBar
<1>9. HandBar # <<>> /\ HandBar[1] = packet
  BY <1>3
<1>10. QED
  BY <1>2, <1>3, <1>4, <1>7, <1>8, <1>9 DEF Ledger!Settle

\* Incrementing the counter a classified packet was waiting for changes
\* nothing in the ledger.
LEMMA CountingStutters ==
  ASSUME TypeOK, UNCHANGED pipelineVars,
         \/ IncrementFuture
         \/ IncrementExpired
         \/ IncrementReceived
  PROVE  UNCHANGED LedgerVars
<1>1. /\ packet.stream \in Streams
      /\ counter \in [CounterName -> [Streams -> Nat]]
  BY PacketsAssumption DEF TypeOK, PacketType
<1>2. PICK name \in {"future", "expired", "valid"} :
         /\ Increment(name) /\ pc = name
         /\ pc' = IF name = "valid" THEN "window" ELSE "returned"
         /\ UNCHANGED <<clock, rejected, packet>>
  BY DEF IncrementFuture, IncrementExpired, IncrementReceived
<1>3. ASSUME NEW s \in Streams, NEW g \in Ledger!Heading
      PROVE  Settled(s, g)' = Settled(s, g)
  <2>1. CASE g = "empty"
    BY <1>2, <2>1 DEF Settled
  <2>2. CASE g # "empty"
    <3>1. g \in CounterName /\ name \in CounterName
      BY <2>2 DEF Ledger!Heading, CounterName
    <3>2. counter'[g][s] = IF g = name /\ s = packet.stream THEN counter[g][s] + 1
                                                             ELSE counter[g][s]
      BY <1>1, <1>2, <3>1 DEF Increment
    <3>3. InHand(s, Pending(g)) = IF g = name /\ s = packet.stream THEN 1 ELSE 0
      BY <1>2, <2>2 DEF InHand, Pending, Ledger!Heading
    <3>4. InHand(s, Pending(g))' = 0
      BY <1>2, <2>2 DEF InHand, Pending, Ledger!Heading
    <3>5. counter[g][s] \in Nat
      BY <1>1, <3>1
    <3>6. QED
      BY <2>2, <3>2, <3>3, <3>4, <3>5 DEF Settled
  <2>3. QED
    BY <2>1, <2>2
<1>4. TallyBar' = TallyBar
  BY <1>3, SameTally
<1>5. HandBar' = HandBar
  BY <1>2 DEF HandBar
<1>6. QED
  BY <1>2, <1>4, <1>5, LedgerStutters DEF pipelineVars

\* Steps that touch neither the counters nor the queue, between two points of
\* the loop that look the same to the ledger.
LEMMA LoopStutters ==
  ASSUME UNCHANGED <<clock, counter, rejected, queue, arrivals>>,
         \/ /\ pc \notin {"cumulativeTotal", "total", "classify", "future", "expired",
                         "cumulativeValid", "valid"}
            /\ pc' \notin {"cumulativeTotal", "total", "classify", "future", "expired",
                          "cumulativeValid", "valid"}
         \/ UNCHANGED <<packet, pc>>
         \/ UNCHANGED packet /\ pc = "cumulativeValid" /\ pc' = "valid"
         \/ UNCHANGED packet /\ pc = "cumulativeTotal" /\ pc' = "total"
  PROVE  UNCHANGED LedgerVars
<1>1. ASSUME NEW s \in Streams, NEW g \in Ledger!Heading
      PROVE  Settled(s, g)' = Settled(s, g)
  BY DEF Settled, InHand, Pending, Ledger!Heading
<1>2. TallyBar' = TallyBar
  BY <1>1, SameTally
<1>3. HandBar' = HandBar
  BY DEF HandBar
<1>4. QED
  BY <1>2, <1>3, LedgerStutters

\* The ledger has no entry for a packet that is only in its stream's total.
LEMMA TotalStutters ==
  ASSUME TypeOK, IncrementTotal, UNCHANGED pipelineVars
  PROVE  UNCHANGED LedgerVars
<1>1. counter \in [CounterName -> [Streams -> Nat]]
  BY DEF TypeOK
<1>2. /\ Increment("total") /\ pc = "total" /\ pc' = "classify"
      /\ UNCHANGED <<clock, rejected, packet>>
  BY DEF IncrementTotal
<1>3. ASSUME NEW s \in Streams, NEW g \in Ledger!Heading
      PROVE  Settled(s, g)' = Settled(s, g)
  <2>1. g # "empty" => counter'[g][s] = counter[g][s]
    BY <1>1, <1>2 DEF Increment, Ledger!Heading, CounterName
  <2>2. InHand(s, Pending(g)) = 0 /\ InHand(s, Pending(g))' = 0
    BY <1>2 DEF InHand, Pending, Ledger!Heading
  <2>3. QED
    BY <1>2, <2>1, <2>2 DEF Settled
<1>4. TallyBar' = TallyBar
  BY <1>3, SameTally
<1>5. HandBar' = HandBar
  BY <1>2 DEF HandBar
<1>6. QED
  BY <1>2, <1>4, <1>5, LedgerStutters DEF pipelineVars

-----------------------------------------------------------------------------
\* The refinement.

\* The pipeline implements the ledger, whatever the streams, packets, queue
\* size and intervals: no packet is counted twice or under two headings, none
\* leaves the queue unless it is taken in order or is the oldest of a full
\* queue, and the heading is the one its times deserve.
THEOREM PipelineImplementsLedger == Spec => ImplementsLedger
<1>1. Init => Ledger!Init
  <2> SUFFICES ASSUME Init PROVE Ledger!Init
    OBVIOUS
  <2>1. ChannelBar = <<>>
    BY DEF Init, ChannelBar
  <2>2. HandBar = <<>>
    BY DEF Init, HandBar
  <2>3. TallyBar = [s \in Streams |-> [h \in Ledger!Heading |-> 0]]
    BY DEF Init, SingletonInit, TallyBar, Settled, InHand, Pending, CounterName, Ledger!Heading
  <2>4. clock = 0 /\ arrivals = 0
    BY DEF Init, SingletonInit
  <2>5. QED
    BY <2>1, <2>2, <2>3, <2>4 DEF Ledger!Init
<1>2. TypeOK /\ [Next]_vars => [Ledger!Next]_LedgerVars
  <2> SUFFICES ASSUME TypeOK, [Next]_vars PROVE [Ledger!Next]_LedgerVars
    OBVIOUS
  <2> USE DEF counterVars, windowVars, pipelineVars
  <2>a. CASE FailToEnqueue
    BY <2>a, FailureRefines DEF Ledger!Next
  <2>1. CASE addPacketCallback
    BY <2>1, ArrivalRefines DEF Ledger!Next
  <2>2. CASE TakePacket
    BY <2>2, TakeRefines DEF Ledger!Next
  <2>3. CASE LoopAgain \/ LeaveLoop \/ FindQueueEmpty
    BY <2>3, LoopStutters DEF LoopAgain, LeaveLoop, FindQueueEmpty
  <2>4. CASE TabulateStep
    <3>1. CASE IncrementCumulativeTotal \/ IncrementCumulativeValid
      BY <2>4, <3>1, LoopStutters
         DEF TabulateStep, IncrementCumulativeTotal, IncrementCumulativeValid
    <3>2. CASE IncrementTotal
      BY <2>4, <3>2, TotalStutters DEF TabulateStep
    <3>3. CASE RejectEmpty
      BY <2>4, <3>3, RejectRefines DEF TabulateStep, Ledger!Next, Ledger!Heading
    <3>4. CASE Classify
      BY <2>4, <3>4, ClassifyRefines DEF TabulateStep, Ledger!Next
    <3>5. CASE IncrementFuture \/ IncrementExpired \/ IncrementReceived
      BY <2>4, <3>5, CountingStutters DEF TabulateStep
    <3>6. CASE UpdateWindow
      BY <2>4, <3>6, LoopStutters DEF TabulateStep, UpdateWindow
    <3>7. QED
      BY <2>4, <3>1, <3>2, <3>3, <3>4, <3>5, <3>6 DEF TabulateStep, tabulateMetrics
  <2>5. CASE FlushAfterPacket \/ StampLastUpdate \/ CatchException
    BY <2>5, LoopStutters DEF FlushAfterPacket, StampLastUpdate, CatchException
  <2>6. CASE FlushWhenIdle \/ WakeUp
    BY <2>6, LoopStutters DEF FlushWhenIdle, WakeUp
  <2>7. CASE ClearKeepRunning
    BY <2>7, LoopStutters DEF ClearKeepRunning, singletonVars
  <2>8. CASE PassTime
    <3>1. clock < MaxClock /\ clock' = clock + 1
      BY <2>8 DEF PassTime, Tick
    <3>2. UNCHANGED <<arrivals, ChannelBar, HandBar, TallyBar>>
      BY <2>8 DEF PassTime, Tick, ChannelBar, HandBar, TallyBar, Settled, InHand
    <3>3. QED
      BY <3>1, <3>2 DEF Ledger!Next, Ledger!Tick
  <2>9. CASE UNCHANGED vars
    BY <2>9, LoopStutters DEF vars, singletonVars
  <2>10. QED
    BY <2>a, <2>1, <2>2, <2>3, <2>4, <2>5, <2>6, <2>7, <2>8, <2>9 DEF Next, MetricsThread
<1>3. TypeOK /\ [Next]_vars => [Ledger!Next]_(Ledger!ledgerVars)
  BY <1>2 DEF LedgerVars, Ledger!ledgerVars
<1>4. QED
  BY <1>1, <1>3, TypeCorrect, PTL DEF Spec, ImplementsLedger, Ledger!Spec

=============================================================================
