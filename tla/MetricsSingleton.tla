--------------------------- MODULE MetricsSingleton ---------------------------
(***************************************************************************)
(* The process-wide MetricsSingleton (metricsSingleton.cpp): per-stream    *)
(* packet counters, two cumulative counters, the accumulation windows and  *)
(* the three gauge maps.                                                   *)
(*                                                                         *)
(* One thread tabulates.  Every counter and map is read by other threads   *)
(* (the OpenTelemetry exporter, the main thread), so each update made      *)
(* under a lock of its own, or through an atomic, is a step of its own:    *)
(* pc says which step of tabulateMetrics(packet) comes next.  The module   *)
(* has no next-state relation: PacketPipeline calls these steps from the   *)
(* tabulating thread's loop.                                               *)
(*                                                                         *)
(* The code's counter maps have a key only after its first increment; an   *)
(* absent key is the value 0 here.  Windows and gauges are maps whose      *)
(* domain is the set of streams present, as in the code.                   *)
(***************************************************************************)
EXTENDS WindowedMetrics, FiniteSets

CONSTANTS Streams,           \* stream identifiers
          Packets,           \* the packets that may be read
          MaximumLatency,    \* mMaximumLatency (180 days), in clock units
          MaximumFutureTime, \* mMaximumFutureTime (0), in clock units
          MaxClock           \* bound: the clock stops here

PacketType == [stream : Streams, start : Int, end : Int,
               nSamples : Nat, sum : Int, sumSquared : Int]

\* An identifier is made of four codes, read from fields of fixed width.
ASSUME StreamsAssumption == IsFiniteSet(Streams)
ASSUME PacketsAssumption == Packets # {} /\ Packets \subseteq PacketType
ASSUME TimesAssumption == MaximumLatency \in Nat /\ MaximumFutureTime \in Nat
ASSUME MaxClockAssumption == MaxClock \in Nat

VARIABLES clock,           \* the high resolution clock
          cumulativeTotal, \* mCumulativeReceivedTotalPacketsCounter
          cumulativeValid, \* mCumulativeReceivedValidPacketsCounter
          counter,         \* the received, future, expired and total counter maps
          windows,         \* mWindowedMetricsMap
          gauge,           \* mAverageLatencyMap, mAverageCountsMap, mStdCountsMap
          pc,              \* the tabulating thread's next step
          packet,          \* the packet it is tabulating
          tabulatedAt,     \* the time tabulateMetrics read (local variable now)
          rejected,        \* auxiliary: packets whose tabulation threw, per stream
          closedPackets    \* auxiliary: valid packets in the windows closed so far

counterVars == <<cumulativeTotal, cumulativeValid, counter, rejected>>
windowVars == <<windows, gauge, closedPackets>>
singletonVars == <<clock, counterVars, windowVars, pc, packet, tabulatedAt>>

CounterName == {"valid", "future", "expired", "total"}

\* What a default-constructed Packet stands for: its value is never read.
DefaultPacket == CHOOSE p \in Packets : TRUE

SingletonInit ==
    /\ clock = 0
    /\ cumulativeTotal = 0
    /\ cumulativeValid = 0
    /\ counter = [c \in CounterName |-> [s \in Streams |-> 0]]
    /\ windows = [s \in {} |-> NewWindow(0)]
    /\ gauge = [g \in GaugeName |-> [s \in {} |-> <<0, 1>>]]
    /\ packet = DefaultPacket
    /\ tabulatedAt = 0
    /\ rejected = [s \in Streams |-> 0]
    /\ closedPackets = [s \in Streams |-> 0]

Tick ==
    /\ clock < MaxClock
    /\ clock' = clock + 1
    /\ UNCHANGED <<counterVars, windowVars, pc, packet, tabulatedAt>>

-----------------------------------------------------------------------------
\* tabulateMetrics(packet), step by step.  A call starts at "cumulativeTotal"
\* and ends at "returned" or "threw".

Increment(name) == counter' = [counter EXCEPT ![name][packet.stream] = @ + 1]

IncrementCumulativeTotal ==
    /\ pc = "cumulativeTotal"
    /\ cumulativeTotal' = cumulativeTotal + 1
    /\ pc' = "total"
    /\ UNCHANGED <<clock, cumulativeValid, counter, rejected, windowVars,
                   packet, tabulatedAt>>

IncrementTotal ==
    /\ pc = "total"
    /\ Increment("total")
    /\ pc' = "classify"
    /\ UNCHANGED <<clock, cumulativeTotal, cumulativeValid, rejected, windowVars,
                   packet, tabulatedAt>>

\* A packet without samples is refused after it was counted in the total.
RejectEmpty ==
    /\ pc = "classify"
    /\ packet.nSamples <= 0
    /\ rejected' = [rejected EXCEPT ![packet.stream] = @ + 1]
    /\ pc' = "threw"
    /\ UNCHANGED <<clock, cumulativeTotal, cumulativeValid, counter, windowVars,
                   packet, tabulatedAt>>

\* Mutant: a packet that ends exactly now counts as future.
ClassOfClosedBound(p, now) ==
    IF p.end >= now + MaximumFutureTime THEN "future"
    ELSE IF p.start < now - MaximumLatency THEN "expired"
    ELSE "valid"

ClassOf(p, now) ==
    IF p.end > now + MaximumFutureTime THEN "future"
    ELSE IF p.start < now - MaximumLatency THEN "expired"
    ELSE "valid"

\* Mutant: a valid packet skips the cumulative counter.
ClassifyUncumulated ==
    /\ pc = "classify"
    /\ packet.nSamples > 0
    /\ tabulatedAt' = clock
    /\ pc' = ClassOf(packet, clock)
    /\ UNCHANGED <<clock, counterVars, windowVars, packet>>

\* The clock is read and the packet's times are compared with it; which
\* counter comes next is decided here, before any of them is incremented.
Classify ==
    /\ pc = "classify"
    /\ packet.nSamples > 0
    /\ tabulatedAt' = clock
    /\ pc' = IF ClassOf(packet, clock) = "valid" THEN "cumulativeValid"
                                                 ELSE ClassOf(packet, clock)
    /\ UNCHANGED <<clock, counterVars, windowVars, packet>>

\* Mutant: the return after counting a future packet is missing.
IncrementFutureNoReturn ==
    /\ pc = "future"
    /\ Increment("future")
    /\ pc' = IF packet.start < tabulatedAt - MaximumLatency THEN "expired"
                                                          ELSE "cumulativeValid"
    /\ UNCHANGED <<clock, cumulativeTotal, cumulativeValid, rejected, windowVars,
                   packet, tabulatedAt>>

IncrementFuture ==
    /\ pc = "future"
    /\ Increment("future")
    /\ pc' = "returned"
    /\ UNCHANGED <<clock, cumulativeTotal, cumulativeValid, rejected, windowVars,
                   packet, tabulatedAt>>

IncrementExpired ==
    /\ pc = "expired"
    /\ Increment("expired")
    /\ pc' = "returned"
    /\ UNCHANGED <<clock, cumulativeTotal, cumulativeValid, rejected, windowVars,
                   packet, tabulatedAt>>

IncrementCumulativeValid ==
    /\ pc = "cumulativeValid"
    /\ cumulativeValid' = cumulativeValid + 1
    /\ pc' = "valid"
    /\ UNCHANGED <<clock, cumulativeTotal, counter, rejected, windowVars,
                   packet, tabulatedAt>>

IncrementReceived ==
    /\ pc = "valid"
    /\ Increment("valid")
    /\ pc' = "window"
    /\ UNCHANGED <<clock, cumulativeTotal, cumulativeValid, rejected, windowVars,
                   packet, tabulatedAt>>

Latency(p, now) == IF now - p.end < 0 THEN 0 ELSE now - p.end

\* The stream's window, or a new one opened now if it has none.
WindowOf(s) == IF s \in DOMAIN windows THEN windows[s] ELSE NewWindow(clock)

UpdateWindow ==
    /\ pc = "window"
    /\ LET s == packet.stream
           w == Update(WindowOf(s), packet, Latency(packet, tabulatedAt))
       IN  windows' = [t \in DOMAIN windows \cup {s} |->
                          IF t = s THEN w ELSE windows[t]]
    /\ pc' = "returned"
    /\ UNCHANGED <<clock, counterVars, gauge, closedPackets, packet, tabulatedAt>>

tabulateMetrics ==
    \/ IncrementCumulativeTotal
    \/ IncrementTotal
    \/ RejectEmpty
    \/ Classify
    \/ IncrementFuture
    \/ IncrementExpired
    \/ IncrementCumulativeValid
    \/ IncrementReceived
    \/ UpdateWindow

-----------------------------------------------------------------------------
\* Mutant: every window is reset, although only those that are due report.
updateAndResetAllWindows ==
    LET due == {s \in DOMAIN windows : Due(windows[s], clock)}
    IN  /\ windows' = [s \in DOMAIN windows |-> NewWindow(clock)]
        /\ gauge' = [g \in GaugeName |->
                        [s \in DOMAIN gauge[g] \cup due |->
                            IF s \in due THEN GaugeValue(g, windows[s])
                                         ELSE gauge[g][s]]]
        /\ closedPackets' = [s \in Streams |->
                                IF s \in due
                                THEN closedPackets[s] + windows[s].packetsCount
                                ELSE closedPackets[s]]

\* Mutant: the standard deviation of a single sample is not published.
updateAndResetSparingStd ==
    LET due == {s \in DOMAIN windows : Due(windows[s], clock)}
        Published(g) == IF g = "std" THEN {s \in due : windows[s].samplesCount # 1} ELSE due
    IN  /\ windows' = [s \in DOMAIN windows |->
                          IF s \in due THEN NewWindow(clock) ELSE windows[s]]
        /\ gauge' = [g \in GaugeName |->
                        [s \in DOMAIN gauge[g] \cup Published(g) |->
                            IF s \in Published(g) THEN GaugeValue(g, windows[s])
                                                  ELSE gauge[g][s]]]
        /\ closedPackets' = [s \in Streams |->
                                IF s \in due
                                THEN closedPackets[s] + windows[s].packetsCount
                                ELSE closedPackets[s]]

\* Mutant: the sums are reset before the gauges are computed from them.
updateAndResetTooEarly ==
    LET due == {s \in DOMAIN windows : Due(windows[s], clock)}
    IN  /\ windows' = [s \in DOMAIN windows |->
                          IF s \in due THEN NewWindow(clock) ELSE windows[s]]
        /\ gauge' = [g \in GaugeName |->
                        [s \in DOMAIN gauge[g] \cup due |->
                            IF s \in due THEN GaugeValue(g, NewWindow(clock))
                                         ELSE gauge[g][s]]]
        /\ closedPackets' = [s \in Streams |->
                                IF s \in due
                                THEN closedPackets[s] + windows[s].packetsCount
                                ELSE closedPackets[s]]

\* Under one lock, every window that is due is reset and the three gauge
\* maps get the values computed from it.
updateAndResetWindowedMetrics ==
    LET due == {s \in DOMAIN windows : Due(windows[s], clock)}
    IN  /\ windows' = [s \in DOMAIN windows |->
                          IF s \in due THEN NewWindow(clock) ELSE windows[s]]
        /\ gauge' = [g \in GaugeName |->
                        [s \in DOMAIN gauge[g] \cup due |->
                            IF s \in due THEN GaugeValue(g, windows[s])
                                         ELSE gauge[g][s]]]
        /\ closedPackets' = [s \in Streams |->
                                IF s \in due
                                THEN closedPackets[s] + windows[s].packetsCount
                                ELSE closedPackets[s]]

=============================================================================
