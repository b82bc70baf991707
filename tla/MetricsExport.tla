----------------------------- MODULE MetricsExport -----------------------------
(***************************************************************************)
(* The OpenTelemetry reader beside the packet pipeline.  In every export   *)
(* interval its thread calls the seven callbacks of otelMetrics.hpp in the *)
(* order in which Process registered them; each one copies one map of the  *)
(* MetricsSingleton under the singleton's lock, so the metrics thread may  *)
(* count packets and close windows between any two copies.  What the       *)
(* collector receives is the seven copies of one cycle.                    *)
(***************************************************************************)
EXTENDS PacketPipeline

VARIABLES observing,      \* the next callback, or "waiting" between two cycles
          observed,       \* the counters copied last
          observedGauge   \* the gauges copied last

exportVars == <<observing, observed, observedGauge>>

Callback == {"waiting"} \cup CounterName \cup GaugeName

ExportInit ==
    /\ Init
    /\ observing = "waiting"
    /\ observed = [c \in CounterName |-> [s \in Streams |-> 0]]
    /\ observedGauge = [g \in GaugeName |-> [s \in {} |-> <<0, 1>>]]

\* The export interval has passed.
StartCycle ==
    /\ observing = "waiting"
    /\ observing' = "valid"
    /\ UNCHANGED <<vars, observed, observedGauge>>

\* The callback of counter c copies its map; callback next follows.
ObserveCounter(c, next) ==
    /\ observing = c
    /\ observed' = [observed EXCEPT ![c] = counter[c]]
    /\ observing' = next
    /\ UNCHANGED <<vars, observedGauge>>

ObserveGauge(g, next) ==
    /\ observing = g
    /\ observedGauge' = [observedGauge EXCEPT ![g] = gauge[g]]
    /\ observing' = next
    /\ UNCHANGED <<vars, observed>>

\* Mutant: the callback of the total copies the map of the valid packets.
observeValidAsTotal ==
    /\ observing = "total"
    /\ observed' = [observed EXCEPT !["total"] = counter["valid"]]
    /\ observing' = "latency"
    /\ UNCHANGED <<vars, observedGauge>>

observeValidPacketsReceived == ObserveCounter("valid", "future")
observeFuturePacketsReceived == ObserveCounter("future", "expired")
observeExpiredPacketsReceived == ObserveCounter("expired", "total")
observeTotalPacketsReceived == ObserveCounter("total", "latency")
observeWindowedAverageLatency == ObserveGauge("latency", "counts")
observeWindowedAverageCounts == ObserveGauge("counts", "std")
observeWindowedStdCounts == ObserveGauge("std", "waiting")

Exporter ==
    \/ StartCycle
    \/ observeValidPacketsReceived
    \/ observeFuturePacketsReceived
    \/ observeExpiredPacketsReceived
    \/ observeTotalPacketsReceived
    \/ observeWindowedAverageLatency
    \/ observeWindowedAverageCounts
    \/ observeWindowedStdCounts

ExportNext ==
    \/ Next /\ UNCHANGED exportVars
    \/ Exporter

ExportSpec == ExportInit /\ [][ExportNext]_<<vars, exportVars>>

-----------------------------------------------------------------------------
\* Properties.

\* The exporter's copies keep their types.
ExportTypeOK ==
    /\ observing \in Callback
    /\ observed \in [CounterName -> [Streams -> Nat]]
    /\ DOMAIN observedGauge = GaugeName
    /\ \A g \in GaugeName : DOMAIN observedGauge[g] \subseteq Streams

\* README.md defines packets.all as valid + future + expired + incorrectly
\* formatted.  The four counters the collector receives were copied at four
\* instants, yet the parts never exceed the total: the total is counted first
\* and copied last.
ExportedPartsWithinTotal ==
    observing = "waiting" =>
        \A s \in Streams :
            observed["valid"][s] + observed["future"][s] + observed["expired"][s]
                <= observed["total"][s]

\* A stream the collector sees with a latency is seen with its counts and
\* standard deviation in the same cycle, although a window may be closed
\* between two of the three copies.
ExportedGaugesComplete ==
    observing = "waiting" =>
        /\ DOMAIN observedGauge["latency"] \subseteq DOMAIN observedGauge["counts"]
        /\ DOMAIN observedGauge["counts"] \subseteq DOMAIN observedGauge["std"]

=============================================================================
