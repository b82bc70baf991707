-------------------------- MODULE WindowAccumulation --------------------------
(***************************************************************************)
(* One accumulation window fed with packets of integer samples, and closed *)
(* when it is due.  The state machine keeps, next to the running sums the  *)
(* code keeps, the samples and latencies themselves, so that each gauge    *)
(* can be compared with its textbook definition.                           *)
(*                                                                         *)
(* The sum of squares of an integer packet is std::inner_product of two    *)
(* int sequences: each product is computed in int, before it is added to   *)
(* the double.  A product that does not fit wraps modulo 2^IntWidth (the   *)
(* overflow is undefined in C++; wrapping is what the build produces).     *)
(***************************************************************************)
EXTENDS WindowedMetrics, Sequences, Functions

CONSTANTS SampleValues,  \* values a sample may have
          Latencies,     \* latencies a packet may have
          PacketSizes,   \* numbers of samples a packet may have
          IntWidth,      \* bits of an int
          MaxSamples,    \* bound: samples in one window
          MaxTime        \* bound: the clock stops here

IntLimit == 2 ^ (IntWidth - 1)

ASSUME WidthAssumption == IntWidth \in Nat \ {0}
ASSUME SamplesAssumption == SampleValues \subseteq (-IntLimit) .. (IntLimit - 1)
ASSUME LatenciesAssumption == Latencies \subseteq Nat
ASSUME PacketSizesAssumption == PacketSizes \subseteq Nat

VARIABLES time,
          window,    \* the WindowedMetrics under test
          gauges,    \* the three values it stored when it was last closed
          samples,   \* auxiliary: the samples in the open window
          latencies, \* auxiliary: the latencies of its packets
          reported   \* auxiliary: samples and latencies of the last closed window

vars == <<time, window, gauges, samples, latencies, reported>>

Wrap(n) == ((n + IntLimit) % (2 * IntLimit)) - IntLimit

\* Mutant: the sum of squares stops one sample short of the end.
computeSumsOffByOne(data) ==
    [sum        |-> SumFunction(data),
     sumSquared |-> SumFunction([i \in 1 .. Len(data) - 1 |-> Wrap(data[i] * data[i])])]

\* computeSumAndSumSquared for a packet of int samples.
computeSumAndSumSquared(data) ==
    [sum        |-> SumFunction(data),
     sumSquared |-> SumFunction([i \in DOMAIN data |-> Wrap(data[i] * data[i])])]

Init ==
    /\ time = 0
    /\ window = NewWindow(0)
    /\ gauges = [g \in GaugeName |-> GaugeValue(g, NewWindow(0))]
    /\ samples = <<>>
    /\ latencies = <<>>
    /\ reported = [samples |-> <<>>, latencies |-> <<>>]

\* A packet of valid time is tabulated.
AddPacket ==
    \E n \in PacketSizes, latency \in Latencies :
        /\ Len(samples) + n <= MaxSamples
        /\ \E data \in [1 .. n -> SampleValues] :
              LET sums == computeSumAndSumSquared(data)
              IN  /\ window' = Update(window,
                                      [nSamples   |-> n,
                                       sum        |-> sums.sum,
                                       sumSquared |-> sums.sumSquared],
                                      latency)
                  /\ samples' = samples \o data
        /\ latencies' = IF n > 0 THEN Append(latencies, latency) ELSE latencies
        /\ UNCHANGED <<time, gauges, reported>>

\* Mutant: the sum of latencies is not reset.
updateAndResetKeepsLatency ==
    /\ Due(window, time)
    /\ gauges' = [g \in GaugeName |-> GaugeValue(g, window)]
    /\ window' = [NewWindow(time) EXCEPT !.sumLatency = window.sumLatency]
    /\ reported' = [samples |-> samples, latencies |-> latencies]
    /\ samples' = <<>>
    /\ latencies' = <<>>
    /\ UNCHANGED time

\* updateAndReset when the window is due.
updateAndReset ==
    /\ Due(window, time)
    /\ gauges' = [g \in GaugeName |-> GaugeValue(g, window)]
    /\ window' = NewWindow(time)
    /\ reported' = [samples |-> samples, latencies |-> latencies]
    /\ samples' = <<>>
    /\ latencies' = <<>>
    /\ UNCHANGED time

Tick ==
    /\ time < MaxTime
    /\ time' = time + 1
    /\ UNCHANGED <<window, gauges, samples, latencies, reported>>

Next == AddPacket \/ updateAndReset \/ Tick

Spec == Init /\ [][Next]_vars

-----------------------------------------------------------------------------
\* Properties.

TypeOK ==
    /\ time \in Nat
    /\ window \in Window
    /\ gauges \in [GaugeName -> Rational]
    /\ samples \in Seq(SampleValues)
    /\ latencies \in Seq(Latencies)
    /\ reported \in [samples : Seq(SampleValues), latencies : Seq(Latencies)]

SameRational(q, r) == q[1] * r[2] = r[1] * q[2]

\* The averages reported for a window are those of exactly the samples and
\* packets tabulated while it was open, however they were divided into
\* packets; an empty window reports the update interval as its latency, and
\* none is divided by zero.
AveragesAreExact ==
    LET n == Len(reported.samples)
        m == Len(reported.latencies)
    IN  /\ \A g \in GaugeName : gauges[g][2] > 0
        /\ n > 0 => SameRational(gauges["counts"], <<SumFunction(reported.samples), n>>)
        /\ m > 0 => SameRational(gauges["latency"], <<SumFunction(reported.latencies), m>>)
        /\ m = 0 => /\ SameRational(gauges["latency"], <<UpdateInterval, 1>>)
                    /\ gauges["counts"][1] = 0
                    /\ gauges["std"][1] = 0

\* n times the sum of squares minus the square of the sum, written without
\* cancellation: the sum of the squared differences of all pairs of samples.
PairwiseSquares(data) ==
    LET Pairs == {p \in (DOMAIN data) \X (DOMAIN data) : p[1] < p[2]}
    IN  SumFunction([p \in Pairs |-> (data[p[1]] - data[p[2]]) * (data[p[1]] - data[p[2]])])

SquaresFit(data) == \A i \in DOMAIN data : data[i] * data[i] < IntLimit

\* As long as every sample's square fits an int, the running sums hold what
\* the variance of the open window needs, and the clipping at zero never acts.
SumsHoldTheVariance ==
    SquaresFit(samples) => VarianceNumerator(window) = PairwiseSquares(samples)

\* As long as the squares fit, the third gauge is the deviation of exactly the
\* samples tabulated, n / (n - 1) times the root of their mean squared distance
\* from their mean, and nothing of it is lost to the difference it is computed by.
StdIsScaledDeviation ==
    LET n == Len(reported.samples)
    IN  SquaresFit(reported.samples) =>
            /\ n = 1 => gauges["std"][1] = 0
            /\ n > 1 => SameRational(gauges["std"],
                                    <<PairwiseSquares(reported.samples), (n - 1) * (n - 1)>>)

\* README.md: the gauge is "the standard deviation of the samples".  Its
\* square would be the variance of the samples, with either denominator.
StdIsAStandardDeviation ==
    LET n == Len(reported.samples)
        v == PairwiseSquares(reported.samples)
    IN  n > 1 => \/ SameRational(gauges["std"], <<v, n * (n - 1)>>)
                 \/ SameRational(gauges["std"], <<v, n * n>>)

\* README.md: a standard deviation is zero only for equal samples.
StdIsZeroOnlyForEqualSamples ==
    gauges["std"][1] = 0 =>
        \A i, j \in DOMAIN reported.samples : reported.samples[i] = reported.samples[j]

=============================================================================
