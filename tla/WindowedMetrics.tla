--------------------------- MODULE WindowedMetrics ---------------------------
(***************************************************************************)
(* One stream's accumulation window (struct WindowedMetrics in             *)
(* metricsSingleton.cpp): the running sums of the valid packets, and the   *)
(* three gauge values computed from them when the window is closed.        *)
(*                                                                         *)
(* A packet is what tabulation reads from it: its stream, the times of its *)
(* first and last samples, its number of samples, and the sum and sum of   *)
(* squares of those samples.  Gauge values are exact rationals written as  *)
(* <<numerator, denominator>>; the square root is never taken, so the      *)
(* standard deviation is represented by its square.                        *)
(***************************************************************************)
EXTENDS Integers

CONSTANT UpdateInterval   \* mUpdateInterval, in clock units

ASSUME UpdateIntervalAssumption == UpdateInterval \in Nat \ {0}

GaugeName == {"latency", "counts", "std"}

Rational == Int \X Int

Window == [lastUpdate : Nat, sum : Int, sumSquared : Int,
           samplesCount : Nat, packetsCount : Nat, sumLatency : Nat]

\* A window whose sums are zero, opened (or just reset) at time now.
NewWindow(now) ==
    [lastUpdate |-> now, sum |-> 0, sumSquared |-> 0,
     samplesCount |-> 0, packetsCount |-> 0, sumLatency |-> 0]

\* WindowedMetrics::update: an empty packet leaves the window alone.
Update(w, p, latency) ==
    IF p.nSamples < 1 THEN w
    ELSE [lastUpdate   |-> w.lastUpdate,
          sum          |-> w.sum + p.sum,
          sumSquared   |-> w.sumSquared + p.sumSquared,
          samplesCount |-> w.samplesCount + p.nSamples,
          packetsCount |-> w.packetsCount + 1,
          sumLatency   |-> w.sumLatency + latency]

\* The window has lasted long enough for updateAndReset to close it.
Due(w, now) == now >= w.lastUpdate + UpdateInterval

-----------------------------------------------------------------------------
\* The averages updateAndReset stores when it closes w.  A window without
\* samples reports the update interval as its latency, and zeros.

AverageLatency(w) ==
    IF w.samplesCount > 0 THEN <<w.sumLatency, w.packetsCount>>
                          ELSE <<UpdateInterval, 1>>

AverageCounts(w) ==
    IF w.samplesCount > 0 THEN <<w.sum, w.samplesCount>> ELSE <<0, 1>>

\* E[x^2] - E[x]^2 over the common denominator samplesCount^2, clipped at 0.
VarianceNumerator(w) ==
    LET v == w.samplesCount * w.sumSquared - w.sum * w.sum
    IN  IF v < 0 THEN 0 ELSE v

\* Mutant: the factor n / (n - 1) is missing.
StdCountsSquaredUnscaled(w) ==
    LET n == w.samplesCount
    IN  IF n = 0 THEN <<0, 1>> ELSE <<VarianceNumerator(w), n * n>>

\* The factor n / (n - 1) multiplies the root of the variance, so its square
\* multiplies the variance.
StdCountsSquared(w) ==
    LET n == w.samplesCount
    IN  IF n = 0 THEN <<0, 1>>
        ELSE IF n = 1 THEN <<VarianceNumerator(w), 1>>
        ELSE <<VarianceNumerator(w), (n - 1) * (n - 1)>>

GaugeValue(g, w) ==
    CASE g = "latency" -> AverageLatency(w)
      [] g = "counts"  -> AverageCounts(w)
      [] g = "std"     -> StdCountsSquared(w)

=============================================================================
