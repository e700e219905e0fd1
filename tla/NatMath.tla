------------------------------- MODULE NatMath -------------------------------
(***************************************************************************)
(* What a NAT's observed ports say: src/scan/math.c and                    *)
(* src/analysis/classify.c, with src/analysis/score.c.  Ports are a        *)
(* sequence of 16-bit numbers.  The code computes in double; here a mean,  *)
(* a variance or a slope is the exact fraction <<numerator, denominator>>, *)
(* and a median, which is a whole or a half number, is its double.         *)
(***************************************************************************)
EXTENDS Integers, Sequences, FiniteSets

CONSTANTS
  PORT_MAX,        \* 65535 in the code
  MAX_SAMPLES      \* XURY_CLASSIFY_MAX_SAMPLES and XURY_MATH_MEDIAN_MAX, 64

ASSUME NatMathAssumption == PORT_MAX \in Nat \ {0} /\ MAX_SAMPLES \in Nat \ {0, 1}

Total(v) ==
  LET sum[i \in 0..Len(v)] == IF i = 0 THEN 0 ELSE sum[i - 1] + v[i] IN sum[Len(v)]
Magnitude(n) == IF n < 0 THEN -n ELSE n
Clamped(port) == IF port < 1 THEN 1 ELSE IF port > PORT_MAX THEN PORT_MAX ELSE port

\* round() of a fraction with a positive denominator: halves away from zero.
Rounded(num, den) ==
  LET up == (2 * Magnitude(num) + den) \div (2 * den) IN IF num < 0 THEN -up ELSE up
-----------------------------------------------------------------------------
(* src/scan/math.c.                                                        *)

math_mean(v) == IF v = <<>> THEN <<0, 1>> ELSE <<Total(v), Len(v)>>

\* The mean of the squared distances from the mean.
math_variance(v) ==
  IF Len(v) < 2 THEN <<0, 1>>
  ELSE LET n == Len(v)
           away(i) == n * v[i] - math_mean(v)[1]
       IN  <<Total([i \in 1..n |-> away(i) * away(i)]), n * n * n>>

\* The k-th of the values, were they sorted.
Ranked(v, k) ==
  CHOOSE x \in {v[i] : i \in DOMAIN v} :
    /\ Cardinality({i \in DOMAIN v : v[i] < x}) < k
    /\ Cardinality({i \in DOMAIN v : v[i] <= x}) >= k

\* Twice the median of the first MAX_SAMPLES values.
math_median(v) ==
  LET m == IF Len(v) > MAX_SAMPLES THEN MAX_SAMPLES ELSE Len(v)
      first == SubSeq(v, 1, m)
  IN  IF m = 0 THEN 0
      ELSE IF m % 2 = 1 THEN 2 * Ranked(first, m \div 2 + 1)
      ELSE Ranked(first, m \div 2) + Ranked(first, m \div 2 + 1)

\* Sxy over Sxx of v against 0, 1, ..., both scaled by 2 n.
math_slope(v) ==
  LET n == Len(v)
      dx(i) == 2 * (i - 1) - (n - 1)
      dy(i) == n * v[i] - math_mean(v)[1]
  IN  IF n < 2 THEN <<0, 1>>
      ELSE <<2 * Total([i \in 1..n |-> dx(i) * dy(i)]),
             n * Total([i \in 1..n |-> dx(i) * dx(i)])>>

math_is_monotonic(v) == \A i \in 1..(Len(v) - 1) : v[i] <= v[i + 1]

math_predict_next(v) ==
  IF v = <<>> THEN 0
  ELSE Clamped(v[Len(v)] + Rounded(math_slope(v)[1], math_slope(v)[2]))
-----------------------------------------------------------------------------
(* src/analysis/classify.c.  cfg.variance is the threshold, cfg.tolerance  *)
(* the tolerance in hundredths, cfg.min_samples the fewest samples.        *)

\* The distance of a step from the nearest integer, against the tolerance.
slope_is_near_integer(twice, tolerance) == 50 * (twice % 2) <= tolerance

confidence_from_n(n, min_samples) ==
  IF n \div min_samples < 2 THEN "low" ELSE IF n \div min_samples < 4 THEN "medium" ELSE "high"

compute_deltas(ports) == [i \in 1..(Len(ports) - 1) |-> Magnitude(ports[i + 1] - ports[i])]

\* Fault: every step is taken for one upwards.
Upwards(ports) == 1

\* The sign most steps have; a repeated port has none, and a tie is upwards.
delta_direction(ports) ==
  LET up   == {i \in 1..(Len(ports) - 1) : ports[i + 1] > ports[i]}
      down == {i \in 1..(Len(ports) - 1) : ports[i + 1] < ports[i]}
  IN  IF Cardinality(down) > Cardinality(up) THEN -1 ELSE 1

classify_rule(ports, cfg) ==
  LET deltas == compute_deltas(ports)
      spread == math_variance(deltas)
      twice  == math_median(deltas)
  IN  CASE Len(ports) \notin 2..MAX_SAMPLES -> "random"
        [] spread[1] > cfg.variance * spread[2] -> "random"
        [] ~slope_is_near_integer(twice, cfg.tolerance) -> "random"
        [] Rounded(twice, 2) = 1 -> "sequential"
        [] OTHER -> "fixed_step"

predict_from_median(ports) ==
  Clamped(ports[Len(ports)]
          + delta_direction(ports) * Rounded(math_median(compute_deltas(ports)), 2))

classify_port_pattern(ports, cfg) ==
  IF Len(ports) < cfg.min_samples
  THEN [pattern |-> "insufficient", confidence |-> "low", predicted |-> 0]
  ELSE LET pattern == classify_rule(ports, cfg)
       IN  [pattern    |-> pattern,
            confidence |-> confidence_from_n(Len(ports), cfg.min_samples),
            predicted  |-> IF pattern = "random" THEN 0 ELSE predict_from_median(ports)]
-----------------------------------------------------------------------------
(* src/analysis/score.c: no weapon's probability is calibrated, and the    *)
(* output is not written.                                                  *)

score_not_calibrated(out) == IF out = "NULL" THEN "INVAL" ELSE "NOT_CALIBRATED"
score_calibrated == FALSE
=============================================================================
