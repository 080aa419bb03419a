------------------------------ MODULE Registry ------------------------------
(***************************************************************************)
(* The metrics registry (packages/observability/src/registry.ts): counters *)
(* and gauges as functions from label sets to values, histograms as        *)
(* functions from label sets to cumulative counts.  A label set is a       *)
(* record: the code sorts the labels before it compares them.              *)
(***************************************************************************)
EXTENDS Integers, FiniteSets

NoSeries == [l \in {} |-> 0]
NoLabels == [n \in {} |-> ""]

Value(series, labels) == IF labels \in DOMAIN series THEN series[labels] ELSE 0

\* Counter.inc by one, the only amount a caller passes (a negative one throws).
Inc(series, labels) ==
    [l \in DOMAIN series \cup {labels} |->
        IF l = labels THEN Value(series, l) + 1 ELSE series[l]]

SetGauge(series, labels, value) ==
    [l \in DOMAIN series \cup {labels} |->
        IF l = labels THEN value ELSE series[l]]

\* Counter.samples: a counter nobody incremented still says 0, a gauge nobody
\* set says nothing.
CounterSamples(series) ==
    IF DOMAIN series = {} THEN {[labels |-> NoLabels, value |-> 0]}
    ELSE {[labels |-> l, value |-> series[l]] : l \in DOMAIN series}

GaugeSamples(series) == {[labels |-> l, value |-> series[l]] : l \in DOMAIN series}
-----------------------------------------------------------------------------
(* Histograms.  Bounds is the set of bucket bounds: the constructor sorts  *)
(* them and throws when two are equal.                                     *)

Bounds(buckets) == {buckets[i] : i \in DOMAIN buckets}
BoundsAreDistinct(buckets) == Cardinality(Bounds(buckets)) = Cardinality(DOMAIN buckets)

EmptyEntry(bounds) == [counts |-> [b \in bounds |-> 0], sum |-> 0, count |-> 0]

Entry(bounds, series, labels) ==
    IF labels \in DOMAIN series THEN series[labels] ELSE EmptyEntry(bounds)

\* Slip: an observation lands in the narrowest bucket that holds it only.
ObservedInOneBucket(bounds, e, value) ==
    LET Holds(b) == value <= b /\ \A c \in bounds : value <= c => b <= c IN
    [counts |-> [b \in bounds |-> e.counts[b] + (IF Holds(b) THEN 1 ELSE 0)],
     sum |-> e.sum + value, count |-> e.count + 1]

\* An observation lands in its own bucket and every wider one.
Observed(bounds, e, value) ==
    [counts |-> [b \in bounds |-> e.counts[b] + (IF value <= b THEN 1 ELSE 0)],
     sum |-> e.sum + value, count |-> e.count + 1]

Observe(bounds, series, labels, value) ==
    [l \in DOMAIN series \cup {labels} |->
        IF l = labels THEN Observed(bounds, Entry(bounds, series, l), value)
        ELSE series[l]]

\* Histogram.samples: a line per bound, the +Inf line, the sum and the count.
HistogramSamples(series) ==
    {[labels |-> l, buckets |-> series[l].counts, inf |-> series[l].count,
      sum |-> series[l].sum, count |-> series[l].count] : l \in DOMAIN series}
-----------------------------------------------------------------------------
(* The registry: metrics by name, in [type, series] records.               *)

Samples(m) ==
    CASE m.type = "counter" -> CounterSamples(m.series)
      [] m.type = "gauge" -> GaugeSamples(m.series)
      [] m.type = "histogram" -> HistogramSamples(m.series)

\* Registry.render: the lines of every metric, registered or fed or not.
Render(metrics) == [n \in DOMAIN metrics |-> Samples(metrics[n])]
=============================================================================
