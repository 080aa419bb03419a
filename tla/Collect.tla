------------------------------ MODULE Collect -------------------------------
(***************************************************************************)
(* What collectMetrics (packages/observability/src/collect.ts) makes of    *)
(* the answers of its three requests: a registry made for the scrape, fed  *)
(* by two guard simulations and an authentication check.                   *)
(***************************************************************************)
EXTENDS Registry

CONSTANT LatencyBuckets   \* noyeet_simulation_duration_seconds: its bounds as written

ASSUME LatencyBucketsAccepted == BoundsAreDistinct(LatencyBuckets)

LatencyBounds == Bounds(LatencyBuckets)

Types ==
    [decisions |-> "counter", denialReasons |-> "counter", upstreamFailures |-> "counter",
     guardHealthy |-> "gauge", authOk |-> "gauge", gasEstimate |-> "gauge",
     latency |-> "histogram", invariantMargin |-> "gauge"]

Fresh == [n \in DOMAIN Types |-> [type |-> Types[n], series |-> NoSeries]]

Outcomes == {"permitted", "refused"}

Count(m, name, labels) == [m EXCEPT ![name].series = Inc(@, labels)]
Put(m, name, labels, value) == [m EXCEPT ![name].series = SetGauge(@, labels, value)]
Timed(m, outcome, seconds) ==
    [m EXCEPT !.latency.series = Observe(LatencyBounds, @, [outcome |-> outcome], seconds)]

\* Slip: the margin is measured from the observed value down to the bound.
DeniedInverted(m, a) ==
    CASE a.reason = "invariant" ->
           Put(Count(m, "denialReasons", [code |-> "INVARIANT_BROKEN", index |-> 0]),
               "invariantMargin", [index |-> 0], 0 - a.margin)
      [] a.reason = "preflight" -> Count(m, "denialReasons", [code |-> "PREFLIGHT_REJECTED"])
      [] OTHER -> Count(m, "denialReasons", [code |-> "SIMULATION_REVERTED"])

\* A refusal is the guard's when its reason carries the INV payload, whose
\* index is 0: the collector sends one invariant.
Denied(m, a) ==
    CASE a.reason = "invariant" ->
           Put(Count(m, "denialReasons", [code |-> "INVARIANT_BROKEN", index |-> 0]),
               "invariantMargin", [index |-> 0], a.margin)
      [] a.reason = "preflight" -> Count(m, "denialReasons", [code |-> "PREFLIGHT_REJECTED"])
      [] OTHER -> Count(m, "denialReasons", [code |-> "SIMULATION_REVERTED"])

\* Slip: an answer that is not JSON throws after its latency was observed.
AfterSimulationStrict(m, outcome, a, seconds) ==
    LET timed == Timed(m, outcome, seconds)
        failed == Count(timed, "upstreamFailures", [kind |-> "network"]) IN
    CASE a.reason = "threw" -> failed
      [] a.reason = "noVerdict" -> Timed(failed, outcome, seconds)
      [] a.reason = "passes" ->
           Put(Count(timed, "decisions", [verdict |-> "ALLOW", outcome |-> outcome]),
               "gasEstimate", [outcome |-> outcome], 1)
      [] OTHER -> Denied(Count(timed, "decisions", [verdict |-> "DENY", outcome |-> outcome]), a)

\* simulate, once its fetch has ended: whatever answered without wouldRevert
\* counts as ALLOW, an error page included.  The fetch has no signal, so nothing
\* it throws is a TimeoutError: every failure is one of the network.
AfterSimulation(m, outcome, a, seconds) ==
    LET timed == Timed(m, outcome, seconds) IN
    CASE a.reason = "threw" -> Count(timed, "upstreamFailures", [kind |-> "network"])
      [] a.reason = "noVerdict" ->
           Count(timed, "decisions", [verdict |-> "ALLOW", outcome |-> outcome])
      [] a.reason = "passes" ->
           Put(Count(timed, "decisions", [verdict |-> "ALLOW", outcome |-> outcome]),
               "gasEstimate", [outcome |-> outcome], 1)
      [] OTHER -> Denied(Count(timed, "decisions", [verdict |-> "DENY", outcome |-> outcome]), a)

\* After both simulations: the gauge asks for one of each verdict.
Judged(m) ==
    LET Of(verdict, outcome) ==
            Value(m.decisions.series, [verdict |-> verdict, outcome |-> outcome]) IN
    Put(m, "guardHealthy", NoLabels,
        IF Of("ALLOW", "permitted") > 0 /\ Of("DENY", "refused") > 0 THEN 1 ELSE 0)

\* The authentication check; only a 401 and a failed fetch are failures.
AfterAuth(m, a) ==
    LET set == Put(m, "authOk", NoLabels, IF a = "found" THEN 1 ELSE 0) IN
    CASE a = "unauthorized" -> Count(set, "upstreamFailures", [kind |-> "unauthorized"])
      [] a = "threw" -> Count(set, "upstreamFailures", [kind |-> "network"])
      [] OTHER -> set
=============================================================================
