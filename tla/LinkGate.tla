------------------------------ MODULE LinkGate ------------------------------
(***************************************************************************)
(* The communication gate: the analytical link model and the ordered       *)
(* predicates of netlab/link.py, the link service that answers the packet  *)
(* runtime with them, and the gate the packet runtime applies to that      *)
(* answer.  Powers and margins are whole decibels, distances whole metres; *)
(* what propagation does with a distance is the constant function RxPower. *)
(***************************************************************************)
EXTENDS Integers, FiniteSets

CONSTANTS
  RxPower,       \* received power, in dBm, at each distance
  ThermalNoise   \* noise power of the receiver's bandwidth and noise figure

Distances == DOMAIN RxPower

ASSUME LinkGateAssumption ==
  /\ Distances \subseteq Nat
  /\ RxPower \in [Distances -> Int]
  /\ ThermalNoise \in Int

AnalyticalModels ==
  {"free_space", "sionna_analytical", "analytical_fspl", "log_distance",
   "stochastic_shadowing", "probabilistic_air_to_ground"}

\* Shannon capacity grows with the SINR; one unit per decibel above zero.
Capacity(sinr) == IF sinr < 0 THEN 0 ELSE sinr

\* What compute_analytical_link returns for an implemented model.
AnalyticalLink(distance, interference) ==
  LET snr == RxPower[distance] - ThermalNoise
  IN [distance |-> distance, snr |-> snr, sinr |-> snr - interference,
      capacity |-> Capacity(snr - interference), fresh |-> TRUE]

\* The answer when there is no metric to evaluate.
NoMetrics == [distance |-> 0, snr |-> 0, sinr |-> 0, capacity |-> 0, fresh |-> FALSE]

(***************************************************************************)
(* evaluate_feasibility returns at the first predicate that fails.  ends   *)
(* says which endpoints are active and which have failed, limits holds the *)
(* thresholds of the experiment.                                           *)
(***************************************************************************)
FirstFailing(checks) ==
  LET failing == {i \in DOMAIN checks : ~checks[i][2]}
  IN IF failing = {} THEN "FEASIBLE"
                     ELSE checks[CHOOSE i \in failing : \A j \in failing : i <= j][1]

EvaluateFeasibility(metrics, available, ends, limits) ==
  FirstFailing(<< <<"SOURCE_INACTIVE", ends.srcActive>>,
                  <<"DESTINATION_INACTIVE", ends.dstActive>>,
                  <<"SOURCE_FAILED", ~ends.srcFailed>>,
                  <<"DESTINATION_FAILED", ~ends.dstFailed>>,
                  <<"LINK_SERVICE_UNAVAILABLE", available>>,
                  <<"STALE_LINK_METRIC", metrics.fresh>>,
                  <<"HARD_OUTAGE_DISTANCE", metrics.distance < limits.hardOutage>>,
                  <<"OUT_OF_RANGE", metrics.distance <= limits.range>>,
                  <<"SNR_BELOW_THRESHOLD", metrics.snr >= limits.snr>>,
                  <<"SINR_BELOW_THRESHOLD", metrics.sinr >= limits.snr>>,
                  <<"CAPACITY_BELOW_THRESHOLD", metrics.capacity >= limits.capacity>> >>)

AllUp == [srcActive |-> TRUE, dstActive |-> TRUE, srcFailed |-> FALSE, dstFailed |-> FALSE]

(***************************************************************************)
(* The link service (evaluate_one).  sionna_rt has no scene adapter: it is *)
(* refused, or replaced by the fallback model when the request allows it.  *)
(* An explicit noise floor replaces the thermal noise in the metrics that  *)
(* are reported; the gate is evaluated on the metrics before that.         *)
(***************************************************************************)
ServedModel(request) ==
  IF request.model = "sionna_rt" THEN request.fallbackModel ELSE request.model

NotServed(request) == request.model = "sionna_rt" /\ ~request.allowFallback

MetricPayload(metrics, request) ==
  LET snr == RxPower[metrics.distance] - request.noiseFloor
      sinr == snr - request.interference
  IN [metrics EXCEPT !.snr = snr, !.sinr = sinr, !.capacity = Capacity(sinr)]

EvaluateOne(request) ==
  IF NotServed(request) \/ ServedModel(request) \notin AnalyticalModels
  THEN [ok |-> FALSE, metrics |-> NoMetrics, reason |-> "NONE", served |-> "NONE"]
  ELSE LET metrics == AnalyticalLink(request.distance, request.interference)
       IN [ok |-> TRUE,
           metrics |-> MetricPayload(metrics, request),
           reason |-> EvaluateFeasibility(metrics, TRUE, request.ends, request.limits),
           served |-> ServedModel(request)]

(***************************************************************************)
(* The packet runtime (_query_sionna, _gate_reason).  Beyond the single    *)
(* hop range it takes a penalty off the SNR it keeps.  A reason that came  *)
(* with the answer is taken as it is; without an answer the runtime marks  *)
(* the hop sionna_unreachable.                                             *)
(***************************************************************************)
QuerySionna(response, limits) ==
  LET metrics == response.metrics
      excess == metrics.distance - limits.range
      snr == metrics.snr - excess * limits.penalty
  IN IF metrics.distance > limits.range
     THEN [metrics EXCEPT !.snr = snr, !.capacity = Capacity(snr)]
     ELSE metrics

\* Mutant of LocalGateReason: interference is forgotten.
LocalGateWithoutSinr(metrics, limits) ==
  FirstFailing(<< <<"HARD_OUTAGE_DISTANCE", metrics.distance <= limits.hardOutage>>,
                  <<"OUT_OF_RANGE", metrics.distance <= limits.range \/ limits.degraded>>,
                  <<"SNR_BELOW_THRESHOLD", metrics.snr >= limits.snr>> >>)

LocalGateReason(metrics, limits) ==
  FirstFailing(<< <<"HARD_OUTAGE_DISTANCE", metrics.distance <= limits.hardOutage>>,
                  <<"OUT_OF_RANGE", metrics.distance <= limits.range \/ limits.degraded>>,
                  <<"SINR_BELOW_THRESHOLD", metrics.sinr >= limits.snr>>,
                  <<"SNR_BELOW_THRESHOLD", metrics.snr >= limits.snr>>,
                  <<"CAPACITY_BELOW_THRESHOLD", metrics.capacity >= limits.capacity>> >>)

GateReason(answered, metrics, reason, limits) ==
  IF ~answered THEN "LINK_SERVICE_UNAVAILABLE"
  ELSE IF reason \notin {"UNKNOWN", "NONE"} THEN reason
  ELSE LocalGateReason(metrics, limits)

-----------------------------------------------------------------------------
\* The service and the packet runtime would give the same verdict on an answer.
SameVerdict(request, answer) ==
  answer.reason = "FEASIBLE" <=>
    LocalGateReason(QuerySionna(answer, request.limits), request.limits) = "FEASIBLE"
=============================================================================
