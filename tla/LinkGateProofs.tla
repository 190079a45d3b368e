--------------------------- MODULE LinkGateProofs ---------------------------
(***************************************************************************)
(* What the ordered predicates of the communication gate decide, and that  *)
(* the two gates of the system agree, for any propagation model, limits    *)
(* and distance.                                                           *)
(***************************************************************************)
EXTENDS LinkGate, WellFoundedInduction, TLAPS

LEMMA DistanceType == \A d \in Distances : d \in Int
  BY LinkGateAssumption

LEMMA PowerType == ThermalNoise \in Int /\ \A d \in Distances : RxPower[d] \in Int
  BY LinkGateAssumption

LEMMA LeastIndexExists ==
  ASSUME NEW S \in SUBSET Nat, S # {}
  PROVE  \E i \in S : \A j \in S : i <= j
<1>1. \E i \in S : \A j \in S : <<j, i>> \notin OpToRel(<, Nat)
  BY WFMin, NatLessThanWellFounded
<1>2. \A i, j \in S : <<j, i>> \notin OpToRel(<, Nat) => i <= j
  BY DEF OpToRel
<1>. QED
  BY <1>1, <1>2

\* The first predicate that fails is found and named; none fails exactly when the
\* hop is feasible.
LEMMA FeasibleMeansAllPass ==
  ASSUME NEW n \in Nat, NEW checks, DOMAIN checks = 1..n,
         \A i \in 1..n : checks[i][1] # "FEASIBLE"
  PROVE  FirstFailing(checks) = "FEASIBLE" <=> \A i \in 1..n : checks[i][2]
<1>. DEFINE failing == {i \in DOMAIN checks : ~checks[i][2]}
            first == CHOOSE i \in failing : \A j \in failing : i <= j
<1>1. CASE failing = {}
  BY <1>1 DEF FirstFailing
<1>2. CASE failing # {}
  <2>1. failing \in SUBSET Nat
    OBVIOUS
  <2>2. \E i \in failing : \A j \in failing : i <= j
    BY <1>2, <2>1, LeastIndexExists
  <2>3. first \in failing
    BY <2>2
  <2>4. FirstFailing(checks) = checks[first][1]
    BY <1>2 DEF FirstFailing
  <2>. HIDE DEF first
  <2>. QED
    BY <2>3, <2>4
<1>. QED
  BY <1>1, <1>2

\* evaluate_feasibility calls a hop feasible exactly when every predicate holds.
LEMMA FeasibilityMeaning ==
  ASSUME NEW metrics, NEW available, NEW ends, NEW limits
  PROVE  EvaluateFeasibility(metrics, available, ends, limits) = "FEASIBLE" <=>
           /\ ends.srcActive /\ ends.dstActive /\ ~ends.srcFailed /\ ~ends.dstFailed
           /\ available /\ metrics.fresh
           /\ metrics.distance < limits.hardOutage /\ metrics.distance <= limits.range
           /\ metrics.snr >= limits.snr /\ metrics.sinr >= limits.snr
           /\ metrics.capacity >= limits.capacity
<1>. DEFINE checks ==
               << <<"SOURCE_INACTIVE", ends.srcActive>>,
                  <<"DESTINATION_INACTIVE", ends.dstActive>>,
                  <<"SOURCE_FAILED", ~ends.srcFailed>>,
                  <<"DESTINATION_FAILED", ~ends.dstFailed>>,
                  <<"LINK_SERVICE_UNAVAILABLE", available>>,
                  <<"STALE_LINK_METRIC", metrics.fresh>>,
                  <<"HARD_OUTAGE_DISTANCE", metrics.distance < limits.hardOutage>>,
                  <<"OUT_OF_RANGE", metrics.distance <= limits.range>>,
                  <<"SNR_BELOW_THRESHOLD", metrics.snr >= limits.snr>>,
                  <<"SINR_BELOW_THRESHOLD", metrics.sinr >= limits.snr>>,
                  <<"CAPACITY_BELOW_THRESHOLD", metrics.capacity >= limits.capacity>> >>
<1>1. EvaluateFeasibility(metrics, available, ends, limits) = FirstFailing(checks)
  BY DEF EvaluateFeasibility
<1>2. DOMAIN checks = 1..11
  OBVIOUS
<1>3. \A i \in 1..11 : checks[i][1] # "FEASIBLE"
  OBVIOUS
<1>4. FirstFailing(checks) = "FEASIBLE" <=> \A i \in 1..11 : checks[i][2]
  <2>. HIDE DEF checks
  <2>. QED
    BY <1>2, <1>3, FeasibleMeansAllPass
<1>5. (\A i \in 1..11 : checks[i][2]) <=>
        /\ checks[1][2] /\ checks[2][2] /\ checks[3][2] /\ checks[4][2]
        /\ checks[5][2] /\ checks[6][2] /\ checks[7][2] /\ checks[8][2]
        /\ checks[9][2] /\ checks[10][2] /\ checks[11][2]
  <2>. HIDE DEF checks
  <2>. QED
    OBVIOUS
<1>6. /\ checks[1][2] = ends.srcActive /\ checks[2][2] = ends.dstActive
      /\ checks[3][2] = ~ends.srcFailed /\ checks[4][2] = ~ends.dstFailed
      /\ checks[5][2] = available /\ checks[6][2] = metrics.fresh
      /\ checks[7][2] = (metrics.distance < limits.hardOutage)
      /\ checks[8][2] = (metrics.distance <= limits.range)
      /\ checks[9][2] = (metrics.snr >= limits.snr)
      /\ checks[10][2] = (metrics.sinr >= limits.snr)
      /\ checks[11][2] = (metrics.capacity >= limits.capacity)
  OBVIOUS
<1>. HIDE DEF checks
<1>. QED
  BY <1>1, <1>4, <1>5, <1>6

\* _gate_reason, without an answer's own reason, passes exactly these hops.
LEMMA LocalGateMeaning ==
  ASSUME NEW metrics, NEW limits
  PROVE  LocalGateReason(metrics, limits) = "FEASIBLE" <=>
           /\ metrics.distance <= limits.hardOutage
           /\ metrics.distance <= limits.range \/ limits.degraded
           /\ metrics.sinr >= limits.snr /\ metrics.snr >= limits.snr
           /\ metrics.capacity >= limits.capacity
<1>. DEFINE checks ==
               << <<"HARD_OUTAGE_DISTANCE", metrics.distance <= limits.hardOutage>>,
                  <<"OUT_OF_RANGE", metrics.distance <= limits.range \/ limits.degraded>>,
                  <<"SINR_BELOW_THRESHOLD", metrics.sinr >= limits.snr>>,
                  <<"SNR_BELOW_THRESHOLD", metrics.snr >= limits.snr>>,
                  <<"CAPACITY_BELOW_THRESHOLD", metrics.capacity >= limits.capacity>> >>
<1>1. LocalGateReason(metrics, limits) = FirstFailing(checks)
  BY DEF LocalGateReason
<1>2. DOMAIN checks = 1..5 /\ \A i \in 1..5 : checks[i][1] # "FEASIBLE"
  OBVIOUS
<1>3. FirstFailing(checks) = "FEASIBLE" <=> \A i \in 1..5 : checks[i][2]
  <2>. HIDE DEF checks
  <2>. QED
    BY <1>2, FeasibleMeansAllPass
<1>4. (\A i \in 1..5 : checks[i][2]) <=>
        checks[1][2] /\ checks[2][2] /\ checks[3][2] /\ checks[4][2] /\ checks[5][2]
  <2>. HIDE DEF checks
  <2>. QED
    OBVIOUS
<1>5. /\ checks[1][2] = (metrics.distance <= limits.hardOutage)
      /\ checks[2][2] = (metrics.distance <= limits.range \/ limits.degraded)
      /\ checks[3][2] = (metrics.sinr >= limits.snr)
      /\ checks[4][2] = (metrics.snr >= limits.snr)
      /\ checks[5][2] = (metrics.capacity >= limits.capacity)
  OBVIOUS
<1>. HIDE DEF checks
<1>. QED
  BY <1>1, <1>3, <1>4, <1>5

\* What the link service is asked about a hop whose ends are up, with the noise of
\* the receiver and limits that allow no degraded link beyond the range.
PlainRequests ==
  [model : STRING, fallbackModel : STRING, allowFallback : BOOLEAN, distance : Distances,
   interference : Int, noiseFloor : {ThermalNoise}, ends : {AllUp},
   limits : [range : Int, hardOutage : Int, snr : Int, capacity : Int,
             degraded : {FALSE}, penalty : Int]]

\* The gate the packet runtime would apply itself (_gate_reason after the penalty of
\* _query_sionna) agrees with the verdict of the link service (evaluate_one), for any
\* propagation, model, limits and distance but exactly the hard outage distance, where
\* the service refuses and the runtime does not.
THEOREM GatesAgreeOnPlainRequests ==
  ASSUME NEW request \in PlainRequests, EvaluateOne(request).ok,
         request.distance # request.limits.hardOutage
  PROVE  SameVerdict(request, EvaluateOne(request))
<1>. DEFINE limits == request.limits
            metrics == AnalyticalLink(request.distance, request.interference)
            answer == EvaluateOne(request)
<1>1. /\ request.distance \in Int /\ RxPower[request.distance] \in Int
      /\ request.interference \in Int /\ ThermalNoise \in Int
      /\ request.noiseFloor = ThermalNoise /\ request.ends = AllUp
      /\ limits.range \in Int /\ limits.hardOutage \in Int /\ limits.snr \in Int
      /\ limits.capacity \in Int /\ limits.degraded = FALSE
  <2>1. /\ request.distance \in Distances /\ request.interference \in Int
        /\ request.noiseFloor \in {ThermalNoise} /\ request.ends \in {AllUp}
        /\ limits \in [range : Int, hardOutage : Int, snr : Int, capacity : Int,
                       degraded : {FALSE}, penalty : Int]
    BY DEF PlainRequests
  <2>2. /\ limits.range \in Int /\ limits.hardOutage \in Int /\ limits.snr \in Int
        /\ limits.capacity \in Int /\ limits.degraded \in {FALSE}
    BY <2>1
  <2>3. request.distance \in Int /\ RxPower[request.distance] \in Int /\ ThermalNoise \in Int
    BY <2>1, DistanceType, PowerType
  <2>. QED
    BY <2>1, <2>2, <2>3
<1>2. /\ metrics.distance = request.distance /\ metrics.fresh
      /\ metrics.snr = RxPower[request.distance] - ThermalNoise
      /\ metrics.sinr = metrics.snr - request.interference
      /\ metrics.capacity = Capacity(metrics.sinr)
  BY DEF AnalyticalLink
<1>3. /\ answer.metrics = MetricPayload(metrics, request)
      /\ answer.reason = EvaluateFeasibility(metrics, TRUE, request.ends, request.limits)
  BY DEF EvaluateOne
<1>4. MetricPayload(metrics, request) = metrics
  <2>1. MetricPayload(metrics, request) =
          [metrics EXCEPT !.snr = metrics.snr, !.sinr = metrics.sinr, !.capacity = metrics.capacity]
    BY <1>1, <1>2 DEF MetricPayload
  <2>. QED
    BY <2>1 DEF AnalyticalLink
<1>5. answer.reason = "FEASIBLE" <=>
        /\ metrics.distance < limits.hardOutage /\ metrics.distance <= limits.range
        /\ metrics.snr >= limits.snr /\ metrics.sinr >= limits.snr
        /\ metrics.capacity >= limits.capacity
  <2>1. AllUp.srcActive /\ AllUp.dstActive /\ ~AllUp.srcFailed /\ ~AllUp.dstFailed
    BY DEF AllUp
  <2>. HIDE DEF metrics, answer, limits
  <2>2. answer.reason = EvaluateFeasibility(metrics, TRUE, AllUp, limits)
    BY <1>1, <1>3 DEF limits
  <2>3. EvaluateFeasibility(metrics, TRUE, AllUp, limits) = "FEASIBLE" <=>
           /\ AllUp.srcActive /\ AllUp.dstActive /\ ~AllUp.srcFailed /\ ~AllUp.dstFailed
           /\ TRUE /\ metrics.fresh
           /\ metrics.distance < limits.hardOutage /\ metrics.distance <= limits.range
           /\ metrics.snr >= limits.snr /\ metrics.sinr >= limits.snr
           /\ metrics.capacity >= limits.capacity
    BY FeasibilityMeaning
  <2>. QED
    BY <1>2, <2>1, <2>2, <2>3
<1>6. CASE request.distance > limits.range
  <2>1. answer.reason # "FEASIBLE"
    BY <1>1, <1>2, <1>5, <1>6
  <2>2. QuerySionna(answer, limits).distance = request.distance
    BY <1>2, <1>3, <1>4 DEF QuerySionna, AnalyticalLink
  <2>3. LocalGateReason(QuerySionna(answer, limits), limits) # "FEASIBLE"
    <3>. HIDE DEF answer, limits
    <3>. QED
      BY <1>1, <1>6, <2>2, LocalGateMeaning
  <2>. QED
    BY <2>1, <2>3 DEF SameVerdict
<1>7. CASE ~(request.distance > limits.range)
  <2>1. QuerySionna(answer, limits) = metrics
    BY <1>2, <1>3, <1>4, <1>7 DEF QuerySionna
  <2>2. LocalGateReason(metrics, limits) = "FEASIBLE" <=>
          /\ metrics.distance <= limits.hardOutage
          /\ metrics.distance <= limits.range \/ limits.degraded
          /\ metrics.sinr >= limits.snr /\ metrics.snr >= limits.snr
          /\ metrics.capacity >= limits.capacity
    BY LocalGateMeaning
  <2>3. metrics.distance < limits.hardOutage <=> metrics.distance <= limits.hardOutage
    BY <1>1, <1>2
  <2>4. metrics.distance <= limits.range <=> metrics.distance <= limits.range \/ limits.degraded
    BY <1>1
  <2>. HIDE DEF metrics, answer, limits
  <2>5. answer.reason = "FEASIBLE" <=> LocalGateReason(QuerySionna(answer, limits), limits) = "FEASIBLE"
    BY <1>5, <2>1, <2>2, <2>3, <2>4
  <2>. QED
    BY <2>5 DEF SameVerdict, answer, limits
<1>. QED
  BY <1>6, <1>7
=============================================================================
