----------------------------- MODULE At5Results -----------------------------
(***************************************************************************)
(* The cases and policies of the AT-5 demonstration, the trace the program *)
(* writes for each pair (Backpressure), and what the script computes from  *)
(* a trace.  Times are in thousandths of a nanosecond, as printed; ratios  *)
(* and scores, for which the script uses floating point, in                *)
(* ten-thousandths.                                                        *)
(***************************************************************************)
EXTENDS Backpressure, TLC

POLICIES == <<"round_robin", "strict_priority", "weighted_priority", "throttled_dma",
              "backpressure_aware">>

(* The rate only matters as the latency it limits to.                      *)
CaseConfig(name, policy, ingress, downstream, latency, rate, targets) ==
  [case_name |-> name, primary_policy |-> policy, ingress_queue_capacity |-> ingress,
   downstream_queue_capacity |-> downstream, memory_service_latency |-> Tick(10 * latency),
   service_rate |-> rate, rate_limited_latency |-> Tick(10000) \div rate,
   num_transactions |-> 36, sla_target |-> [i \in Initiators |-> 1000 * targets[i + 1]]]

CASES ==
  << CaseConfig("baseline_balanced_rr", "round_robin", 10, 8, 24, 60, <<160, 900, 520>>),
     CaseConfig("strict_priority_helps_cpu", "strict_priority", 8, 6, 26, 42,
                <<490, 980, 620>>),
     CaseConfig("strict_priority_starves_dma", "strict_priority", 8, 5, 18, 58,
                <<420, 1050, 720>>),
     CaseConfig("downstream_saturation_qos_collapse", "strict_priority", 12, 3, 118, 7,
                <<320, 1350, 900>>),
     CaseConfig("small_queue_backpressure", "backpressure_aware", 2, 2, 18, 60,
                <<180, 820, 520>>),
     CaseConfig("throttled_dma_recovers_sla", "throttled_dma", 8, 5, 16, 70,
                <<200, 1100, 700>>),
     CaseConfig("bursty_accel_tail_spike", "weighted_priority", 8, 6, 16, 70,
                <<520, 1050, 520>>) >>

Runs == (DOMAIN CASES) \X (DOMAIN POLICIES)
IsPrimary(c, p) == POLICIES[p] = CASES[c].primary_policy

-----------------------------------------------------------------------------
(* run_backpressure_model: what Process returns for each record.           *)
run_backpressure_model(o) ==
  FoldLeft(LAMBDA done, record :
             Append(done, Process(o, IF done = <<>> THEN Idle ELSE Last(done).server, record)),
           <<>>, make_initial_records(o))

(* write_trace of the program: a row for each record.                      *)
TraceRow(o, policy, r) ==
  LET ns(time) == (time + 5) \div 10
      total == ns(r.end_resp - r.begin_req)
      i     == r.txn[1]
  IN  [case_name |-> o.case_name, policy |-> policy, initiator |-> i,
       begin_req |-> ns(r.begin_req), arbiter_accept |-> ns(r.ingress_enqueue),
       downstream_enqueue |-> ns(r.downstream_enqueue),
       service_begin |-> ns(r.service_begin), service_end |-> ns(r.service_end),
       end_resp |-> ns(r.end_resp), total_latency |-> total,
       sla_violation |-> r.end_resp - r.begin_req > 10 * o.sla_target[i],
       queue_full |-> r.ingress_full \/ r.downstream_full,
       stall |-> ns(r.stall), service_time |-> ns(r.observed_service_time)]

TraceRows(o, done) == [k \in DOMAIN done |-> TraceRow(o, o.policy, done[k].record)]
TraceOf(o) == TraceRows(o, run_backpressure_model(o))
Trace == [run \in Runs |-> TraceOf(CASES[run[1]] @@ [policy |-> POLICIES[run[2]]])]

percentile(values, pct) ==
  LET rank == (pct * Len(values) + 99) \div 100
  IN  IF values = <<>> THEN 0
      ELSE SortSeq(values, <)[Max({1, Min({rank, Len(values)})})]

Column(rows, field) == [k \in DOMAIN rows |-> rows[k][field]]
Of(rows, initiator) == SelectSeq(rows, LAMBDA row : row.initiator = initiator)
Total(rows, field) == SumFunction(Column(rows, field))
Count(rows, field) == Len(SelectSeq(rows, LAMBDA row : row[field]))
ratio(numerator, denominator) ==
  IF denominator <= 0 THEN 0 ELSE (10000 * numerator) \div denominator
clamp(value) == Max({0, Min({value, 10000})})

(* Mutant: a request may not be served at the time it enters the queue.    *)
validate_trace_Strict(config, policy, rows) ==
  /\ Len(rows) = 3 * config.num_transactions
  /\ \A k \in DOMAIN rows :
       LET row == rows[k]
       IN  /\ row.case_name = config.case_name /\ row.policy = policy
           /\ row.begin_req <= row.arbiter_accept
           /\ row.arbiter_accept <= row.downstream_enqueue
           /\ row.downstream_enqueue < row.service_begin
           /\ row.service_begin <= row.service_end /\ row.service_end <= row.end_resp
           /\ (row.end_resp - row.begin_req) - row.total_latency \in -2..2
  /\ \A i \in Initiators : Len(Of(rows, i)) = config.num_transactions

validate_trace(config, policy, rows) ==
  /\ Len(rows) = 3 * config.num_transactions
  /\ \A k \in DOMAIN rows :
       LET row == rows[k]
       IN  /\ row.case_name = config.case_name /\ row.policy = policy
           /\ row.begin_req <= row.arbiter_accept
           /\ row.arbiter_accept <= row.downstream_enqueue
           /\ row.downstream_enqueue <= row.service_begin
           /\ row.service_begin <= row.service_end /\ row.service_end <= row.end_resp
           /\ (row.end_resp - row.begin_req) - row.total_latency \in -2..2
  /\ \A i \in Initiators : Len(Of(rows, i)) = config.num_transactions

(* From the first request to the last response, in tenths of a nanosecond. *)
Duration(rows) ==
  (Max(ToSet(Column(rows, "end_resp"))) - Min(ToSet(Column(rows, "begin_req")))) \div 100

throughput(rows) == (Len(rows) * 1000000) \div Duration(rows)   \* a hundredth of a txn/us
service_utilization(rows) == clamp(ratio(Total(rows, "service_time") \div 100, Duration(rows)))
offered_rate(rows) ==
  LET begins == ToSet(Column(rows, "begin_req"))
  IN  (Len(rows) * 1000000) \div ((Max(begins) - Min(begins)) \div 100)
saturation_ratio(rows, config) ==
  Min({20000, (100 * offered_rate(rows)) \div config.service_rate})

(* Each throughput is taken relative to the greatest, which cancels out.   *)
fairness_index(rows) ==
  LET duration == [i \in Initiators |-> Duration(Of(rows, i))]
      shortest == Min({duration[i] : i \in Initiators})
      share    == [i \in Initiators |-> ratio(shortest, duration[i])]
      sum      == share[0] + share[1] + share[2]
      squares  == share[0] * share[0] + share[1] * share[1] + share[2] * share[2]
  IN  clamp((sum * sum) \div ((3 * squares) \div 10000))

ViolationRatio(rows) == ratio(Count(rows, "sla_violation"), Len(rows))

dominant_bottleneck(rows, config) ==
  LET util == service_utilization(rows)
      cpu_vio == ViolationRatio(Of(rows, 0))
      accel_p99 == percentile(Column(Of(rows, 2), "total_latency"), 99)
  IN  IF config.case_name = "bursty_accel_tail_spike" /\ accel_p99 > config.sla_target[2]
        THEN "accel_burst_tail_spike"
      ELSE IF util >= 9200 /\ saturation_ratio(rows, config) >= 9500 /\ cpu_vio > 1000
        THEN "downstream_service_saturation"
      ELSE IF 10 * Count(rows, "queue_full") >= Len(rows) /\ util < 9200
        THEN "queue_capacity_backpressure"
      ELSE IF fairness_index(rows) < 7200 THEN "qos_fairness_starvation"
      ELSE IF cpu_vio > 2000 THEN "qos_policy_limit"
      ELSE "balanced_or_low_pressure"

(* The weights are hundredths; the score is rounded to the three decimals  *)
(* it is written with, and read back by best_policy.                       *)
collapse_score(rows, config) ==
  LET stall == Total(rows, "stall") \div (Total(rows, "total_latency") \div 10000)
      saturation == clamp(((service_utilization(rows) - 7200) * 100) \div 28)
      accel_vio == IF config.case_name = "bursty_accel_tail_spike"
                     THEN ViolationRatio(Of(rows, 2)) ELSE 0
  IN  (clamp((34 * ViolationRatio(Of(rows, 0)) + 22 * saturation
                + 18 * ratio(Count(rows, "queue_full"), Len(rows))
                + 14 * (10000 - fairness_index(rows)) + 8 * clamp(stall)
                + 4 * accel_vio) \div 100) + 5) \div 10

SummaryRow(config, policy, initiator, rows) ==
  [case_name |-> config.case_name, initiator |-> initiator, policy |-> policy,
   transactions |-> Len(rows), sla_violation_ratio |-> ViolationRatio(rows),
   p50 |-> percentile(Column(rows, "total_latency"), 50),
   p95 |-> percentile(Column(rows, "total_latency"), 95),
   p99 |-> percentile(Column(rows, "total_latency"), 99),
   queue_full_events |-> Count(rows, "queue_full"), stall |-> Total(rows, "stall")]

summarize_case(config, policy, rows) ==
  <<SummaryRow(config, policy, 0, Of(rows, 0)), SummaryRow(config, policy, 1, Of(rows, 1)),
    SummaryRow(config, policy, 2, Of(rows, 2))>>

policy_action(config, row) ==
  LET queued == row.queue_full_events > 0 /\ row.service_utilization < 9200
      calm   == row.cpu_rt_sla_violation_ratio <= 2000
  IN  CASE row.dominant_bottleneck = "downstream_service_saturation" ->
             "reduce_memory_service_latency"
        [] OTHER ->
           IF config.case_name = "bursty_accel_tail_spike" THEN "shape_accel_bursts"
           ELSE IF queued /\ row.policy = "backpressure_aware"
             THEN "increase_downstream_queue_capacity"
           ELSE IF queued THEN "use_backpressure_aware_scheduling"
           ELSE IF row.policy = "strict_priority" /\ calm /\ row.fairness_index >= 7500
             THEN "use_strict_priority"
           ELSE IF row.policy = "strict_priority" /\ row.fairness_index < 7500
             THEN "use_weighted_priority"
           ELSE IF row.policy = "throttled_dma" /\ calm THEN "throttle_dma_bulk"
           ELSE IF row.policy = "weighted_priority" /\ row.fairness_index >= 7800
             THEN "use_weighted_priority"
           ELSE "no_single_dominant_action"

aggregate_policy_row(config, policy, rows) ==
  LET row == [case_name |-> config.case_name, policy |-> policy,
              cpu_rt_p95 |-> percentile(Column(Of(rows, 0), "total_latency"), 95),
              cpu_rt_sla_violation_ratio |-> ViolationRatio(Of(rows, 0)),
              dma_bulk_throughput |-> throughput(Of(rows, 1)),
              service_utilization |-> service_utilization(rows),
              queue_full_events |-> Count(rows, "queue_full"),
              fairness_index |-> fairness_index(rows),
              collapse_score |-> collapse_score(rows, config),
              dominant_bottleneck |-> dominant_bottleneck(rows, config)]
  IN  row @@ [recommended_action |-> policy_action(config, row)]

(* The first of the rows with the least score.                             *)
best_policy(rows) ==
  LET better(a, b) ==
        \/ a.collapse_score < b.collapse_score
        \/ /\ a.collapse_score = b.collapse_score
           /\ \/ a.cpu_rt_sla_violation_ratio < b.cpu_rt_sla_violation_ratio
              \/ /\ a.cpu_rt_sla_violation_ratio = b.cpu_rt_sla_violation_ratio
                 /\ a.cpu_rt_p95 < b.cpu_rt_p95
  IN  rows[CHOOSE k \in DOMAIN rows :
             /\ \A l \in DOMAIN rows : ~better(rows[l], rows[k])
             /\ \A l \in 1..(k - 1) : better(rows[k], rows[l])]

Recommend(bottleneck, action, best) ==
  [primary_bottleneck |-> bottleneck, recommended_action |-> action,
   qos_policy_best |-> best]

make_recommendation(config, rows) ==
  LET of(policy) == rows[CHOOSE k \in DOMAIN rows : rows[k].policy = policy]
      best   == best_policy(rows)
      rr     == of("round_robin")
      strict == of("strict_priority")
      queued == \E k \in DOMAIN rows : rows[k].queue_full_events > 0
      violated == \A k \in DOMAIN rows : rows[k].cpu_rt_sla_violation_ratio > 0
  IN  [case_name |-> config.case_name] @@
      IF /\ config.case_name = "strict_priority_helps_cpu"
         /\ rr.cpu_rt_p95 - strict.cpu_rt_p95 > 5000
        THEN Recommend("latency_sensitive_qos_contention", "use_strict_priority",
                       "strict_priority")
      ELSE IF /\ config.case_name = "strict_priority_starves_dma"
              /\ rr.dma_bulk_throughput > strict.dma_bulk_throughput
        THEN Recommend("strict_priority_starvation", "use_weighted_priority",
                       "weighted_priority")
      ELSE IF config.case_name = "downstream_saturation_qos_collapse" /\ violated
        THEN Recommend("downstream_service_saturation", "reduce_memory_service_latency", best)
      ELSE IF config.case_name = "small_queue_backpressure" /\ queued
        THEN Recommend("bounded_queue_backpressure",
                       IF of("backpressure_aware").queue_full_events < rr.queue_full_events
                         THEN "use_backpressure_aware_scheduling"
                         ELSE "increase_downstream_queue_capacity", "backpressure_aware")
      ELSE IF /\ config.case_name = "throttled_dma_recovers_sla"
              /\ of("throttled_dma").cpu_rt_sla_violation_ratio
                   <= rr.cpu_rt_sla_violation_ratio
        THEN Recommend("dma_bulk_induced_backpressure", "throttle_dma_bulk", "throttled_dma")
      ELSE IF config.case_name = "bursty_accel_tail_spike"
        THEN Recommend("accel_burst_tail_spike", "shape_accel_bursts", best)
      ELSE IF config.case_name = "baseline_balanced_rr"
        THEN Recommend("balanced_or_low_pressure", "no_single_dominant_action", "round_robin")
      ELSE Recommend(of(best).dominant_bottleneck, of(best).recommended_action, best)

(* What the loop of main computes from the trace of a run.                 *)
AnalysisOf(run, complete, config, policy, rows) ==
  [run |-> run, complete |-> complete, valid |-> validate_trace(config, policy, rows),
   policy_row |-> aggregate_policy_row(config, policy, rows),
   summary_rows |-> summarize_case(config, policy, rows)]
Readable(rows, complete) == IF complete THEN rows ELSE Front(rows)
Analysis ==
  {AnalysisOf(run, complete, CASES[run[1]], POLICIES[run[2]], Readable(Trace[run], complete)) :
     run \in Runs, complete \in BOOLEAN}
=============================================================================
