--------------------------- MODULE BottleneckRules ---------------------------
(***************************************************************************)
(* What Projects K and L compute: the synthetic traces, their features,    *)
(* the runs of ProjectE over mappings and bank counts, the attribution of  *)
(* each result to a bottleneck, and the action recommended for a workload. *)
(* Ratios are in ten-thousandths, NA is the script's None.                 *)
(***************************************************************************)
EXTENDS ProjectE, FiniteSets

None == "none"
NA   == -1

CORE_WORKLOADS == <<"streaming", "stride", "hot_bank">>
ALL_WORKLOADS  == CORE_WORKLOADS \o <<"tiled_gemm_like", "attention_like_blocked">>
BANK_COUNT_SWEEP == <<4, 8, 16>>
ADDRESS_MAPPING_SWEEP == <<"word_interleave", "cacheline_interleave", "row_interleave">>
DEFAULT_ADDRESS_MAPPING == "word_interleave"
FEATURE_BANK_COUNT == 4
CACHELINE_BYTES == 64

-----------------------------------------------------------------------------
(***************************************************************************)
(* The traces.                                                             *)
(***************************************************************************)
Request(phase, timestamp, address) ==
  [phase |-> phase, timestamp |-> timestamp, address |-> address]

hot_bank_timestamp(index) == (index \div 8) * 96 + (index % 8) * 2

tiled_gemm_like_requests ==
  [k \in 1..48 |->
     LET n == k - 1
     IN  CASE n < 16 -> Request("a_tile_read", 6 * n, 1048576 + 4 * n)
           [] n \in 16..31 -> Request("b_tile_read", 6 * n,
                                      2097152 + ((n - 16) % 4) * 64 + ((n - 16) \div 4) * 4)
           [] n \in 32..39 -> Request("c_tile_read", 6 * n, 3145728 + 4 * (n - 32))
           [] n > 39 -> Request("c_tile_write", 6 * n, 3145728 + 4 * (n - 40))]

(* One block of eight, read three times; the gap is shorter after the      *)
(* first time.                                                             *)
Repeated(phase, start, base) ==
  [k \in 1..24 |->
     LET n == k - 1
     IN  Request(phase, start + (IF n < 8 THEN 5 * n ELSE 40 + 2 * (n - 8)), base + 4 * (n % 8))]

attention_like_blocked_requests ==
  [k \in 1..8 |-> Request("q_block_read", 5 * (k - 1), 4194304 + 4 * (k - 1))]
    \o Repeated("k_block_repeated_read", 40, 5242880)
    \o Repeated("v_block_repeated_read", 112, 6291456)
    \o [k \in 1..8 |-> Request("output_write", 184 + 5 * (k - 1), 7340032 + 4 * (k - 1))]

workload_specs ==
  [streaming |-> [k \in 1..96 |-> Request("streaming_read", 80 * (k - 1), 4 * (k - 1))],
   stride |-> [k \in 1..96 |-> Request("stride_read", 16 * (k - 1), 8 * (k - 1))],
   hot_bank |-> [k \in 1..96 |->
                   Request("hot_bank_burst", hot_bank_timestamp(k - 1), 64 * (k - 1))],
   tiled_gemm_like |-> tiled_gemm_like_requests,
   attention_like_blocked |-> attention_like_blocked_requests]

Traces ==
  [workload \in ToSet(ALL_WORKLOADS) |->
     LET requests == workload_specs[workload]
     IN  [k \in DOMAIN requests |-> requests[k] @@ [txn_id |-> k]]]

-----------------------------------------------------------------------------
(***************************************************************************)
(* Features of a trace.                                                    *)
(***************************************************************************)
safe_ratio(numerator, denominator) ==
  IF denominator = 0 THEN NA ELSE Ratio(numerator, denominator)

Cachelines(requests) == [k \in DOMAIN requests |-> requests[k].address \div CACHELINE_BYTES]
Distinct(values) == Cardinality(ToSet(values))

(* log2 of n, in thousandths: the bits after the point come from repeated  *)
(* squaring.                                                               *)
Log2(n) ==
  LET whole == Max({b \in 0..7 : 2^b <= n})
      step(state, bit) ==
        LET square == (state.x * state.x) \div 16384
        IN  IF square >= 32768 THEN [x |-> square \div 2, bits |-> 2 * state.bits + 1]
                               ELSE [x |-> square, bits |-> 2 * state.bits]
      fraction == FoldLeft(step, [x |-> (16384 * n) \div (2^whole), bits |-> 0],
                           <<1, 2, 3, 4, 5, 6, 7, 8, 9, 10>>)
  IN  1000 * whole + (1000 * fraction.bits) \div 1024

(* Relative to the entropy of an even spread.                              *)
normalized_entropy(counts, buckets) ==
  LET total == Sum(counts)
      weighted == Sum([k \in DOMAIN counts |->
                         IF counts[k] = 0 THEN 0 ELSE counts[k] * Log2(counts[k])])
  IN  10 * ((1000 * (total * Log2(total) - weighted)) \div (total * Log2(buckets)))

phase_locality_score(requests) ==
  LET phases == SetToSeq({requests[k].phase : k \in DOMAIN requests})
      of(phase) == Cachelines(SelectSeq(requests, LAMBDA r : r.phase = phase))
      score(phase) == 10000 - Ratio(Distinct(of(phase)), Len(of(phase)))
  IN  Sum([k \in DOMAIN phases |-> score(phases[k])]) \div Len(phases)

(* In hundredths.                                                          *)
avg_reuse_distance(cachelines) ==
  LET earlier(k) == {j \in 1..(k - 1) : cachelines[j] = cachelines[k]}
      reused == SelectSeq([k \in DOMAIN cachelines |-> k], LAMBDA k : earlier(k) # {})
  IN  IF reused = <<>> THEN NA
      ELSE (100 * Sum([r \in DOMAIN reused |-> reused[r] - Max(earlier(reused[r]))]))
             \div Len(reused)

Deltas(values) == [k \in 1..(Len(values) - 1) |-> values[k + 1] - values[k]]

characterize_trace(requests) ==
  LET n          == Len(requests)
      cachelines == Cachelines(requests)
      strides    == Deltas(Values(requests, "address"))
      gaps       == Deltas(Values(requests, "timestamp"))
      bank(r)    == (r.address \div 4) % FEATURE_BANK_COUNT
      counts     == [b \in 1..FEATURE_BANK_COUNT |->
                       Len(SelectSeq(requests, LAMBDA r : bank(r) = b - 1))]
  IN  [reuse_ratio |-> Ratio(n - Distinct(cachelines), n),
       avg_reuse_distance |-> avg_reuse_distance(cachelines),
       phase_locality_score |-> phase_locality_score(requests),
       sequentiality_score |-> Ratio(Len(SelectSeq(strides, LAMBDA d : d = 4)), n - 1),
       burstiness_score |-> Max({0, Ratio(percentile(gaps, 95) - percentile(gaps, 50),
                                          percentile(gaps, 95))}),
       max_bank_share |-> Ratio(Max(ToSet(counts)), n),
       bank_entropy |-> normalized_entropy(counts, FEATURE_BANK_COUNT),
       bank_count_sensitivity_score |-> NA, mapping_sensitivity_score |-> NA]

(* Metrics of a run: the medians and sums come from the rows of the trace, *)
(* the rest from the summary.                                              *)
summarize_model_metrics(summary, rows) ==
  LET accepted == AcceptedRows(rows)
      latency  == Sum(Values(accepted, "total_latency"))
      p50      == percentile(Values(accepted, "total_latency"), 50)
      waited   == SelectSeq(accepted, LAMBDA row : row.queue_delay > 0)
  IN  [avg_latency |-> summary.avg_latency, p95_latency |-> summary.p95_latency,
       queue_delay_ratio |-> safe_ratio(Sum(Values(accepted, "queue_delay")), latency),
       service_delay_ratio |-> safe_ratio(Sum(Values(accepted, "service_latency")), latency),
       bank_conflict_proxy |-> safe_ratio(Len(waited), Len(accepted)),
       p95_p50_latency_ratio |-> safe_ratio(summary.p95_latency, p50),
       bank_utilization |-> summary.bank_utilization,
       max_queue_occupancy |-> summary.max_queue_occupancy,
       rejected |-> summary.rejected, row_hit_ratio |-> summary.row_hit_ratio]

-----------------------------------------------------------------------------
(***************************************************************************)
(* Attribution.                                                            *)
(***************************************************************************)
has_high(value, threshold) == value # NA /\ value >= threshold
has_low(value, threshold)  == value # NA /\ value <= threshold

Points(evidence) == Sum([k \in DOMAIN evidence |-> IF evidence[k][1] THEN evidence[k][2] ELSE 0])

(* The rules, in the order a tie is decided.                               *)
rule_scores(f, m) ==
  LET queued   == has_high(m.queue_delay_ratio, 2500)
      unqueued == has_low(m.queue_delay_ratio, 2000)
      serving  == has_high(m.service_delay_ratio, 6500)
      tail     == has_high(m.p95_p50_latency_ratio, 20000)
      crowded  == m.max_queue_occupancy >= 4
      rejected == m.rejected > 0
  IN  << [rule |-> "bank_conflict_bound",
          score |-> Points(<< <<has_high(f.max_bank_share, 6500), 1>>,
                              <<has_low(f.bank_entropy, 5500), 1>>,
                              <<has_high(m.bank_conflict_proxy, 3500), 1>>, <<tail, 1>> >>)],
         [rule |-> "queueing_bound",
          score |-> Points(<< <<queued, 2>>, <<crowded, 1>>, <<rejected, 2>> >>)],
         [rule |-> "bandwidth_pressure_bound",
          score |-> Points(<< <<has_high(m.bank_utilization, 7000), 1>>, <<queued, 1>>,
                              <<rejected, 1>>,
                              <<has_low(f.bank_count_sensitivity_score, 1000), 1>> >>)],
         [rule |-> "burstiness_bound",
          score |-> Points(<< <<has_high(f.burstiness_score, 3500), 1>>, <<tail, 1>>,
                              <<crowded, 1>>, <<rejected, 1>> >>)],
         [rule |-> "locality_loss_bound",
          score |-> Points(<< <<has_low(f.reuse_ratio, 2000), 1>>,
                              <<has_low(f.phase_locality_score, 2500), 1>>,
                              <<has_low(m.row_hit_ratio, 2500), 1>>,
                              <<serving, 1>>, <<unqueued, 1>> >>)],
         [rule |-> "service_latency_bound",
          score |-> Points(<< <<serving, 2>>, <<unqueued, 1>> >>)] >>

score_confidence(score) ==
  CASE score >= 3 -> "high" [] score = 2 -> "medium" [] score < 2 -> "low"

Attribution(scores) ==
  LET best  == Max({scores[k].score : k \in DOMAIN scores})
      first == Min({k \in DOMAIN scores : scores[k].score = best})
  IN  [primary_bottleneck |-> IF best = 0 THEN "no_dominant_bottleneck" ELSE scores[first].rule,
       confidence |-> score_confidence(best)]

attribution_for(features, metrics) == Attribution(rule_scores(features, metrics))

-----------------------------------------------------------------------------
(***************************************************************************)
(* The sweep: nine runs of the model, over all five traces each.  A trace  *)
(* table that is not complete has lost the last workload's rows.           *)
(***************************************************************************)
Config(address_mapping, bank_count) ==
  [address_mapping |-> address_mapping, bank_count |-> bank_count, queue_depth |-> 16,
   base_service_latency |-> 20, row_hit_latency |-> 8, row_miss_latency |-> 40,
   row_size_bytes |-> 64, interleave_bytes |-> 4]

Runs == FlattenSeq([a \in 1..3 |->
          [b \in 1..3 |-> [address_mapping |-> ADDRESS_MAPPING_SWEEP[a],
                           bank_count |-> BANK_COUNT_SWEEP[b]]]])
Baseline == Runs[1]

Features == {[workload |-> w] @@ characterize_trace(Traces[w]) : w \in ToSet(ALL_WORKLOADS)}
FeaturesOf(workload) == CHOOSE f \in Features : f.workload = workload

Lost(workload, complete) == ~complete /\ workload = Last(ALL_WORKLOADS)

AttributedRow(workload, metrics) == metrics @@ attribution_for(FeaturesOf(workload), metrics)

MeasuredRow(workload, complete, result) ==
  AttributedRow(workload,
    summarize_model_metrics(result.summary,
                            IF Lost(workload, complete) THEN <<>> ELSE result.rows))

SweepRow(workload, run, complete) ==
  [workload |-> workload, complete |-> complete] @@ run
    @@ MeasuredRow(workload, complete,
         run_banked_memory_model(Config(run.address_mapping, run.bank_count), Traces[workload]))

Sweep == {SweepRow(w, run, complete) :
            w \in ToSet(ALL_WORKLOADS), run \in ToSet(Runs), complete \in BOOLEAN}
RowOf(workload, run, complete) ==
  CHOOSE row \in Sweep : /\ row.workload = workload /\ row.complete = complete
                         /\ row.address_mapping = run.address_mapping
                         /\ row.bank_count = run.bank_count

(* The 95th percentiles are in the summary table.                          *)
P95(workload, address_mapping, bank_count) ==
  RowOf(workload, [address_mapping |-> address_mapping, bank_count |-> bank_count], TRUE)
    .p95_latency

sensitivity_score(values) == Ratio(Max(values) - Min(values), Max(values))

compute_sensitivity_by_workload(workload) ==
  [mapping_sensitivity_score |->
     sensitivity_score({P95(workload, a, 4) : a \in ToSet(ADDRESS_MAPPING_SWEEP)}),
   bank_count_sensitivity_score |->
     sensitivity_score({P95(workload, DEFAULT_ADDRESS_MAPPING, b) :
                          b \in ToSet(BANK_COUNT_SWEEP)})]

(* A row of the summary, when the baseline's trace table was complete or   *)
(* not.                                                                    *)
SummaryRow(features, metrics) == attribution_for(features, metrics) @@ features @@ metrics

build_summary_row(workload, complete) ==
  SummaryRow(compute_sensitivity_by_workload(workload) @@ FeaturesOf(workload),
             RowOf(workload, Baseline, complete))

-----------------------------------------------------------------------------
(***************************************************************************)
(* Project L.                                                              *)
(***************************************************************************)
(* The lowest 95th percentile, then average, bank count and mapping.       *)
Best(rows) ==
  LET rank(k) == <<rows[k].p95_latency, rows[k].avg_latency, rows[k].bank_count, k>>
      before(j, k) == \E i \in 1..4 : /\ rank(j)[i] < rank(k)[i]
                                      /\ \A h \in 1..(i - 1) : rank(j)[h] = rank(k)[h]
  IN  CHOOSE k \in DOMAIN rows : \A j \in DOMAIN rows \ {k} : before(k, j)

project_l_best_sweep(workload) ==
  Runs[Best([k \in DOMAIN Runs |-> RowOf(workload, Runs[k], TRUE)])]

project_l_bank_conflict_signal(row) ==
  CASE has_high(row.bank_conflict_proxy, 6500) -> "high"
    [] OTHER -> IF \/ has_high(row.max_bank_share, 6500) /\ has_low(row.bank_entropy, 5500)
                   \/ has_high(row.bank_conflict_proxy, 3500)
                  THEN "medium" ELSE "low"

project_l_locality_signal(row) ==
  LET distant(distance) == has_high(row.avg_reuse_distance, 100 * distance)
      weak  == \/ has_low(row.reuse_ratio, 2000) /\ has_low(row.sequentiality_score, 2500)
               \/ has_low(row.phase_locality_score, 2500)
               \/ distant(16)
      mixed == \/ has_low(row.reuse_ratio, 5000) \/ has_low(row.sequentiality_score, 5000)
               \/ has_low(row.phase_locality_score, 5000)
               \/ distant(4)
  IN  IF weak THEN "weak" ELSE IF mixed THEN "mixed" ELSE "strong"

Excess(left, right) == IF left = NA \/ right = NA THEN 0 ELSE left - right

(* Mutant: the mapping that is in use already counts as a change.          *)
project_l_action_for_SameMapping(row, best) ==
  LET conflict == project_l_bank_conflict_signal(row)
      queueing == Excess(row.queue_delay_ratio, row.service_delay_ratio)
      rules == << <<row.confidence = "low", "keep_observing_low_confidence">>,
                  << /\ conflict = "high" /\ has_high(row.bank_count_sensitivity_score, 2500)
                     /\ best.bank_count # Baseline.bank_count,
                     "increase_bank_parallelism">>,
                  << has_high(row.mapping_sensitivity_score, 2500),
                     "change_address_mapping">>,
                  <<project_l_locality_signal(row) = "weak", "improve_locality_or_tiling">>,
                  <<queueing >= 2000, "reduce_queueing_pressure">>,
                  <<-queueing >= 2000 /\ conflict = "low", "reduce_target_service_latency">>,
                  <<TRUE, "no_single_dominant_action">> >>
  IN  rules[Min({k \in DOMAIN rules : rules[k][1]})][2]

(* The first rule whose condition holds.                                   *)
project_l_action_for(row, best) ==
  LET conflict == project_l_bank_conflict_signal(row)
      queueing == Excess(row.queue_delay_ratio, row.service_delay_ratio)
      rules == << <<row.confidence = "low", "keep_observing_low_confidence">>,
                  << /\ conflict = "high" /\ has_high(row.bank_count_sensitivity_score, 2500)
                     /\ best.bank_count # Baseline.bank_count,
                     "increase_bank_parallelism">>,
                  << /\ has_high(row.mapping_sensitivity_score, 2500)
                     /\ best.address_mapping # DEFAULT_ADDRESS_MAPPING,
                     "change_address_mapping">>,
                  <<project_l_locality_signal(row) = "weak", "improve_locality_or_tiling">>,
                  <<queueing >= 2000, "reduce_queueing_pressure">>,
                  <<-queueing >= 2000 /\ conflict = "low", "reduce_target_service_latency">>,
                  <<TRUE, "no_single_dominant_action">> >>
  IN  rules[Min({k \in DOMAIN rules : rules[k][1]})][2]

project_l_recommendation_priority(action, row) ==
  LET evidence == CASE action = "increase_bank_parallelism" -> row.bank_count_sensitivity_score
                    [] action = "change_address_mapping" -> row.mapping_sensitivity_score
                    [] action = "reduce_queueing_pressure" -> row.queue_delay_ratio
                    [] action = "reduce_target_service_latency" -> row.service_delay_ratio
                    [] OTHER -> NA
      enough == IF action \in {"increase_bank_parallelism", "change_address_mapping"}
                  THEN 5000 ELSE 7500
  IN  CASE action \in {"keep_observing_low_confidence", "no_single_dominant_action"} -> "low"
        [] OTHER -> IF row.confidence = "high" /\ has_high(evidence, enough)
                      THEN "high" ELSE "medium"

Recommendation(row, best) ==
  LET action == project_l_action_for(row, best)
  IN  [workload |-> row.workload, action |-> action, best |-> best,
       priority |-> project_l_recommendation_priority(action, row)]

build_project_l_recommendation_row(row) ==
  Recommendation(row, project_l_best_sweep(row.workload))

(* The rows of Project K's summary and Project L's table.                  *)
Summaries ==
  {[complete |-> complete,
    summary |-> [k \in DOMAIN ALL_WORKLOADS |-> build_summary_row(ALL_WORKLOADS[k], complete)]] :
     complete \in BOOLEAN}

Reports ==
  {s @@ [recommendations |-> [k \in DOMAIN s.summary |->
                                build_project_l_recommendation_row(s.summary[k])]] :
     s \in Summaries}
Report(complete) == CHOOSE report \in Reports : report.complete = complete
=============================================================================
