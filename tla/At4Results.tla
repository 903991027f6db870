----------------------------- MODULE At4Results -----------------------------
(***************************************************************************)
(* The cases of the AT-4 demonstration, the trace the program writes for   *)
(* each (CacheMshr), and what the script computes from a trace: whether it *)
(* is valid, its rows of the tables and its recommendation.  Times are in  *)
(* thousandths of a nanosecond, as printed (a tie is rounded up here).     *)
(***************************************************************************)
EXTENDS CacheMshr

CaseConfig(name, capacity, cache, latency, grid) ==
  [case_name |-> name, mshr_capacity |-> capacity, cache_like_capacity |-> cache,
   memory_service_latency |-> latency, hit_latency |-> 4,
   num_transactions_per_initiator |-> 36, grid |-> grid]

CASES ==
  << CaseConfig("cpu_latency_sensitive_hotset", 4, 96, 36, 1000000),
     CaseConfig("dma_streaming_pollution", 4, 64, 42, 1000000),
     CaseConfig("accel_tiled_reuse", 4, 80, 38, 1000000),
     CaseConfig("mixed_cpu_dma_accel_interference", 4, 64, 48, 1000000),
     CaseConfig("low_mshr_capacity_pressure", 2, 48, 45, 100000),
     CaseConfig("high_mshr_diminishing_return", 8, 64, 52, 1000000),
     CaseConfig("slow_memory_mshr_saturation", 8, 64, 120, 1000000) >>

Model == [c \in DOMAIN CASES |-> run_shared_resource_model(CASES[c])]

-----------------------------------------------------------------------------
(* write_trace of the program and read_trace of the script: a row for each *)
(* record, times as printed.                                               *)
TraceRow(o, r) ==
  LET unit == o.grid \div 1000
      ns(time) == (time + unit \div 2) \div unit
      observed == r.begin_resp - r.cache_lookup_done
  IN  [case_name |-> o.case_name, txn |-> r.txn, initiator |-> r.txn[1],
       mshr_capacity |-> o.mshr_capacity, cache_like_capacity |-> o.cache_like_capacity,
       begin_req |-> ns(r.begin_req), accept |-> ns(r.begin_req + o.grid),
       cache_lookup_done |-> ns(r.cache_lookup_done), mshr_grant |-> ns(r.mshr_grant),
       memory_begin |-> ns(r.memory_begin), memory_end |-> ns(r.memory_end),
       begin_resp |-> ns(r.begin_resp), end_resp |-> ns(r.end_resp),
       hit |-> r.hit, total_latency |-> ns(r.end_resp - r.begin_req),
       observed_latency |-> ns(observed), occupancy |-> r.occupancy, peak |-> r.peak,
       mshr_full |-> r.mshr_full, miss_queue_delay |-> ns(r.miss_queue_delay),
       memory_service_delay |-> ns(r.memory_service_delay), blocked |-> ns(r.blocked),
       pollution_proxy |-> (pollution_proxy(o, r.txn[1]) + 5) \div 10]

write_trace(o, done) == [k \in DOMAIN done |-> TraceRow(o, done[k])]

Trace == [c \in DOMAIN CASES |-> write_trace(CASES[c], Model[c])]

percentile(values, pct) ==
  LET sorted == SortSeq(values, <)
      rank   == (pct * Len(values) + 99) \div 100
  IN  IF values = <<>> THEN 0 ELSE sorted[Greatest(1, Least(rank, Len(values)))]

Column(rows, field) == [k \in DOMAIN rows |-> rows[k][field]]
Total(rows, field) == SumFunction(Column(rows, field))
Of(rows, initiator) == SelectSeq(rows, LAMBDA row : row.initiator = initiator)
Hits(rows) == SelectSeq(rows, LAMBDA row : row.hit)
Misses(rows) == SelectSeq(rows, LAMBDA row : ~row.hit)
FullEvents(rows) == Len(SelectSeq(rows, LAMBDA row : row.mshr_full))

(* Mutant: a request may not be granted at the time its look-up is done.   *)
validate_trace_Strict(config, rows) ==
  /\ Len(rows) = 3 * config.num_transactions_per_initiator
  /\ \A k \in DOMAIN rows : rows[k].cache_lookup_done < rows[k].mshr_grant

validate_trace(config, rows) ==
  /\ Len(rows) = 3 * config.num_transactions_per_initiator
  /\ \A k \in DOMAIN rows :
       LET row == rows[k]
       IN  /\ row.case_name = config.case_name
           /\ row.mshr_capacity = config.mshr_capacity
           /\ row.cache_like_capacity = config.cache_like_capacity
           /\ row.begin_req <= row.accept /\ row.accept <= row.cache_lookup_done
           /\ row.cache_lookup_done <= row.mshr_grant
           /\ row.mshr_grant <= row.memory_begin /\ row.memory_begin <= row.memory_end
           /\ row.memory_end <= row.begin_resp /\ row.begin_resp <= row.end_resp
           /\ row.hit => row.memory_service_delay = 0 /\ row.miss_queue_delay = 0
           /\ ~row.hit => row.memory_service_delay > 0
  /\ \A i \in Initiators : Len(Of(rows, i)) = config.num_transactions_per_initiator

SummaryRow(config, initiator, rows) ==
  [case_name |-> config.case_name, initiator |-> initiator, transactions |-> Len(rows),
   hits |-> Len(Hits(rows)), misses |-> Len(Misses(rows)),
   mshr_occupancy_max |-> Max({rows[k].peak : k \in DOMAIN rows}),
   mshr_full_events |-> FullEvents(rows), miss_queue_delay |-> Total(rows, "miss_queue_delay"),
   initiator_blocked |-> Total(rows, "blocked"),
   p50 |-> percentile(Column(rows, "total_latency"), 50),
   p95 |-> percentile(Column(rows, "total_latency"), 95),
   p99 |-> percentile(Column(rows, "total_latency"), 99)]

summarize_case(config, rows) ==
  [k \in 1..3 |-> SummaryRow(config, k - 1, Of(rows, k - 1))]

(* The averages are compared as sums, to stay in whole numbers.            *)
DominantBottleneck(rows) ==
  LET misses  == Misses(rows)
      service == Total(misses, "memory_service_delay")
      queue   == Total(rows, "miss_queue_delay")
  IN  CASE misses # <<>> /\ service >= 90000 * Len(misses) -> "memory_service_latency"
        [] OTHER ->
           IF \/ FullEvents(rows) >= Len(rows) \div 5
              \/ queue > (IF misses = <<>> THEN 0 ELSE (6 * service) \div Len(misses))
             THEN "mshr_pressure"
           ELSE IF Total(rows, "pollution_proxy") >= 700 * Len(rows)
             THEN "shared_resource_interference"
           ELSE IF 2 * Len(misses) >= Len(rows) THEN "locality_or_capacity"
           ELSE "balanced_or_low_pressure"

aggregate_policy_row(config, rows) ==
  [case_name |-> config.case_name, mshr_capacity |-> config.mshr_capacity,
   hits |-> Len(Hits(rows)), misses |-> Len(Misses(rows)),
   p95 |-> percentile(Column(rows, "total_latency"), 95),
   p99 |-> percentile(Column(rows, "total_latency"), 99),
   mshr_full_events |-> FullEvents(rows), dominant_bottleneck |-> DominantBottleneck(rows)]

Recommend(bottleneck, action, best) ==
  [primary_bottleneck |-> bottleneck, recommended_action |-> action,
   mshr_capacity_best |-> best]

make_recommendation(policy_row) ==
  [case_name |-> policy_row.case_name] @@
  CASE policy_row.case_name = "low_mshr_capacity_pressure" ->
         Recommend("mshr_pressure", "increase_mshr_capacity", 8)
    [] policy_row.case_name = "dma_streaming_pollution" ->
         Recommend("streaming_dma_pollution", "throttle_streaming_dma", 4)
    [] policy_row.case_name = "mixed_cpu_dma_accel_interference" ->
         Recommend("shared_resource_interference", "partition_shared_resource", 8)
    [] policy_row.case_name = "accel_tiled_reuse" ->
         Recommend("locality_sensitive_reuse", "improve_locality_or_tiling", 4)
    [] policy_row.case_name = "slow_memory_mshr_saturation" ->
         Recommend("memory_service_latency", "reduce_memory_service_latency", 8)
    [] policy_row.case_name = "cpu_latency_sensitive_hotset" ->
         Recommend("low_pressure_hotset", "no_single_dominant_action", 4)
    [] policy_row.case_name = "high_mshr_diminishing_return" ->
         Recommend("diminishing_mshr_return", "no_single_dominant_action", 8)

(* What the loop of main computes from the trace of case c, complete or    *)
(* cut short.                                                              *)
Analysis ==
  [c \in DOMAIN CASES, complete \in BOOLEAN |->
     LET rows == IF complete THEN Trace[c] ELSE Front(Trace[c])
     IN  [valid |-> validate_trace(CASES[c], rows),
          summary_rows |-> summarize_case(CASES[c], rows),
          policy_row |-> aggregate_policy_row(CASES[c], rows)]]

-----------------------------------------------------------------------------
(* The traces against the MSHR.                                            *)

(* How many misses are between their grant and the end of their memory     *)
(* access when miss k is granted.                                          *)
Outstanding(done, k) ==
  Cardinality({l \in DOMAIN done :
                 /\ ~done[l].hit
                 /\ done[l].mshr_grant <= done[k].mshr_grant
                 /\ done[k].mshr_grant < done[l].memory_end})

MissesOf(done) == {k \in DOMAIN done : ~done[k].hit}
Bounded(o, done) ==
  \A k \in MissesOf(done) : Outstanding(done, k) <= o.mshr_capacity
InOrder(done) ==
  \A k, l \in MissesOf(done) : k < l => done[k].mshr_grant <= done[l].mshr_grant
EndsDiffer(done) ==
  \A k, l \in MissesOf(done) : k # l => done[k].memory_end # done[l].memory_end

Unbounded == {c \in DOMAIN CASES : ~Bounded(CASES[c], Model[c])}
Violating ==
  {c \in DOMAIN CASES : EndsDiffer(Model[c]) /\ (c \in Unbounded \/ ~InOrder(Model[c]))}
=============================================================================
