---------------------------- MODULE MemorySweep ----------------------------
(***************************************************************************)
(* examples/lt/tools/run_memory_access_pattern_sweep.py: its cases, what   *)
(* it measures of a latency trace and what it checks of it.  A trace is a  *)
(* sequence of LtBus rows, each with the workload it was written under.    *)
(*                                                                         *)
(* The trace has no column for the memory pattern, the hotspot ratio or    *)
(* hotspot accesses, and the script checks those columns only where they   *)
(* are there.                                                              *)
(***************************************************************************)
EXTENDS LtBus, FiniteSetsExt, TLC

(* LT_MEMORY_PATTERN, and LT_HOTSPOT_RATIO with it, are set as the rest is. *)
case(pattern, stride) ==
  [id |-> pattern, num_transactions |-> 64, stride |-> stride,
   settings |-> Workload(64, stride, "target201", {101}) @@ [memory_pattern |-> pattern]]

CASES == <<case("sequential", 4), case("stride", 16), case("hotspot", 4)>>

-----------------------------------------------------------------------------
(***************************************************************************)
(* Metrics: times in thousandths of a ns where they are averages, ratios   *)
(* in thousandths of a percent.                                            *)
(***************************************************************************)
Count(values, value) == Cardinality({k \in DOMAIN values : values[k] = value})

Total(values) == MapThenSumSet(LAMBDA value : value * Count(values, value), ToSet(values))

average(values) == (1000 * Total(values)) \div Len(values)

(* round() takes a half to the even neighbour.                             *)
python_round(numerator, denominator) ==
  LET whole == numerator \div denominator
      twice == 2 * (numerator % denominator)
  IN  IF twice > denominator \/ (twice = denominator /\ whole % 2 = 1) THEN whole + 1 ELSE whole

(* The element at the rank: so many are smaller, and no more.              *)
percentile(values, percent) ==
  LET rank == python_round(percent * (Len(values) - 1), 100)
      below(value) == Cardinality({k \in DOMAIN values : values[k] < value})
  IN  CHOOSE value \in ToSet(values) :
        below(value) <= rank /\ rank < below(value) + Count(values, value)

rows_for_initiator(rows, initiator_id) ==
  SelectSeq(rows, LAMBDA row : row.initiator_id = initiator_id)

Column(rows, field) == [k \in DOMAIN rows |-> rows[k][field]]

compute_summary_metrics(trace) ==
  LET rows      == rows_for_initiator(trace, 101)
      n         == Len(rows)
      latencies == [k \in 1..n |-> rows[k].end - rows[k].start]
      conflicts == Cardinality({k \in 1..n : rows[k].bank_conflict})
      window    == Max(ToSet(Column(rows, "end"))) - Min(ToSet(Column(rows, "start")))
  IN  [num_transactions |-> n, avg_latency |-> average(latencies),
       p50_latency |-> percentile(latencies, 50), p95_latency |-> percentile(latencies, 95),
       p99_latency |-> percentile(latencies, 99), max_latency |-> Max(ToSet(latencies)),
       bank_conflict_ratio |-> (100000 * conflicts) \div n,
       throughput |-> IF window > 0 THEN (1000000 * n) \div window ELSE 0,
       avg_queue |-> average(Column(rows, "queue")),
       max_queue |-> Max(ToSet(Column(rows, "queue"))),
       avg_service |-> average(Column(rows, "service")), total_bank_conflicts |-> conflicts]

-----------------------------------------------------------------------------
(***************************************************************************)
(* Checks.                                                                 *)
(***************************************************************************)
(* The distinct addresses are the stride apart.                            *)
Spaced(addresses, stride) ==
  Cardinality(addresses) >= 2 =>
    addresses = {Min(addresses) + i * stride : i \in 0..(Cardinality(addresses) - 1)}

FullAddress(row) == (row.target_id - 201) * 268435456 + row.address

validate_address_stride(rows, stride) ==
  \A command \in {"WRITE", "READ"} :
    Spaced({FullAddress(rows[k]) : k \in {j \in DOMAIN rows : rows[j].command = command}}, stride)

validate_case_trace(c, trace) ==
  LET rows == rows_for_initiator(trace, 101)
  IN  /\ rows # <<>>
      /\ \A k \in DOMAIN trace : trace[k].initiator_id # 102
      /\ \A k \in DOMAIN rows : /\ rows[k].workload.burst_count = c.num_transactions
                                /\ rows[k].workload.address_stride = c.stride
      /\ c.id \in {"sequential", "stride"} => validate_address_stride(rows, c.stride)

(* What the report says of a case that passed, beside a sequential case    *)
(* that did: that one is the cleanest reference point, and the two others  *)
(* raise the bank conflicts and the tail, the stride the average too.      *)
cleanest(metrics, sequential) ==
  /\ sequential.bank_conflict_ratio <= metrics.bank_conflict_ratio
  /\ sequential.avg_latency <= metrics.avg_latency

interpretation(id, metrics, sequential) ==
  /\ id \in {"stride", "hotspot"} =>
       /\ metrics.bank_conflict_ratio > sequential.bank_conflict_ratio
       /\ metrics.p95_latency > sequential.p95_latency
       /\ metrics.p99_latency > sequential.p99_latency
  /\ id = "stride" => metrics.avg_latency > sequential.avg_latency
=============================================================================
