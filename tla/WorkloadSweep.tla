--------------------------- MODULE WorkloadSweep ---------------------------
(***************************************************************************)
(* examples/lt/tools/run_workload_sweep.py and the analyze_latency.py it   *)
(* runs: the cases, what is measured of a latency trace and what is        *)
(* checked of it.  A trace is a sequence of LtBus rows, each with the      *)
(* workload it was written under.                                          *)
(***************************************************************************)
EXTENDS LtBus, FiniteSetsExt

case(id, stride, initiators, target_pattern) ==
  [id |-> id, settings |-> Workload(64, stride, target_pattern, initiators)]

CASES ==
  << case("baseline_dual_initiator_current_default", 4, {101, 102}, "both"),
     case("single_initiator_101_current_default", 4, {101}, "both"),
     case("dual_initiator_target201_hotspot", 4, {101, 102}, "target201"),
     case("dual_initiator_target202_hotspot", 4, {101, 102}, "target202"),
     case("dual_initiator_stride_16_current_default", 16, {101, 102}, "both") >>

-----------------------------------------------------------------------------
(***************************************************************************)
(* analyze_latency.py: averages in thousandths of a ns, ratios in          *)
(* thousandths of a percent.                                               *)
(***************************************************************************)
dedup_identical_rows(rows) == ToSet(rows)

filter_rows(rows, initiators) == {row \in rows : row.initiator_id \in initiators}

delay(row) == row.end - row.start
bank_conflict_delay(row) == IF row.bank_conflict THEN BankConflictPenalty ELSE 0

Total(values) == MapThenSumSet(LAMBDA v : v[1] * v[2], values)

Tally(rows, field(_)) ==
  {<<value, Cardinality({row \in rows : field(row) = value})>> : value \in {field(r) : r \in rows}}

average(rows, field(_)) == (1000 * Total(Tally(rows, field))) \div Cardinality(rows)

contention_ratio(rows) ==
  (100000 * Cardinality({row \in rows : row.queue > 0})) \div Cardinality(rows)

bank_conflict_ratio(rows) ==
  (100000 * Cardinality({row \in rows : row.bank_conflict})) \div Cardinality(rows)

summary_metrics(rows) ==
  [total_transactions |-> Cardinality(rows),
   avg_delay |-> average(rows, delay), max_delay |-> Max({delay(row) : row \in rows}),
   avg_queue |-> average(rows, LAMBDA row : row.queue),
   max_queue |-> Max({row.queue : row \in rows}),
   contention_ratio |-> contention_ratio(rows),
   avg_service |-> average(rows, LAMBDA row : row.service),
   total_bank_conflicts |-> Cardinality({row \in rows : row.bank_conflict}),
   bank_conflict_ratio |-> bank_conflict_ratio(rows),
   avg_bank_conflict_delay |-> average(rows, bank_conflict_delay),
   max_bank_conflict_delay |-> Max({bank_conflict_delay(row) : row \in rows})]

sanity_checks(rows) ==
  \A row \in rows : /\ row.end >= row.start
                    /\ delay(row) = row.queue + row.service + bank_conflict_delay(row)

(* The exit code: no rows, or rows that make no sense and --fail-on-sanity. *)
analyze_latency(rows, fail_on_sanity) ==
  IF rows = {} \/ (fail_on_sanity /\ ~sanity_checks(rows)) THEN 1 ELSE 0

-----------------------------------------------------------------------------
(***************************************************************************)
(* Checks.                                                                 *)
(***************************************************************************)
Spaced(addresses, stride) ==
  Cardinality(addresses) >= 2 =>
    addresses = {Min(addresses) + i * stride : i \in 0..(Cardinality(addresses) - 1)}

(* Within each initiator, target and command.                              *)
validate_stride(rows, stride) ==
  \A key \in {<<row.initiator_id, row.target_id, row.command>> : row \in rows} :
    Spaced({row.address : row \in {r \in rows : <<r.initiator_id, r.target_id, r.command>> = key}},
           stride)

(* The count, stride, pattern and initiators the rows were written under.  *)
validate_workload_fields(rows, c) == \A row \in rows : row.workload = c.settings

validate_case_trace(c, trace) ==
  LET rows == filter_rows(ToSet(trace), {101, 102})
  IN  /\ c.settings.initiators # {} => rows # {}
      /\ \A row \in rows : row.initiator_id \in c.settings.initiators
      /\ c.settings.target_pattern = "target201" => \A row \in rows : row.target_id = 201
      /\ c.settings.target_pattern = "target202" => \A row \in rows : row.target_id = 202
      /\ validate_stride(rows, c.settings.address_stride)
      /\ validate_workload_fields(rows, c)

(* What the report says of a case that passed, beside the case it speaks   *)
(* of: the slower target's hotspot for the faster one, and otherwise the   *)
(* baseline.                                                               *)
compared_with(id) ==
  IF id = "dual_initiator_target202_hotspot" THEN "dual_initiator_target201_hotspot"
  ELSE "baseline_dual_initiator_current_default"

interpretation(id, metrics, other) ==
  CASE id = "single_initiator_101_current_default" -> metrics.avg_queue < other.avg_queue
    [] id = "dual_initiator_target201_hotspot" ->
         metrics.avg_delay > other.avg_delay /\ metrics.avg_service > other.avg_service
    [] id = "dual_initiator_target202_hotspot" -> metrics.avg_delay < other.avg_delay
    [] id = "dual_initiator_stride_16_current_default" ->
         /\ metrics.bank_conflict_ratio > other.bank_conflict_ratio
         /\ metrics.avg_delay > other.avg_delay
    [] id = "baseline_dual_initiator_current_default" -> TRUE
=============================================================================
