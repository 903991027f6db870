---------------------------- MODULE TraceReplay ----------------------------
(***************************************************************************)
(* The two engines that replay a normalized memory trace:                  *)
(* examples/lt/tools/run_trace_replay_lab.py and examples/lt/replay_cpp.   *)
(* Each checks a trace, sorts it, delays every access, with a penalty when *)
(* it goes to the bank the target was at last, and summarises the delays.  *)
(* They are written apart, as two programs, and are to agree.              *)
(*                                                                         *)
(* A trace has a workload name and rows.  An address is its decoded port,  *)
(* its bank, and whether it is so great that bits above the 60th are set.  *)
(* Times are in ns; averages and ratios are in thousandths.                *)
(***************************************************************************)
EXTENDS Integers, Sequences, FiniteSets, SequencesExt, FiniteSetsExt

TARGET_SERVICE_DELAY_NS == 100
BANK_CONFLICT_DELAY_NS  == 20

(* What can be wrong with a row: a field neither engine takes; a name that *)
(* is not that of the trace; fewer columns than the header, though not of  *)
(* the required ones; an address above 2^60.                               *)
RowDefects == {"none", "bad_field", "other_name", "short", "high_address"}

HasDefect(trace, defects) == \E k \in DOMAIN trace.rows : trace.rows[k].defect \in defects

DuplicateIds(rows) ==
  \E j, k \in DOMAIN rows : j # k /\ rows[j].txn_id = rows[k].txn_id

Sum(values) == MapThenSumSet(LAMBDA k : values[k], DOMAIN values)

(* Both sorts leave equal rows in the order of the file: Python's is       *)
(* stable, and std::sort inserts when it is given 16 rows or fewer.        *)
StableSort(rows, Before(_, _)) ==
  LET rank(k) == Cardinality({j \in DOMAIN rows :
                   \/ Before(rows[j], rows[k])
                   \/ j <= k /\ ~Before(rows[k], rows[j])})
  IN  [r \in DOMAIN rows |-> rows[CHOOSE k \in DOMAIN rows : rank(k) = r]]

-----------------------------------------------------------------------------
(***************************************************************************)
(* run_trace_replay_lab.py                                                 *)
(***************************************************************************)
(* int(txn_id, 0): underscores are allowed, leading zeros are not.         *)
python_ints == {"1", "2", "9", "10", "1_0"}
python_int(txn_id) ==
  CASE txn_id = "1" -> 1 [] txn_id = "2" -> 2 [] txn_id = "9" -> 9
    [] txn_id \in {"10", "1_0"} -> 10

(* Whether the key of one row comes before that of another; of the ids     *)
(* that are texts there is one at most.                                    *)
python_before(a, b) ==
  \/ a.timestamp < b.timestamp
  \/ /\ a.timestamp = b.timestamp
     /\ a.txn_id \in python_ints
     /\ b.txn_id \in python_ints => python_int(a.txn_id) < python_int(b.txn_id)

load_trace_accepts(trace) ==
  /\ trace.rows # <<>>
  /\ ~HasDefect(trace, {"bad_field", "other_name", "high_address"})
  /\ ~DuplicateIds(trace.rows)

load_trace(trace) == StableSort(trace.rows, python_before)

(* Mutant: the bank of the last access is kept for all targets at once.    *)
replay_rows_SharedBank(rows) ==
  LET conflict(k) == k > 1 /\ rows[k - 1].bank = rows[k].bank
  IN  [k \in DOMAIN rows |->
         [start |-> rows[k].timestamp, bank_conflict |-> conflict(k),
          total_delay |-> TARGET_SERVICE_DELAY_NS
                            + IF conflict(k) THEN BANK_CONFLICT_DELAY_NS ELSE 0]]

replay_rows(rows) ==
  LET earlier(k)  == {j \in 1..(k - 1) : rows[j].port = rows[k].port}
      conflict(k) == earlier(k) # {} /\ rows[Max(earlier(k))].bank = rows[k].bank
  IN  [k \in DOMAIN rows |->
         [start |-> rows[k].timestamp, bank_conflict |-> conflict(k),
          total_delay |-> TARGET_SERVICE_DELAY_NS
                            + IF conflict(k) THEN BANK_CONFLICT_DELAY_NS ELSE 0]]

(* round(numerator / denominator): a half goes to the even neighbour.      *)
round(numerator, denominator) ==
  CHOOSE n \in 0..(numerator + 1) :
    LET off == 2 * (numerator - n * denominator)
    IN  \/ -denominator < off /\ off < denominator
        \/ off \in {-denominator, denominator} /\ n % 2 = 0

percentile(values, percentile_value) ==
  SortSeq(values, <)[round(percentile_value * (Len(values) - 1), 100) + 1]

summary_for_workload(workload, rows) ==
  LET latencies == [k \in DOMAIN rows |-> rows[k].total_delay]
      n         == Len(rows)
      window    == Max({rows[k].start + rows[k].total_delay : k \in DOMAIN rows})
                     - Min({rows[k].start : k \in DOMAIN rows})
  IN  [workload_name |-> workload, num_transactions |-> n,
       avg_latency |-> (1000 * Sum(latencies)) \div n,
       p50_latency |-> percentile(latencies, 50), p95_latency |-> percentile(latencies, 95),
       p99_latency |-> percentile(latencies, 99), max_latency |-> Max(ToSet(latencies)),
       bank_conflict_ratio |->
         (100000 * Cardinality({k \in DOMAIN rows : rows[k].bank_conflict})) \div n,
       throughput |-> (1000000 * n) \div window]

PythonSummary(trace) == summary_for_workload(trace.workload, replay_rows(load_trace(trace)))

-----------------------------------------------------------------------------
(***************************************************************************)
(* replay_cpp                                                              *)
(***************************************************************************)
(* strtoll with base 0: a leading zero makes the number octal; a text it   *)
(* does not take to the end is none.                                       *)
cpp_ints == {"1", "2", "9", "10", "010"}
strtoll(txn_id) ==
  CASE txn_id = "1" -> 1 [] txn_id = "2" -> 2 [] txn_id = "9" -> 9 [] txn_id = "10" -> 10
    [] txn_id = "010" -> 8

sort_less(left, right) ==
  IF left.timestamp # right.timestamp THEN left.timestamp < right.timestamp
  ELSE IF (left.txn_id \in cpp_ints) # (right.txn_id \in cpp_ints) THEN left.txn_id \in cpp_ints
  ELSE left.txn_id \in cpp_ints /\ strtoll(left.txn_id) < strtoll(right.txn_id)

(* The decoded port is truncated to an int, which hides the high bits.     *)
validate_trace_table_accepts(trace) ==
  /\ trace.rows # <<>>
  /\ ~HasDefect(trace, {"bad_field", "other_name", "short"})
  /\ ~DuplicateIds(trace.rows)

validate_trace_table(trace) == StableSort(trace.rows, sort_less)

(* One record after the other, with the last bank of each target.          *)
replay_records(input_rows) ==
  LET replay(done, input) ==
        LET conflict == done.last_bank[input.port] = input.bank
        IN  [last_bank |-> [done.last_bank EXCEPT ![input.port] = input.bank],
             rows |-> Append(done.rows,
                        [start |-> input.timestamp, bank_conflict |-> conflict,
                         total_delay |-> TARGET_SERVICE_DELAY_NS
                           + IF conflict THEN BANK_CONFLICT_DELAY_NS ELSE 0])]
  IN  FoldLeft(replay, [last_bank |-> [port \in {0, 1} |-> -1], rows |-> <<>>], input_rows).rows

(* From the floor and the fraction.                                        *)
python_round(numerator, denominator) ==
  LET floor    == numerator \div denominator
      fraction == 2 * (numerator % denominator)
  IN  IF fraction > denominator THEN floor + 1
      ELSE IF fraction < denominator \/ floor % 2 = 0 THEN floor ELSE floor + 1

cpp_percentile(values, percentile_value) ==
  SortSeq(values, <)[python_round(percentile_value * (Len(values) - 1), 100) + 1]

summarize_workload(workload, rows) ==
  LET latencies == [k \in DOMAIN rows |-> rows[k].total_delay]
      conflicts == Len(SelectSeq(rows, LAMBDA row : row.bank_conflict))
      ends      == {rows[k].start + rows[k].total_delay : k \in DOMAIN rows}
      starts    == {rows[k].start : k \in DOMAIN rows}
  IN  [workload_name |-> workload, num_transactions |-> Len(rows),
       avg_latency |-> (1000 * Sum(latencies)) \div Len(rows),
       p50_latency |-> cpp_percentile(latencies, 50),
       p95_latency |-> cpp_percentile(latencies, 95),
       p99_latency |-> cpp_percentile(latencies, 99),
       max_latency |-> Max(ToSet(latencies)),
       bank_conflict_ratio |-> (100000 * conflicts) \div Len(rows),
       throughput |-> (1000000 * Len(rows)) \div (Max(ends) - Min(starts))]

CppSummary(trace) ==
  summarize_workload(trace.workload, replay_records(validate_trace_table(trace)))

(* write_summary_csv puts no quotes around a name: read back, one with a   *)
(* comma ends there, and every value after it is in the wrong column.      *)
NamesWithComma == {"a,b"}
ReadBack(summary) ==
  IF summary.workload_name \in NamesWithComma
    THEN [summary EXCEPT !.workload_name = "a"] ELSE summary
=============================================================================
