------------------------------ MODULE ProjectE ------------------------------
(***************************************************************************)
(* The banked memory model of Project E,                                   *)
(* examples/lt/banked_memory_controller_cpp: requests go to banks by       *)
(* address, each bank serves one at a time, remembers the row it has open  *)
(* and refuses a request while queue_depth of them are unfinished.         *)
(*                                                                         *)
(* Times are in nanoseconds: those of the traces and latencies used here   *)
(* are whole.                                                              *)
(***************************************************************************)
EXTENDS Integers, Sequences, SequencesExt, FiniteSetsExt, TLC

NoRow == -1

bank_id_for_address(address, options) ==
  LET unit == IF options.address_mapping = "word_interleave"
                THEN options.interleave_bytes ELSE options.row_size_bytes
  IN  (address \div unit) % options.bank_count

row_id_for_address(address, options) == address \div options.row_size_bytes

(* In hundredths; halves go to the even neighbour.                         *)
python_round(hundredths) ==
  LET floor == hundredths \div 100
      fraction == hundredths % 100
  IN  IF fraction > 50 \/ (fraction = 50 /\ floor % 2 = 1) THEN floor + 1 ELSE floor

percentile(values, pct) ==
  IF values = <<>> THEN 0
  ELSE SortSeq(values, <)[1 + python_round(pct * (Len(values) - 1))]

request_sort_less(left, right) ==
  \/ left.timestamp < right.timestamp
  \/ left.timestamp = right.timestamp /\ left.txn_id < right.txn_id

IdleBank == [busy_until |-> 0, busy_time |-> 0, open_row |-> NoRow, completion_times |-> <<>>]

(* A row of the trace, without the columns nothing is computed from.       *)
Rejected(request, bank_id, occupancy) ==
  [bank_id |-> bank_id, timestamp |-> request.timestamp, accepted |-> FALSE,
   row_hit |-> FALSE, queue_occupancy_after |-> occupancy, queue_delay |-> 0,
   service_latency |-> 0, total_latency |-> 0]

Accepted(request, bank_id, occupancy, hit, start, service) ==
  [bank_id |-> bank_id, timestamp |-> request.timestamp, accepted |-> TRUE,
   row_hit |-> hit, queue_occupancy_after |-> occupancy + 1,
   queue_delay |-> start - request.timestamp, service_latency |-> service,
   total_latency |-> start + service - request.timestamp]

Full(occupancy, options) == occupancy >= options.queue_depth

(* The body of the loop over the requests of a workload.                   *)
ServeRequest(options, banks, request) ==
  LET b       == bank_id_for_address(request.address, options)
      row     == row_id_for_address(request.address, options)
      pending == SelectSeq(banks[b].completion_times, LAMBDA t : t > request.timestamp)
      hit     == banks[b].open_row = row
      service == options.base_service_latency
                   + (IF hit THEN options.row_hit_latency ELSE options.row_miss_latency)
      start   == Max({request.timestamp, banks[b].busy_until})
  IN  IF Full(Len(pending), options)
        THEN [banks |-> [banks EXCEPT ![b].completion_times = pending],
              row |-> Rejected(request, b, Len(pending))]
        ELSE [banks |-> [banks EXCEPT ![b] =
                           [busy_until |-> start + service,
                            busy_time |-> @.busy_time + service, open_row |-> row,
                            completion_times |-> Append(pending, start + service)]],
              row |-> Accepted(request, b, Len(pending), hit, start, service)]

Sum(values) == FoldLeft(LAMBDA sum, value : sum + value, 0, values)
Values(rows, field) == [k \in DOMAIN rows |-> rows[k][field]]
AcceptedRows(rows) == SelectSeq(rows, LAMBDA row : row.accepted)
RowHits(rows) == SelectSeq(rows, LAMBDA row : row.row_hit)

(* Ratios in ten-thousandths, averages in thousandths.                     *)
Ratio(numerator, denominator) == (10000 * numerator) \div denominator

summarize_accepted(options, rows, accepted, latencies, banks) ==
  LET end(row)  == row.timestamp + row.total_latency
      window    == Max({end(accepted[k]) : k \in DOMAIN accepted}) - accepted[1].timestamp
      busy      == Sum([b \in 1..options.bank_count |-> banks[b - 1].busy_time])
  IN  [transactions |-> Len(rows), accepted |-> Len(accepted),
       rejected |-> Len(rows) - Len(accepted),
       avg_latency |-> (1000 * Sum(latencies)) \div Len(accepted),
       p95_latency |-> percentile(latencies, 95),
       bank_utilization |-> Min({10000, Ratio(busy, options.bank_count * window)}),
       max_queue_occupancy |-> Max(ToSet(Values(rows, "queue_occupancy_after"))),
       row_hit_ratio |-> Ratio(Len(RowHits(rows)), Len(accepted))]

summarize_workload(options, rows, banks) ==
  summarize_accepted(options, rows, AcceptedRows(rows),
                     Values(AcceptedRows(rows), "total_latency"), banks)

(* run_banked_memory_model for one workload: the trace rows and the        *)
(* summary row.                                                            *)
ServeAll(options, requests) ==
  LET idle == [b \in 0..(options.bank_count - 1) |-> IdleBank]
  IN  FoldLeft(LAMBDA sofar, request :
                 Append(sofar, ServeRequest(options, IF sofar = <<>> THEN idle
                                                    ELSE Last(sofar).banks, request)),
               <<>>, SortSeq(requests, request_sort_less))

Tables(options, served) ==
  [rows |-> Values(served, "row"),
   summary |-> summarize_workload(options, Values(served, "row"), Last(served).banks)]

run_banked_memory_model(options, requests) == Tables(options, ServeAll(options, requests))
=============================================================================
