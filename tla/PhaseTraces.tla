----------------------------- MODULE PhaseTraces -----------------------------
(***************************************************************************)
(* The phase traces the AT smoke lab can write, and what                   *)
(* examples/at/tools/analyze_phase_trace.py makes of one.                  *)
(*                                                                         *)
(* The module AtLab, with all its threads, finds exactly these traces: its *)
(* property PolicyEffect says so.  A row is a transaction, a phase and a   *)
(* time in nanoseconds; the analyzer's numbers are in thousandths, as many *)
(* as it prints.                                                           *)
(***************************************************************************)
EXTENDS Naturals, Sequences

LOCAL INSTANCE FiniteSets
LOCAL INSTANCE FiniteSetsExt
LOCAL INSTANCE SequencesExt

Initiators == {101, 102}
Other(i)   == 203 - i
Policies   == {"fifo", "priority_101", "priority_102"}
PHASES     == {"BEGIN_REQ", "END_REQ", "BEGIN_RESP", "END_RESP"}

-----------------------------------------------------------------------------
(* The order of service when first issues first; 1 is the WRITE and 2 the  *)
(* READ.  The bus looks for the next request while the preferred initiator *)
(* is about to issue its READ: it finds it or serves the other one.        *)
ServiceOrders(policy, first) ==
  IF policy = "fifo"
    THEN {<< <<first, 1>>, <<Other(first), 1>>, <<first, 2>>, <<Other(first), 2>> >>}
    ELSE LET p == IF policy = "priority_101" THEN 101 ELSE 102
             q == Other(p)
         IN  {<< <<p, 1>>, <<p, 2>>, <<q, 1>>, <<q, 2>> >>,
              << <<p, 1>>, <<q, 1>>, <<p, 2>>, <<q, 2>> >>}

TraceOf(first, order) ==
  LET row(t, phase, time) == [txn |-> t, phase |-> phase, time |-> time]
      service(k) == <<row(order[k], "END_REQ", 5 * k - 4),
                      row(order[k], "BEGIN_RESP", 5 * k),
                      row(order[k], "END_RESP", 5 * k)>>
      issue(k) == IF order[k][2] = 1
                    THEN <<row(<<order[k][1], 2>>, "BEGIN_REQ", 5 * k)>> ELSE <<>>
  IN  <<row(<<first, 1>>, "BEGIN_REQ", 0), row(<<Other(first), 1>>, "BEGIN_REQ", 0)>>
        \o FlattenSeq([k \in 1..4 |-> service(k) \o issue(k)])

Traces(policy) ==
  UNION {{TraceOf(first, order) : order \in ServiceOrders(policy, first)} :
           first \in Initiators}

-----------------------------------------------------------------------------
(* The analyzer: rows is the trace it was given.                           *)
Transactions(rows) == {rows[k].txn : k \in DOMAIN rows}

RowsOf(rows, t) == {k \in DOMAIN rows : rows[k].txn = t}

PhaseRows(rows, t, phase) == {k \in RowsOf(rows, t) : rows[k].phase = phase}

(* phase_event: the first row of the phase.                                *)
phase_event(rows, t, phase) == Min(PhaseRows(rows, t, phase))
Has(rows, t, phase) == PhaseRows(rows, t, phase) # {}

(* event_sort_key                                                          *)
SortsBefore(rows, k, l) ==
  rows[k].time < rows[l].time \/ (rows[k].time = rows[l].time /\ k < l)

Precedence ==
  {<<"BEGIN_REQ", "END_REQ">>, <<"END_REQ", "BEGIN_RESP">>, <<"BEGIN_RESP", "END_RESP">>}

(* Mutant: a transaction is sane if no phase comes twice.                  *)
sanity_issues_MissingAllowed(rows, t) ==
  Cardinality({p \in PHASES : Cardinality(PhaseRows(rows, t, p)) > 1})

(* The number of sanity issues of a transaction; command and address of    *)
(* its rows never differ here.                                             *)
sanity_issues(rows, t) ==
  LET adjacent(k, l) == k < l /\ \A m \in RowsOf(rows, t) : ~(k < m /\ m < l)
  IN  Cardinality({p \in PHASES : Cardinality(PhaseRows(rows, t, p)) # 1})
        + Cardinality({pair \in RowsOf(rows, t) \X RowsOf(rows, t) :
                         /\ adjacent(pair[1], pair[2])
                         /\ rows[pair[2]].time < rows[pair[1]].time})
        + Cardinality({pair \in Precedence :
                         /\ Has(rows, t, pair[1]) /\ Has(rows, t, pair[2])
                         /\ SortsBefore(rows, phase_event(rows, t, pair[2]),
                                        phase_event(rows, t, pair[1]))})

sanity_failure_count(rows) ==
  MapThenSumSet(LAMBDA t : sanity_issues(rows, t), Transactions(rows))
    + IF rows = <<>> THEN 1 ELSE 0

(* latency, with metric_or_zero.                                           *)
latency(rows, t, from, to) ==
  IF Has(rows, t, from) /\ Has(rows, t, to)
    THEN rows[phase_event(rows, t, to)].time - rows[phase_event(rows, t, from)].time
    ELSE 0

complete_summaries(rows) == {t \in Transactions(rows) : sanity_issues(rows, t) = 0}

(* total / n, printed with three digits; with n at most 4 there is no tie. *)
Printed(total, n) == (2000 * total + n) \div (2 * n)

(* The average of the transactions of txns, 0 without any.                 *)
average_decimal(rows, txns, from, to) ==
  IF txns = {} THEN 0
  ELSE Printed(MapThenSumSet(LAMBDA t : latency(rows, t, from, to), txns), Cardinality(txns))

summary_metrics(rows) ==
  LET complete == complete_summaries(rows)
  IN  [total_transactions |-> Cardinality(Transactions(rows)),
       complete_transactions |-> Cardinality(complete),
       total_phase_events |-> Len(rows),
       sanity_failure_count |-> sanity_failure_count(rows),
       avg_request_accept_latency |->
         average_decimal(rows, complete, "BEGIN_REQ", "END_REQ"),
       avg_response_latency |->
         average_decimal(rows, complete, "END_REQ", "BEGIN_RESP"),
       avg_total_transaction_latency |->
         average_decimal(rows, complete, "BEGIN_REQ", "END_RESP"),
       max_total_transaction_latency |->
         Max({0} \cup {1000 * latency(rows, t, "BEGIN_REQ", "END_RESP") : t \in complete})]

(* The rows of timeline.csv; a set without an element stands for NA.       *)
timeline(rows) ==
  [t \in Transactions(rows) |->
     [request_accept_latency |->
        IF Has(rows, t, "BEGIN_REQ") /\ Has(rows, t, "END_REQ")
          THEN {latency(rows, t, "BEGIN_REQ", "END_REQ")} ELSE {},
      sanity_issues |-> sanity_issues(rows, t)]]

-----------------------------------------------------------------------------
(* The above, tabulated: the traces of each policy, and what the analyzer  *)
(* makes of each of them and of those that are cut short.                  *)
TracesUnder == [p \in Policies |-> Traces(p)]

Analysis ==
  LET AllTraces == UNION {TracesUnder[p] : p \in Policies}
  IN  [rows \in {SubSeq(t, 1, n) : t \in AllTraces, n \in 0..16} |->
         [metrics |-> summary_metrics(rows), timeline |-> timeline(rows)]]
=============================================================================
