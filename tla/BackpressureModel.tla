------------------------- MODULE BackpressureModel -------------------------
(***************************************************************************)
(* AT-5 step by step: the loop of run_backpressure_model over the schedule.*)
(***************************************************************************)
EXTENDS Backpressure

CONSTANT Options   \* the option records a run may be started with

(* A bound of the model: the program takes any number of transactions, but *)
(* with more than these two of them may share a txn_id, and their order is *)
(* then not that of the model.                                             *)
MaxTransactions == 100000

(* parse_args; the service rate is given as the latency it limits to.      *)
ASSUME OptionsAssumption ==
  Options \subseteq
    [case_name : CaseNames, policy : Policies, num_transactions : 1..MaxTransactions,
     ingress_queue_capacity : Nat \ {0}, downstream_queue_capacity : Nat \ {0},
     memory_service_latency : Nat \ {0}, rate_limited_latency : Nat \ {0}]

VARIABLES
  opt,
  schedule,                     \* the records still to process, in schedule order
  records,                      \* the processed ones
  ingress_release_times,
  downstream_completion_times,
  next_service_available

model == <<ingress_release_times, downstream_completion_times, next_service_available>>
vars  == <<opt, schedule, records, model>>

-----------------------------------------------------------------------------
Init ==
  /\ opt \in Options
  /\ schedule = make_initial_records(opt)
  /\ records = <<>>
  /\ ingress_release_times = Idle.ingress_release_times
  /\ downstream_completion_times = Idle.downstream_completion_times
  /\ next_service_available = Idle.next_service_available

Server == [ingress_release_times |-> ingress_release_times,
           downstream_completion_times |-> downstream_completion_times,
           next_service_available |-> next_service_available]

ProcessRecord ==
  /\ schedule # <<>>
  /\ schedule' = Tail(schedule)
  /\ \E done \in {Process(opt, Server, Head(schedule))} :
       /\ ingress_release_times' = done.server.ingress_release_times
       /\ downstream_completion_times' = done.server.downstream_completion_times
       /\ next_service_available' = done.server.next_service_available
       /\ records' = Append(records, done.record)
  /\ UNCHANGED opt

(* The trace is written and the program ends.                              *)
Finished == schedule = <<>> /\ UNCHANGED vars

Next == ProcessRecord \/ Finished

Spec == Init /\ [][Next]_vars

-----------------------------------------------------------------------------
(***************************************************************************)
(* Properties.                                                             *)
(***************************************************************************)

(* The depth a record reports is within the capacity of the queue, and the *)
(* queue is reported full exactly when that depth reaches it: the two      *)
(* lists never hold more than their capacity.                              *)
ReportedDepthBounded ==
  /\ Cardinality(ingress_release_times) <= opt.ingress_queue_capacity
  /\ Cardinality(downstream_completion_times) <= opt.downstream_queue_capacity
  /\ \A k \in DOMAIN records :
       /\ records[k].ingress_depth <= opt.ingress_queue_capacity
       /\ records[k].ingress_full <=> records[k].ingress_depth = opt.ingress_queue_capacity
       /\ records[k].downstream_depth <= opt.downstream_queue_capacity

(* The requests of one initiator are served in the order they are issued.  *)
InitiatorOrder ==
  \A k, l \in DOMAIN records :
    (records[k].txn[1] = records[l].txn[1] /\ records[k].txn[2] < records[l].txn[2])
      => records[k].service_end <= records[l].service_begin

(* Every record finds the queues within their bounds, and each initiator   *)
(* is served in the order it issued.                                       *)
QueuesRespected == ReportedDepthBounded /\ InitiatorOrder

(* How many records are in the downstream queue or in service at the time  *)
(* record k enters it, going by the times the trace reports.               *)
DownstreamOccupancy(k) ==
  LET at == records[k].downstream_enqueue
  IN  Cardinality({l \in DOMAIN records : /\ records[l].downstream_enqueue <= at
                                          /\ at < records[l].service_end})

(* "bounded ingress/downstream queues": the trace never shows more records *)
(* in the downstream queue than its capacity.                              *)
DownstreamBounded ==
  \A k \in DOMAIN records : DownstreamOccupancy(k) <= opt.downstream_queue_capacity
=============================================================================
