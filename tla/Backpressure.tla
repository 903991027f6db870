---------------------------- MODULE Backpressure ----------------------------
(***************************************************************************)
(* AT-5, examples/at/project_at5_backpressure_qos_collapse.cpp: a model of *)
(* three initiators, a bounded ingress queue, a bounded downstream queue   *)
(* and one server, computed record by record.  A record is scheduled by    *)
(* its begin time plus a bias of the policy, so the records are not        *)
(* processed in the order of their times.  This module is the arithmetic   *)
(* of one record; BackpressureModel runs it over a schedule and At5Lab     *)
(* over the cases of the demonstration.                                    *)
(*                                                                         *)
(* Times are in units of 0.1 ps, in which every constant of the program    *)
(* and, but for rates that do not divide 1000, every product is a whole    *)
(* number.  Addresses and sizes decide nothing here and are left out.      *)
(***************************************************************************)
EXTENDS Integers, SequencesExt

Tick(tenths) == tenths * 1000     \* tenths of a nanosecond

CaseNames == {"baseline_balanced_rr", "strict_priority_helps_cpu",
              "strict_priority_starves_dma", "downstream_saturation_qos_collapse",
              "small_queue_backpressure", "throttled_dma_recovers_sla",
              "bursty_accel_tail_spike"}
Policies == {"round_robin", "strict_priority", "weighted_priority", "throttled_dma",
             "backpressure_aware"}
Initiators == 0..2                \* cpu_rt, dma_bulk, accel_burst

-----------------------------------------------------------------------------
(* profile_for: gaps and pauses in ns, factors in percent, one for each    *)
(* initiator; burst_every is 1 but for accel_burst.                        *)
Profile(gaps, every, pause, factors, penalty) ==
  [issue_gap |-> [i \in Initiators |-> Tick(10 * gaps[i + 1])],
   burst_every |-> [i \in Initiators |-> IF i = 2 THEN every ELSE 1],
   burst_pause |-> [i \in Initiators |-> IF i = 2 THEN Tick(10 * pause) ELSE 0],
   service_factor |-> [i \in Initiators |-> factors[i + 1]],
   accel_tail_penalty |-> Tick(10 * penalty)]

Profiles ==
  [strict_priority_helps_cpu |->
     Profile(<<70, 42, 90>>, 4, 28, <<96, 105, 102>>, 8),
   strict_priority_starves_dma |->
     Profile(<<56, 24, 80>>, 4, 24, <<94, 110, 102>>, 10),
   downstream_saturation_qos_collapse |->
     Profile(<<11, 7, 10>>, 3, 6, <<100, 108, 108>>, 18),
   small_queue_backpressure |->
     Profile(<<72, 64, 6>>, 6, 220, <<92, 102, 100>>, 6),
   throttled_dma_recovers_sla |->
     Profile(<<45, 12, 60>>, 4, 24, <<92, 108, 100>>, 8),
   bursty_accel_tail_spike |->
     Profile(<<58, 46, 4>>, 8, 240, <<94, 104, 120>>, 42),
   baseline_balanced_rr |->
     Profile(<<140, 130, 160>>, 4, 80, <<92, 100, 96>>, 4)]

profile_for(case_name) ==
  Profiles[IF case_name \in CaseNames THEN case_name ELSE "baseline_balanced_rr"]

(* apply_policy_shape: gap factors in percent and longer pauses.           *)
GapPercent == [round_robin |-> <<100, 100, 100>>, strict_priority |-> <<100, 100, 100>>,
               weighted_priority |-> <<100, 115, 105>>, throttled_dma |-> <<100, 280, 100>>,
               backpressure_aware |-> <<100, 180, 125>>]
LongerPause == [round_robin |-> <<0, 0, 0>>, strict_priority |-> <<0, 0, 0>>,
                weighted_priority |-> <<0, 0, 0>>, throttled_dma |-> <<0, 180, 0>>,
                backpressure_aware |-> <<0, 0, 160>>]

Shaped(profile, policy) ==
  [profile EXCEPT
     !.issue_gap = [i \in Initiators |-> (@[i] * GapPercent[policy][i + 1]) \div 100],
     !.burst_pause = [i \in Initiators |-> @[i] + Tick(LongerPause[policy][i + 1])]]

issue_time_for(o, profile, i, n) ==
  LET jitter == ((n + i * 5) % 4) * Tick(3)
      offset == i * 7500
      pauses == IF profile.burst_every[i] > 1
                  THEN (n \div profile.burst_every[i]) * profile.burst_pause[i] ELSE 0
      time   == n * profile.issue_gap[i] + offset + jitter + pauses
  IN  IF o.case_name = "strict_priority_helps_cpu" /\ i = 0
        THEN 23 * (time \div 25) ELSE time

Bias == [round_robin |-> <<0, 0, 0>>, strict_priority |-> <<-180, 320, 50>>,
         weighted_priority |-> <<-70, 90, 20>>, throttled_dma |-> <<-50, 180, 30>>,
         backpressure_aware |-> <<-40, 160, 60>>]

(* Mutant: the spread of weighted_priority is a hundred times what it is.  *)
policy_bias_Spread(policy, i, n) ==
  Tick(Bias[policy][i + 1]) + (IF policy = "weighted_priority" THEN (n % 3) * 350000 ELSE 0)

policy_bias(policy, i, n) ==
  Tick(Bias[policy][i + 1]) +
    [round_robin |-> ((n + i) % 3) * 4000, strict_priority |-> 0,
     weighted_priority |-> (n % 3) * 3500, throttled_dma |-> 0,
     backpressure_aware |-> (n % 4) * 2500][policy]

arbitration_delay(policy, i) ==
  IF policy = "strict_priority" THEN Tick(<<10, 30, 20>>[i + 1])
  ELSE IF policy = "backpressure_aware" THEN Tick(<<12, 24, 24>>[i + 1])
  ELSE Tick(10) + i * 2500

service_time_for(o, profile, i, n) ==
  LET slowest == IF o.memory_service_latency < o.rate_limited_latency
                   THEN o.rate_limited_latency ELSE o.memory_service_latency
      tail == IF o.case_name = "bursty_accel_tail_spike" /\ i = 2 /\ n % 8 >= 5
                THEN profile.accel_tail_penalty ELSE 0
      time == (slowest * profile.service_factor[i]) \div 100 + tail
  IN  IF o.policy = "backpressure_aware" /\ i # 0 THEN (49 * time) \div 50 ELSE time

(* make_initial_records; a transaction is <<initiator, n>>, which orders   *)
(* as its txn_id does.                                                     *)
Before(a, b) ==
  \/ a.schedule_key < b.schedule_key
  \/ a.schedule_key = b.schedule_key /\ a.begin_req < b.begin_req
  \/ /\ a.schedule_key = b.schedule_key /\ a.begin_req = b.begin_req
     /\ a.txn[1] < b.txn[1] \/ (a.txn[1] = b.txn[1] /\ a.txn[2] < b.txn[2])

Issued(i, n, begin_req, bias) ==
  [txn |-> <<i, n>>, begin_req |-> begin_req, schedule_key |-> begin_req + bias]
all_records(o) ==
  LET profile == Shaped(profile_for(o.case_name), o.policy)
  IN  {Issued(i, n, issue_time_for(o, profile, i, n), policy_bias(o.policy, i, n)) :
         i \in Initiators, n \in 0..(o.num_transactions - 1)}

(* The sorted records: place k is that of the one with k - 1 before it.    *)
Ranked(all) ==
  {[rank |-> Cardinality({q \in all : Before(q, r)}), record |-> r] : r \in all}
make_initial_records(o) ==
  LET ranked == Ranked(all_records(o))
  IN  [k \in 1..Cardinality(all_records(o)) |->
         (CHOOSE x \in ranked : x.rank = k - 1).record]

-----------------------------------------------------------------------------
Later(a, b) == IF a < b THEN b ELSE a

(* The lists of end times: their order means nothing, so a list is the set *)
(* of its entries, each with the transaction that made it.                 *)
remove_completed(times, time) == {e \in times : e.until > time}
earliest_time(times) ==
  CHOOSE t \in {e.until : e \in times} : \A e \in times : t <= e.until

(* Who enters a full queue waits for the earliest release.                 *)
EntryTime(waiting, capacity, candidate) ==
  IF Cardinality(waiting) >= capacity
    THEN Later(candidate, earliest_time(waiting)) ELSE candidate
(* Mutant: the full queue is entered without waiting.                      *)
EntryTime_NoWait(waiting, capacity, candidate) == candidate

Entered(waiting, capacity, entry) ==
  [full |-> Cardinality(waiting) >= capacity, depth |-> Cardinality(waiting),
   at |-> entry, times |-> remove_completed(waiting, entry)]
Waited(waiting, capacity, candidate) ==
  Entered(waiting, capacity, EntryTime(waiting, capacity, candidate))
(* What both queues do with a record that arrives at `candidate'.          *)
Enter(times, capacity, candidate) ==
  Waited(remove_completed(times, candidate), capacity, candidate)
push_back(times, txn, until) == times \cup {[txn |-> txn, until |-> until]}

ServiceBegin(enqueue, available) == Later(enqueue, available)

(* backpressure_stall_ns: the three waits.                                 *)
Stall(arrival, ingress_at, downstream_at, begin) ==
  (ingress_at - arrival) + (downstream_at - ingress_at - Tick(10))
    + (begin - downstream_at)

(* The lists and the server before the first record.                       *)
Idle == [ingress_release_times |-> {}, downstream_completion_times |-> {},
         next_service_available |-> 0]

(* The loop of run_backpressure_model, for one record: it enters the       *)
(* ingress queue, then the downstream queue, and is served.                *)
Served(o, record, ingress, downstream, begin, service, stall) ==
  [server |->
     [ingress_release_times |-> push_back(ingress.times, record.txn, downstream.at),
      downstream_completion_times |-> push_back(downstream.times, record.txn, begin + service),
      next_service_available |-> begin + service],
   record |->
     [txn |-> record.txn, begin_req |-> record.begin_req,
      ingress_enqueue |-> ingress.at, ingress_full |-> ingress.full,
      ingress_depth |-> ingress.depth,
      downstream_enqueue |-> downstream.at, downstream_full |-> downstream.full,
      downstream_depth |-> downstream.depth,
      service_begin |-> begin, service_end |-> begin + service,
      observed_service_time |-> service, end_resp |-> begin + service + Tick(20),
      stall |-> stall, blocked |-> stall + arbitration_delay(o.policy, record.txn[1])]]
Serve(o, record, arrival, ingress, downstream, begin) ==
  Served(o, record, ingress, downstream, begin,
         service_time_for(o, profile_for(o.case_name), record.txn[1], record.txn[2]),
         Stall(arrival, ingress.at, downstream.at, begin))
EnterServer(o, server, record, arrival, ingress, downstream) ==
  Serve(o, record, arrival, ingress, downstream,
        ServiceBegin(downstream.at, server.next_service_available))
EnterDownstream(o, server, record, arrival, ingress) ==
  EnterServer(o, server, record, arrival, ingress,
              Enter(server.downstream_completion_times, o.downstream_queue_capacity,
                    ingress.at + Tick(10)))
EnterIngress(o, server, record, arrival) ==
  EnterDownstream(o, server, record, arrival,
                  Enter(server.ingress_release_times, o.ingress_queue_capacity, arrival))
Process(o, server, record) ==
  EnterIngress(o, server, record,
               record.begin_req + arbitration_delay(o.policy, record.txn[1]))
=============================================================================
