----------------------------- MODULE CacheMshr -----------------------------
(***************************************************************************)
(* AT-4, examples/at/project_at4_cache_mshr_pressure.cpp: three initiators *)
(* share a cache whose misses occupy MSHR entries.  A run is a function of *)
(* its options: the records are made, sorted by begin time and processed   *)
(* one after the other against the list of the end times of the misses in  *)
(* flight.                                                                 *)
(*                                                                         *)
(* Times are whole numbers of ticks.  options.grid is the number of ticks  *)
(* in a nanosecond, large enough for every product of the run to be whole. *)
(* Addresses, sizes and the pattern class decide nothing and are left out. *)
(***************************************************************************)
EXTENDS Integers, SequencesExt, TLC

CaseNames == {"cpu_latency_sensitive_hotset", "dma_streaming_pollution",
              "accel_tiled_reuse", "mixed_cpu_dma_accel_interference",
              "low_mshr_capacity_pressure", "high_mshr_diminishing_return",
              "slow_memory_mshr_saturation"}
Initiators == 0..2                \* cpu0, dma0, accel0

(* parse_args: what a run may be started with.  The latencies are in ns.   *)
ValidOptions ==
  [case_name : CaseNames, num_transactions_per_initiator : Nat \ {0},
   mshr_capacity : Nat \ {0}, cache_like_capacity : Nat \ {0},
   memory_service_latency : Nat \ {0}, hit_latency : Nat \ {0},
   grid : {100000, 1000000}]

Least(a, b) == IF b < a THEN b ELSE a
Greatest(a, b) == IF a < b THEN b ELSE a
clamp(value, low, high) == Greatest(low, Least(value, high))

(* profile_for: rates and scores in hundredths, gaps and pauses in ns.     *)
Profile(rates, gaps, every, pauses, pollution, interference, seed) ==
  [hit_rate |-> rates, issue_gap |-> gaps, burst_every |-> every,
   burst_pause |-> pauses, pollution_proxy |-> pollution,
   interference_score |-> interference, seed |-> seed]

profile_for(case_name) ==
  CASE case_name = "cpu_latency_sensitive_hotset" ->
         Profile(<<88, 16, 74>>, <<9, 18, 13>>, <<1, 1, 4>>, <<0, 0, 14>>, 15, 12, 11)
    [] case_name = "dma_streaming_pollution" ->
         Profile(<<58, 5, 60>>, <<7, 3, 10>>, <<1, 1, 3>>, <<0, 0, 9>>, 78, 56, 23)
    [] case_name = "accel_tiled_reuse" ->
         Profile(<<70, 12, 86>>, <<10, 18, 5>>, <<1, 1, 8>>, <<0, 0, 22>>, 24, 22, 31)
    [] case_name = "mixed_cpu_dma_accel_interference" ->
         Profile(<<48, 4, 58>>, <<5, 2, 4>>, <<2, 1, 4>>, <<7, 0, 11>>, 92, 76, 43)
    [] case_name = "low_mshr_capacity_pressure" ->
         Profile(<<42, 4, 52>>, <<2, 1, 2>>, <<2, 1, 3>>, <<4, 0, 6>>, 88, 84, 59)
    [] case_name = "high_mshr_diminishing_return" ->
         Profile(<<48, 4, 58>>, <<2, 1, 2>>, <<2, 1, 3>>, <<4, 0, 6>>, 82, 68, 71)
    [] case_name = "slow_memory_mshr_saturation" ->
         Profile(<<50, 8, 55>>, <<3, 2, 3>>, <<2, 1, 4>>, <<5, 0, 8>>, 72, 66, 89)

issue_time_for(o, profile, i, n) ==
  LET pauses == IF profile.burst_every[i + 1] > 1
                  THEN (n \div profile.burst_every[i + 1]) * profile.burst_pause[i + 1]
                  ELSE 0
      time   == (n * profile.issue_gap[i + 1] + pauses) * o.grid
                  + ((n + 3 * i) % 3) * (o.grid \div 4)
  IN  IF o.case_name = "cpu_latency_sensitive_hotset" /\ i = 0
        THEN 17 * (time \div 20) ELSE time

(* The threshold and the score in ten-thousandths; a capacity of 64 lines  *)
(* is neutral.                                                             *)
is_hit(o, profile, i, n) ==
  LET adjust    == ((o.cache_like_capacity - 64) * 125) \div 8
      penalty   == IF i = 1 THEN 0 ELSE 8 * profile.pollution_proxy
      threshold == clamp(100 * profile.hit_rate[i + 1] + adjust - penalty, 200, 9500)
      score     == (37 * n + 17 * i + profile.seed) % 100
  IN  100 * score < threshold

service_delay_for(o, profile, i) ==
  LET stretch == 10000 + profile.pollution_proxy * (IF i = 1 THEN 5 ELSE 3)
  IN  (o.memory_service_latency * <<100, 108, 96>>[i + 1] * stretch)
        \div (1000000 \div o.grid)

remove_completed(active, time) == SelectSeq(active, LAMBDA t : t > time)

(* make_initial_records; <<initiator, n>> orders as the txn_id does.  The  *)
(* scores are in ten-thousandths.                                          *)
Before(a, b) ==
  \/ a.begin_req < b.begin_req
  \/ /\ a.begin_req = b.begin_req
     /\ a.txn[1] < b.txn[1] \/ (a.txn[1] = b.txn[1] /\ a.txn[2] < b.txn[2])

make_initial_records(o) ==
  LET profile == profile_for(o.case_name)
      count   == o.num_transactions_per_initiator
      initial(i, n) == [txn |-> <<i, n>>, hit |-> is_hit(o, profile, i, n),
                        begin_req |-> issue_time_for(o, profile, i, n)]
  IN  SortSeq([k \in 1..(3 * count) |-> initial((k - 1) \div count, (k - 1) % count)],
              Before)

pollution_proxy(o, i) ==
  clamp(100 * profile_for(o.case_name).pollution_proxy + (IF i = 1 THEN 800 ELSE 0)
          - 5 * o.cache_like_capacity, 0, 10000)
interference_score(o) ==
  clamp(100 * profile_for(o.case_name).interference_score
          + (IF o.mshr_capacity <= 2 THEN 1000 ELSE 0)
          + (IF o.memory_service_latency >= 90 THEN 800 ELSE 0), 0, 10000)

-----------------------------------------------------------------------------
(* The loop of run_shared_resource_model, for one record: active is the    *)
(* list active_miss_end_times before it, and the result holds the list     *)
(* after it.                                                               *)
Arrive(o, active, record) ==
  LET lookup == record.begin_req + 2 * o.grid
      busy   == remove_completed(active, lookup)
  IN  record @@ [cache_lookup_done |-> lookup, active |-> busy, occupancy |-> Len(busy)]

HitRecord(o, profile, r) ==
  LET surcharge == r.occupancy * profile.interference_score * 35 * (o.grid \div 10000)
      resp      == r.cache_lookup_done + o.hit_latency * o.grid + surcharge
  IN  r @@ [mshr_grant |-> r.cache_lookup_done, memory_begin |-> r.cache_lookup_done,
            memory_end |-> r.cache_lookup_done, begin_resp |-> resp,
            end_resp |-> resp + o.grid, mshr_full |-> FALSE, peak |-> r.occupancy,
            miss_queue_delay |-> 0, memory_service_delay |-> 0, blocked |-> surcharge]

(* Mutant: one miss more than there are entries.                           *)
Granted_OneTooMany(o, r) ==
  LET full  == Len(r.active) > o.mshr_capacity
      grant == IF full THEN Min(ToSet(r.active)) ELSE r.cache_lookup_done
  IN  [full |-> full, at |-> grant, active |-> remove_completed(r.active, grant)]

(* A miss that finds every entry taken waits for the earliest to end.      *)
Granted(o, r) ==
  LET full  == Len(r.active) >= o.mshr_capacity
      grant == IF full THEN Min(ToSet(r.active)) ELSE r.cache_lookup_done
  IN  [full |-> full, at |-> grant,
       active |-> IF full THEN remove_completed(r.active, grant) ELSE r.active]

(* Mutant: a miss that waits does not count as blocked.                    *)
MissRecord_NotBlocked(o, profile, r) ==
  LET granted == Granted(o, r)
      service == service_delay_for(o, profile, r.txn[1])
      end     == granted.at + service
      active  == Append(granted.active, end)
  IN  [r EXCEPT !.active = active] @@
        [mshr_grant |-> granted.at, memory_begin |-> granted.at, memory_end |-> end,
         begin_resp |-> end, end_resp |-> end + o.grid, mshr_full |-> granted.full,
         peak |-> Greatest(r.occupancy, Len(active)),
         miss_queue_delay |-> Greatest(0, granted.at - r.cache_lookup_done),
         memory_service_delay |-> service, blocked |-> 0]

MissRecord(o, profile, r) ==
  LET granted == Granted(o, r)
      service == service_delay_for(o, profile, r.txn[1])
      end     == granted.at + service
      active  == Append(granted.active, end)
      wait    == Greatest(0, granted.at - r.cache_lookup_done)
  IN  [r EXCEPT !.active = active] @@
        [mshr_grant |-> granted.at, memory_begin |-> granted.at, memory_end |-> end,
         begin_resp |-> end, end_resp |-> end + o.grid, mshr_full |-> granted.full,
         peak |-> Greatest(r.occupancy, Len(active)), miss_queue_delay |-> wait,
         memory_service_delay |-> service, blocked |-> wait]

ProcessRecord(o, active, record) ==
  LET profile == profile_for(o.case_name)
      arrived == Arrive(o, active, record)
  IN  IF record.hit THEN HitRecord(o, profile, arrived) ELSE MissRecord(o, profile, arrived)

run_shared_resource_model(o) ==
  FoldLeft(LAMBDA done, record :
             Append(done, ProcessRecord(o, IF done = <<>> THEN <<>> ELSE Last(done).active,
                                        record)),
           <<>>, make_initial_records(o))
=============================================================================
