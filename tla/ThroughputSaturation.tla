------------------------ MODULE ThroughputSaturation ------------------------
(***************************************************************************)
(* AT-7, examples/at/project_at7_gpu_like_throughput_saturation.cpp: lanes *)
(* that issue requests under three limits (outstanding per lane,           *)
(* outstanding in all, queue capacity), a FIFO and one server, driven by   *)
(* an event loop that jumps to the next time at which something can happen. *)
(*                                                                         *)
(* One action is one round of one of the loops in run_case.  Times are in  *)
(* ticks of 0.001 ns, in which every constant of the program is whole, so  *)
(* kEpsilon, the tolerance for rounding, has nothing to do here.  The      *)
(* peaks, stall_events and the latency-hiding estimate only summarise the  *)
(* state and are left out.                                                 *)
(***************************************************************************)
EXTENDS Integers, Sequences, FiniteSets

CONSTANT Cases   \* the CaseSpecs run_case is called with

ASSUME CasesAssumption ==
  Cases \subseteq
    [num_lanes : Nat \ {0}, requests_per_lane : Nat \ {0},
     outstanding_limit_per_lane : Nat \ {0}, global_outstanding_limit : Nat \ {0},
     burst_length : Nat \ {0}, compute_gap : Nat, intra_burst_gap : Nat,
     transfer_time : Nat, memory_service_time : Nat \ {0},
     queue_capacity : Nat \ {0}]

VARIABLES
  spec,
  time,
  generated,            \* of the LaneStates, lane by lane
  outstanding,
  next_issue_ready,
  blocked_since,
  blocked_issue_stall,
  memory_queue,
  current_service,      \* at most one request
  global_outstanding,
  completed,
  progress,
  stage,                \* the loop run_case is in, or how it ended
  last_lane,            \* the lane issue_ready_requests was at, -1 at its start
  queue_depth_area,
  outstanding_area,
  queue_delay_total,    \* over the records: of queue_delay_ns
  latency_total         \* and of latency_ns

lanes  == <<generated, outstanding, next_issue_ready, blocked_since, blocked_issue_stall>>
memory == <<memory_queue, current_service>>
totals == <<queue_depth_area, outstanding_area, queue_delay_total, latency_total>>
vars   == <<spec, time, lanes, memory, global_outstanding, completed, progress, stage,
            last_lane, totals>>

(* default_cases.                                                          *)
Case(n, requests, per_lane, global, burst, compute, intra, capacity) ==
  [num_lanes |-> n, requests_per_lane |-> requests,
   outstanding_limit_per_lane |-> per_lane, global_outstanding_limit |-> global,
   burst_length |-> burst, compute_gap |-> compute * 1000,
   intra_burst_gap |-> intra * 10, transfer_time |-> 2000,
   memory_service_time |-> 10000, queue_capacity |-> capacity]

default_cases ==
  {Case( 2, 40, 2,  4, 1,  90, 35, 16),    \* low_occupancy
   Case( 4, 64, 4, 16, 2, 145, 35, 32),    \* balanced_occupancy
   Case( 8, 64, 6, 32, 2, 100, 30, 48),    \* high_occupancy
   Case(12, 64, 8, 64, 3,  90, 25, 72),    \* bandwidth_saturation
   Case( 8, 64, 8, 48, 8, 180, 25, 40),    \* bursty_stress
   Case( 8, 64, 4, 20, 2, 130, 35, 48)}    \* throttled_occupancy

Lanes == 0..(spec.num_lanes - 1)

NotBlocked == -1

service_delay(request) ==
  spec.memory_service_time + spec.transfer_time
    + ((request.lane * 13 + request.sequence * 7) % 6) * 180

Init ==
  /\ spec \in Cases
  /\ time = 0
  /\ generated = [l \in Lanes |-> 0]
  /\ outstanding = [l \in Lanes |-> 0]
  /\ next_issue_ready = [l \in Lanes |-> l * 550]
  /\ blocked_since = [l \in Lanes |-> NotBlocked]
  /\ blocked_issue_stall = [l \in Lanes |-> 0]
  /\ memory_queue = <<>>
  /\ current_service = <<>>
  /\ global_outstanding = 0
  /\ completed = 0
  /\ progress = FALSE
  /\ stage = "serve"
  /\ last_lane = -1
  /\ queue_depth_area = 0
  /\ outstanding_area = 0
  /\ queue_delay_total = 0
  /\ latency_total = 0

(* A std::runtime_error ends the program.                                  *)
Throw ==
  /\ stage' = "threw"
  /\ UNCHANGED <<spec, time, lanes, memory, global_outstanding, completed, progress,
                 last_lane, totals>>

-----------------------------------------------------------------------------
(* The memory: complete_current_service and start_service_if_idle.         *)

ServiceEnded == current_service # <<>> /\ current_service[1].service_end <= time

(* Mutant: the lane's count is not reduced.                                *)
CompleteService_LaneKept ==
  /\ stage = "serve"
  /\ ServiceEnded
  /\ LET r == current_service[1]
     IN  /\ global_outstanding' = global_outstanding - 1
         /\ completed' = completed + 1
         /\ latency_total' = latency_total + r.service_end - r.issue_time
         /\ current_service' = <<>>
         /\ progress' = TRUE
         /\ UNCHANGED <<spec, time, lanes, memory_queue, stage, last_lane,
                        queue_depth_area, outstanding_area, queue_delay_total>>

CompleteService ==
  /\ stage = "serve"
  /\ ServiceEnded
  /\ LET r == current_service[1]
     IN  IF outstanding[r.lane] = 0 \/ global_outstanding = 0
           THEN Throw
           ELSE /\ outstanding' = [outstanding EXCEPT ![r.lane] = @ - 1]
                /\ global_outstanding' = global_outstanding - 1
                /\ completed' = completed + 1
                /\ latency_total' = latency_total + r.service_end - r.issue_time
                /\ current_service' = <<>>
                /\ progress' = TRUE
                /\ UNCHANGED <<spec, time, generated, next_issue_ready, blocked_since,
                               blocked_issue_stall, memory_queue, stage, last_lane,
                               queue_depth_area, outstanding_area, queue_delay_total>>

CanStart == current_service = <<>> /\ memory_queue # <<>>

StartService ==
  /\ stage \in {"serve", "restart"}
  /\ CanStart
  /\ LET r == Head(memory_queue)
     IN  /\ current_service' =
              <<[lane |-> r.lane, issue_time |-> r.issue_time,
                 service_end |-> time + service_delay(r)]>>
         /\ queue_delay_total' = queue_delay_total + time - r.issue_time
  /\ memory_queue' = Tail(memory_queue)
  /\ progress' = TRUE
  /\ UNCHANGED <<spec, time, lanes, global_outstanding, completed, stage, last_lane,
                 queue_depth_area, outstanding_area, latency_total>>

(* Nothing left to complete or to start: issue_ready_requests is called.   *)
ServiceSettled ==
  /\ stage = "serve"
  /\ ~ServiceEnded /\ ~CanStart
  /\ stage' = "issue"
  /\ last_lane' = -1
  /\ UNCHANGED <<spec, time, lanes, memory, global_outstanding, completed, progress,
                 totals>>

-----------------------------------------------------------------------------
(* issue_ready_requests.                                                   *)

ReadyToIssue(l) == generated[l] < spec.requests_per_lane /\ next_issue_ready[l] <= time

can_issue(l) ==
  /\ ReadyToIssue(l)
  /\ outstanding[l] < spec.outstanding_limit_per_lane
  /\ global_outstanding < spec.global_outstanding_limit
  /\ Len(memory_queue) < spec.queue_capacity

(* The passes over the lanes, repeated while one of them issues, visit the *)
(* lanes that can issue in cyclic order.                                   *)
NextLane(l) ==
  LET after == {k \in Lanes : k > last_lane /\ can_issue(k)}
      able  == IF after = {} THEN {k \in Lanes : can_issue(k)} ELSE after
  IN  l \in able /\ \A k \in able : l <= k

(* close_blocked_interval.                                                 *)
CloseBlocked(l) ==
  /\ blocked_since' = [blocked_since EXCEPT ![l] = NotBlocked]
  /\ blocked_issue_stall' = [blocked_issue_stall EXCEPT
       ![l] = IF blocked_since[l] = NotBlocked THEN @ ELSE @ + time - blocked_since[l]]

IssueRequest(l) ==
  /\ stage = "issue"
  /\ NextLane(l)
  /\ CloseBlocked(l)
  /\ memory_queue' = Append(memory_queue, [lane |-> l, sequence |-> generated[l],
                                           issue_time |-> time])
  /\ generated' = [generated EXCEPT ![l] = @ + 1]
  /\ outstanding' = [outstanding EXCEPT ![l] = @ + 1]
  /\ global_outstanding' = global_outstanding + 1
  /\ next_issue_ready' = [next_issue_ready EXCEPT
       ![l] = time + (IF (generated[l] + 1) % spec.burst_length = 0
                        THEN spec.compute_gap ELSE spec.intra_burst_gap)]
  /\ last_lane' = l
  /\ progress' = TRUE
  /\ UNCHANGED <<spec, time, current_service, completed, stage, totals>>

(* Mutant: a lane that is blocked by its own limit is not marked.          *)
MarkBlocked_GlobalOnly ==
  /\ stage = "issue"
  /\ \A l \in Lanes : ~can_issue(l)
  /\ blocked_since' = [l \in Lanes |->
       IF /\ ReadyToIssue(l) /\ blocked_since[l] = NotBlocked
          /\ outstanding[l] < spec.outstanding_limit_per_lane
         THEN time ELSE blocked_since[l]]
  /\ stage' = "restart"
  /\ UNCHANGED <<spec, time, generated, outstanding, next_issue_ready,
                 blocked_issue_stall, memory, global_outstanding, completed, progress,
                 last_lane, totals>>

(* A pass without an issue: the lanes that are ready are now blocked.      *)
MarkBlocked ==
  /\ stage = "issue"
  /\ \A l \in Lanes : ~can_issue(l)
  /\ blocked_since' = [l \in Lanes |->
       IF ReadyToIssue(l) /\ blocked_since[l] = NotBlocked THEN time ELSE blocked_since[l]]
  /\ stage' = "restart"
  /\ UNCHANGED <<spec, time, generated, outstanding, next_issue_ready,
                 blocked_issue_stall, memory, global_outstanding, completed, progress,
                 last_lane, totals>>

-----------------------------------------------------------------------------
(* The end of the event loop's body.                                       *)

HasMore(l) == generated[l] < spec.requests_per_lane

(* A lane that is ready although nothing is under way anywhere asks for    *)
(* another round at the same time.                                         *)
Retry(l) ==
  /\ ReadyToIssue(l)
  /\ current_service = <<>> /\ memory_queue = <<>> /\ outstanding[l] = 0

(* Mutant: the end of the service is not among the next events.            *)
EventTimes_NoService ==
  {next_issue_ready[l] : l \in {k \in Lanes : HasMore(k) /\ next_issue_ready[k] > time}}
    \cup {time : l \in {k \in Lanes : Retry(k)}}

EventTimes ==
  {current_service[k].service_end : k \in DOMAIN current_service}
    \cup {next_issue_ready[l] : l \in {k \in Lanes : HasMore(k) /\ next_issue_ready[k] > time}}
    \cup {time : l \in {k \in Lanes : Retry(k)}}

Earliest(times) == CHOOSE t \in times : \A u \in times : t <= u

(* Mutant: the request in service is left out of the outstanding ones.     *)
AdvanceTo_QueueOnly(next) ==
  /\ time' = next
  /\ queue_depth_area' = queue_depth_area + Len(memory_queue) * (next - time)
  /\ outstanding_area' = outstanding_area + Len(memory_queue) * (next - time)
  /\ stage' = "serve"
  /\ progress' = FALSE

AdvanceTo(next) ==
  /\ time' = next
  /\ queue_depth_area' = queue_depth_area + Len(memory_queue) * (next - time)
  /\ outstanding_area' = outstanding_area + global_outstanding * (next - time)
  /\ stage' = "serve"
  /\ progress' = FALSE

Return ==
  /\ stage' = "done"
  /\ UNCHANGED <<time, queue_depth_area, outstanding_area, progress>>

AllCompleted == completed >= spec.num_lanes * spec.requests_per_lane

AdvanceOrReturn ==
  /\ stage = "restart"
  /\ ~CanStart
  /\ IF AllCompleted THEN Return
     ELSE IF EventTimes = {}
       THEN IF \E l \in Lanes : HasMore(l) \/ outstanding[l] > 0
              THEN Throw            \* "no next event while work remains"
              ELSE Return
     ELSE IF Earliest(EventTimes) <= time
       THEN IF ~progress THEN Throw \* "event loop stopped making progress"
                         ELSE AdvanceTo(time + 1)
     ELSE AdvanceTo(Earliest(EventTimes))
  /\ UNCHANGED <<spec, lanes, memory, global_outstanding, completed, last_lane,
                 queue_delay_total, latency_total>>

(* The program goes on to the next case, or has failed.                    *)
Ended == stage \in {"done", "threw"} /\ UNCHANGED vars

Next ==
  \/ CompleteService
  \/ StartService
  \/ ServiceSettled
  \/ \E l \in Lanes : IssueRequest(l)
  \/ MarkBlocked
  \/ AdvanceOrReturn
  \/ Ended

Spec == Init /\ [][Next]_vars

(* A sequential program: nothing keeps it from taking its next step.       *)
FairSpec == Spec /\ WF_vars(Next)
-----------------------------------------------------------------------------
(***************************************************************************)
(* Properties.                                                             *)
(***************************************************************************)

Requests  == [lane : Lanes, sequence : Nat, issue_time : Nat]
InService == [lane : Lanes, issue_time : Nat, service_end : Nat]

(* Every variable has the type the source declares for it.                 *)
TypeOK ==
  /\ spec \in Cases
  /\ time \in Nat
  /\ generated \in [Lanes -> Nat]
  /\ outstanding \in [Lanes -> Nat]
  /\ next_issue_ready \in [Lanes -> Nat]
  /\ blocked_since \in [Lanes -> Nat \cup {NotBlocked}]
  /\ blocked_issue_stall \in [Lanes -> Nat]
  /\ memory_queue \in Seq(Requests)
  /\ current_service \in Seq(InService) /\ Len(current_service) <= 1
  /\ global_outstanding \in Nat
  /\ completed \in Nat
  /\ progress \in BOOLEAN
  /\ stage \in {"serve", "issue", "restart", "done", "threw"}
  /\ last_lane \in Lanes \cup {-1}
  /\ queue_depth_area \in Int /\ outstanding_area \in Int
  /\ queue_delay_total \in Int /\ latency_total \in Int

(* None of the three std::runtime_errors is thrown: no count underflows,   *)
(* there is always a next event while a request is missing, and the event  *)
(* loop never comes round without having done anything.                    *)
NeverThrows == stage # "threw"

Waiting(l)  == {k \in DOMAIN memory_queue : memory_queue[k].lane = l}
Serviced(l) == {k \in DOMAIN current_service : current_service[k].lane = l}

(* The counts that the limits are tested against, kept apart from the      *)
(* queue, agree with what is in the queue and in service, in all and lane  *)
(* by lane; none exceeds its limit, and nothing is counted that was never  *)
(* issued.                                                                 *)
Accounted ==
  /\ global_outstanding = Len(memory_queue) + Len(current_service)
  /\ global_outstanding <= spec.global_outstanding_limit
  /\ \A l \in Lanes :
       /\ outstanding[l] = Cardinality(Waiting(l)) + Cardinality(Serviced(l))
       /\ outstanding[l] <= spec.outstanding_limit_per_lane
       /\ outstanding[l] <= generated[l]
       /\ generated[l] <= spec.requests_per_lane

(* A lane that could issue before now and did not is recorded as blocked   *)
(* from the very time it was ready: no event lies between two times the    *)
(* loop visits, so blocked_issue_stall_ns is all the time lanes waited.    *)
BlockedOnTime ==
  \A l \in Lanes :
    /\ HasMore(l) /\ next_issue_ready[l] < time => blocked_since[l] # NotBlocked
    /\ blocked_since[l] # NotBlocked =>
         HasMore(l) /\ blocked_since[l] = next_issue_ready[l]

SumOver(seq, age(_)) ==
  LET sum[k \in 0..Len(seq)] == IF k = 0 THEN 0 ELSE sum[k - 1] + age(seq[k])
  IN  sum[Len(seq)]

(* Little's law, request by request: the areas, integrated event by event, *)
(* equal the delays the records report plus the age of what is under way.  *)
(* So avg_outstanding * sim_time is the sum of the latencies, and          *)
(* avg_queue_depth * sim_time that of the queue delays.                    *)
LittlesLaw ==
  LET age(r) == time - r.issue_time
  IN  /\ queue_depth_area = queue_delay_total + SumOver(memory_queue, age)
      /\ outstanding_area = latency_total + SumOver(memory_queue, age)
                              + SumOver(current_service, age)

(* Every case comes to its end, with every request completed.              *)
RunCompletes == <>(stage = "done" /\ AllCompleted)
=============================================================================
