------------------------ MODULE HeterogeneousFabric ------------------------
(***************************************************************************)
(* AT-6, examples/at/project_at6_heterogeneous_soc_fabric.cpp: four unlike *)
(* initiators (CPU, NPU, DMA, ISP) share one memory through a pending      *)
(* queue and a policy: round robin, or priority with or without tokens     *)
(* that hold back the NPU.  The loop of run_fabric_model goes from one end *)
(* of service to the next and jumps over the time in which nothing can be  *)
(* served.                                                                 *)
(*                                                                         *)
(* Times are in ticks of 0.0001 ns, in which every constant and product of *)
(* the program is whole.  Addresses and the starvation flag decide nothing;*)
(* fabric_queue_capacity is used for that flag alone.                      *)
(***************************************************************************)
EXTENDS Integers, SequencesExt

CONSTANT Cases   \* the CaseSpecs run_fabric_model is called with

ASSUME CasesAssumption ==
  /\ Cases \subseteq
       [name : STRING,
        policy : {"round_robin", "priority_latency", "latency_priority_with_npu_cap",
                  "latency_priority_no_cap"},
        transactions : [1..4 -> Nat],
        issue_gap : [1..4 -> Nat \ 0..2],      \* the jitter is below 3 ns
        burst_every : [1..4 -> Nat \ {0}],
        burst_pause : [1..4 -> Nat],
        size_bytes : [1..4 -> Nat \ 0..63],
        service_factor : [1..4 -> Nat \ {0}],
        base_service : Nat \ {0},
        npu_token_gap : Nat]
  /\ \A c \in Cases : c.policy = "round_robin" => c.npu_token_gap = 0

VARIABLES
  spec,
  schedule,            \* the records, sorted by issue time
  start,               \* start_service_time_ns of each record, if served
  pending,             \* positions in schedule
  next_record,
  time,
  last_rr_initiator,
  next_npu_token

vars == <<spec, schedule, start, pending, next_record, time, last_rr_initiator,
          next_npu_token>>

NotStarted == -1
NPU        == 1
Initiators == 0..3

(* default_cases: per initiator, in the order of kInitiators.              *)
Case(name, policy, transactions, gaps, every, pauses, sizes, factors, base, token_gap) ==
  [name |-> name, policy |-> policy, transactions |-> transactions,
   issue_gap |-> gaps, burst_every |-> every, burst_pause |-> pauses,
   size_bytes |-> sizes, service_factor |-> factors, base_service |-> base,
   npu_token_gap |-> token_gap * 10000]

default_cases ==
  {Case("baseline_rr", "round_robin", <<56, 64, 52, 56>>, <<130, 95, 150, 135>>,
        <<4, 8, 1, 6>>, <<20, 60, 0, 24>>, <<64, 256, 384, 128>>,
        <<86, 108, 122, 94>>, 34, 0),
   Case("priority_latency", "priority_latency", <<56, 64, 52, 56>>, <<128, 90, 145, 130>>,
        <<4, 8, 1, 6>>, <<18, 52, 0, 20>>, <<64, 256, 384, 128>>,
        <<86, 108, 122, 94>>, 34, 0),
   Case("bandwidth_cap_npu", "latency_priority_with_npu_cap", <<60, 52, 54, 60>>,
        <<120, 70, 145, 125>>, <<4, 12, 1, 6>>, <<16, 36, 0, 20>>,
        <<64, 256, 384, 128>>, <<86, 108, 122, 94>>, 34, 180),
   Case("dma_stress", "round_robin", <<56, 64, 76, 56>>, <<120, 95, 52, 125>>,
        <<4, 8, 1, 6>>, <<20, 60, 0, 24>>, <<64, 256, 512, 128>>,
        <<86, 108, 142, 94>>, 36, 0),
   Case("mixed_stress", "latency_priority_no_cap", <<64, 92, 80, 64>>, <<84, 42, 45, 88>>,
        <<4, 16, 1, 5>>, <<12, 24, 0, 16>>, <<64, 320, 512, 160>>,
        <<92, 120, 145, 100>>, 40, 0)}

issue_time_for(c, i, n) ==
  LET pauses == IF c.burst_every[i + 1] > 1 THEN n \div c.burst_every[i + 1] ELSE 0
  IN  (n * c.issue_gap[i + 1] + pauses * c.burst_pause[i + 1]) * 10000
        + i * 17500 + ((n * 17 + i * 11) % 7) * 3500

service_delay_for(r) ==
  LET i       == r.initiator
      stretch == ((spec.size_bytes[i + 1] - 64) * 37500) \div 64
      delay   == spec.base_service * spec.service_factor[i + 1] * 100 + stretch
                   + ((r.sequence + i) % 5) * 4500
  IN  CASE spec.name = "dma_stress" /\ i = 2            -> delay + 180000
        [] spec.name = "mixed_stress" /\ i \in {1, 2}   -> delay + 160000
        [] spec.name = "bandwidth_cap_npu" /\ i = NPU   -> (delay * 98) \div 100
        [] OTHER                                        -> delay

(* All records of a case, and the order std::sort puts them in: by issue   *)
(* time, then by request_id, which counts initiator by initiator.          *)
all_records(c) ==
  UNION {{[initiator |-> i, sequence |-> n, issue_time |-> issue_time_for(c, i, n)] :
            n \in 0..(c.transactions[i + 1] - 1)} : i \in Initiators}

Before(a, b) ==
  \/ a.issue_time < b.issue_time
  \/ a.issue_time = b.issue_time /\ a.initiator < b.initiator

(* The sorted records: place k is that of the one with k - 1 before it.    *)
make_initial_records(c) ==
  LET records == all_records(c)
      ranked  == {[rank   |-> Cardinality({q \in records : Before(q, r)}),
                   record |-> r] : r \in records}
  IN  [k \in 1..Cardinality(records) |-> (CHOOSE x \in ranked : x.rank = k - 1).record]

Init ==
  /\ spec \in Cases
  /\ schedule = make_initial_records(spec)
  /\ start = [r \in DOMAIN schedule |-> NotStarted]
  /\ pending = <<>>
  /\ next_record = 1
  /\ time = 0
  /\ last_rr_initiator = 3
  /\ next_npu_token = 0

-----------------------------------------------------------------------------
(* enqueue_ready_records, one record at a time.                            *)
Arrived == next_record <= Len(schedule) /\ schedule[next_record].issue_time <= time

Enqueue ==
  /\ Arrived
  /\ pending' = Append(pending, next_record)
  /\ next_record' = next_record + 1
  /\ UNCHANGED <<spec, schedule, start, time, last_rr_initiator, next_npu_token>>

Later(a, b) == IF a < b THEN b ELSE a
Sooner(a, b) == IF a < b THEN a ELSE b

(* Nothing is pending: on to the next record's issue time.                 *)
AwaitRecord ==
  /\ ~Arrived /\ pending = <<>>
  /\ next_record <= Len(schedule)
  /\ time' = Later(time, schedule[next_record].issue_time)
  /\ UNCHANGED <<spec, schedule, start, pending, next_record, last_rr_initiator,
                 next_npu_token>>

-----------------------------------------------------------------------------
(* select_pending_position.                                                *)

(* Mutant: the token is usable only after the time it is due.              *)
npu_token_ready_Late(i) ==
  spec.npu_token_gap = 0 \/ i # NPU \/ time > next_npu_token

npu_token_ready(i) ==
  spec.npu_token_gap = 0 \/ i # NPU \/ time >= next_npu_token

PositionsOf(i) == {k \in DOMAIN pending : schedule[pending[k]].initiator = i}

(* Mutant: the initiator's newest record is taken.                         *)
pending_position_for_initiator_Newest(i) ==
  CHOOSE k \in PositionsOf(i) : \A q \in PositionsOf(i) : q <= k

pending_position_for_initiator(i) ==
  CHOOSE k \in PositionsOf(i) : \A q \in PositionsOf(i) : k <= q

PriorityOrder == IF spec.policy = "latency_priority_with_npu_cap"
                   THEN <<0, 3, 2, 1>> ELSE <<0, 3, 1, 2>>

Rank(i) == CHOOSE k \in 1..4 : PriorityOrder[k] = i

(* The place of i in the order in which the initiators are tried.          *)
Turn(i) == IF spec.policy = "round_robin" THEN (i - last_rr_initiator - 1) % 4 ELSE Rank(i)

Selectable == {i \in Initiators : PositionsOf(i) # {} /\ npu_token_ready(i)}

(* Mutant: the cursor stays where it was.                                  *)
Cursor_Kept(i) == last_rr_initiator

Cursor(i) == IF spec.policy = "round_robin" THEN i ELSE last_rr_initiator

(* Mutant: the next token is due one gap after the issue, not the service. *)
NextToken_FromIssue(r) ==
  IF spec.npu_token_gap > 0 /\ r.initiator = NPU
    THEN r.issue_time + spec.npu_token_gap ELSE next_npu_token

NextToken(r) ==
  IF spec.npu_token_gap > 0 /\ r.initiator = NPU
    THEN time + spec.npu_token_gap ELSE next_npu_token

Serve ==
  /\ ~Arrived
  /\ \E i \in Selectable :
       /\ \A j \in Selectable : Turn(i) <= Turn(j)
       /\ last_rr_initiator' = Cursor(i)
       /\ \E position \in {pending_position_for_initiator(i)} :
            LET r == pending[position]
            IN  /\ pending' = RemoveAt(pending, position)
                /\ start' = [start EXCEPT ![r] = time]
                /\ time' = time + service_delay_for(schedule[r])
                /\ next_npu_token' = NextToken(schedule[r])
  /\ UNCHANGED <<spec, schedule, next_record>>

(* Mutant: the next record is forgotten when the loop waits for a token.   *)
Wakeup_TokenOnly == next_npu_token

Wakeup ==
  IF next_record <= Len(schedule)
    THEN Sooner(next_npu_token, schedule[next_record].issue_time)
    ELSE next_npu_token

(* Something is pending and nothing may be served.                         *)
AwaitToken ==
  /\ ~Arrived /\ pending # <<>> /\ Selectable = {}
  /\ time' = Later(time, Wakeup)
  /\ UNCHANGED <<spec, schedule, start, pending, next_record, last_rr_initiator,
                 next_npu_token>>

AllServed == pending = <<>> /\ next_record > Len(schedule)

(* run_fabric_model returns; the program goes on to the next case.         *)
Finished == AllServed /\ UNCHANGED vars

Next == Enqueue \/ AwaitRecord \/ Serve \/ AwaitToken \/ Finished

Spec == Init /\ [][Next]_vars

(* A sequential program: nothing keeps it from taking its next step.       *)
FairSpec == Spec /\ WF_vars(Next)
-----------------------------------------------------------------------------
(***************************************************************************)
(* Properties.                                                             *)
(***************************************************************************)

Records == DOMAIN schedule

IsServed(r) == start[r] = NotStarted /\ start'[r] # NotStarted

(* A record starts when its predecessor of the same initiator and every    *)
(* record before it in the memory are done, never before it was issued, and*)
(* none of its initiator overtakes it.                                     *)
ServedInOrder ==
  \A r \in Records : IsServed(r) =>
       /\ start'[r] >= schedule[r].issue_time
       /\ \A q \in Records \ {r} :
            /\ start[q] # NotStarted =>
                 start[q] + service_delay_for(schedule[q]) <= start'[r]
            /\ schedule[q].initiator = schedule[r].initiator =>
                 (start[q] # NotStarted <=> schedule[q].sequence < schedule[r].sequence)

(* With a cap, two services of the NPU start at least one token gap apart. *)
TokenPaced ==
  \A r \in Records : IsServed(r) /\ schedule[r].initiator = NPU =>
       \A q \in Records : schedule[q].initiator = NPU /\ start[q] # NotStarted =>
         start'[r] - start[q] >= spec.npu_token_gap

(* The memory idles only while no record that is issued may be served:     *)
(* each jump ends before any record is issued that could have been served, *)
(* and before the token the NPU waits for is due.                          *)
WorkConserving ==
  time' > time /\ start' = start =>
       \A r \in Records :
         start[r] = NotStarted /\ schedule[r].issue_time < time' =>
           /\ schedule[r].initiator = NPU /\ spec.npu_token_gap > 0
           /\ time' <= next_npu_token

(* What run_fabric_model promises of every service and every wait.         *)
ServiceDiscipline == [][ServedInOrder /\ TokenPaced /\ WorkConserving]_vars

(* The time since which r has been the first of its initiator to wait.     *)
FirstSince(r) ==
  LET previous == {q \in Records : /\ schedule[q].initiator = schedule[r].initiator
                                   /\ schedule[q].sequence = schedule[r].sequence - 1}
  IN  IF previous = {} THEN schedule[r].issue_time
      ELSE Later(schedule[r].issue_time, start[CHOOSE q \in previous : TRUE])

(* The policies keep their promise at the time of issue, not only for what *)
(* is in the queue: under priority no record is served while one of a      *)
(* higher class that may be served is issued and waits; under round robin  *)
(* another initiator is served at most once while a record is the first of *)
(* its initiator to wait.                                                  *)
PolicyRespected ==
  [][\A r \in Records : IsServed(r) =>
       IF spec.policy = "round_robin"
         THEN LET since == FirstSince(r)
                  passed(i) == {q \in Records : /\ schedule[q].initiator = i
                                                /\ start[q] >= since}
              IN  \A i \in Initiators \ {schedule[r].initiator} :
                    Cardinality(passed(i)) <= 1
         ELSE \A q \in Records :
                /\ start'[q] = NotStarted
                /\ schedule[q].issue_time <= start'[r]
                /\ npu_token_ready(schedule[q].initiator)
                => Rank(schedule[r].initiator) <= Rank(schedule[q].initiator)]_vars

(* Every case ends, with every record served: the wait for a token always  *)
(* brings one.                                                             *)
RunCompletes == <>(AllServed /\ \A r \in Records : start[r] # NotStarted)
=============================================================================
