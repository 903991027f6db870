--------------------- MODULE ThroughputSaturationProofs ---------------------
(***************************************************************************)
(* The event loop of AT-7 for every case: however many lanes and requests, *)
(* whatever the limits, gaps and service times, no std::runtime_error is   *)
(* thrown, the counts agree with the queue, the blocked intervals start    *)
(* when they should, and Little's law holds at every event.                *)
(***************************************************************************)
EXTENDS ThroughputSaturation, FiniteSetTheorems, WellFoundedInduction, TLAPS

(* What the stages of the loop's body have established by the time the     *)
(* next event is looked for: the request in service ends later, a lane     *)
(* that is ready is marked, and if the memory is idle no lane is ready.    *)
StageInv ==
  /\ stage \in {"issue", "restart"} =>
       \A k \in DOMAIN current_service : current_service[k].service_end > time
  /\ stage = "restart" =>
       \A l \in Lanes : ReadyToIssue(l) =>
         /\ blocked_since[l] # NotBlocked
         /\ ~(current_service = <<>> /\ memory_queue = <<>>)

(* The inductive invariant.                                                *)
Inv ==
  /\ TypeOK
  /\ NeverThrows
  /\ Accounted
  /\ BlockedOnTime
  /\ StageInv

(* What the assumption says of the case at hand.                           *)
LEMMA SpecFacts ==
  ASSUME spec \in Cases
  PROVE  /\ spec.num_lanes \in Nat \ {0}
         /\ spec.requests_per_lane \in Nat \ {0}
         /\ spec.outstanding_limit_per_lane \in Nat \ {0}
         /\ spec.global_outstanding_limit \in Nat \ {0}
         /\ spec.burst_length \in Nat \ {0}
         /\ spec.compute_gap \in Nat
         /\ spec.intra_burst_gap \in Nat
         /\ spec.transfer_time \in Nat
         /\ spec.memory_service_time \in Nat \ {0}
         /\ spec.queue_capacity \in Nat \ {0}
BY CasesAssumption

(* A service takes time.                                                   *)
LEMMA ServiceTakesTime ==
  ASSUME spec \in Cases, NEW r \in Requests
  PROVE  service_delay(r) \in Nat \ {0}
<1>1. r.lane \in Nat /\ r.sequence \in Nat
  BY SpecFacts DEF Requests, Lanes
<1>2. ((r.lane * 13 + r.sequence * 7) % 6) \in Nat
  BY <1>1
<1>3. ((r.lane * 13 + r.sequence * 7) % 6) * 180 \in Nat
  BY <1>2
<1> QED BY <1>3, SpecFacts DEF service_delay

(* A set of times that is not empty has an earliest one.                   *)
LEMMA EarliestExists ==
  ASSUME NEW times \in SUBSET Nat, times # {}
  PROVE  /\ Earliest(times) \in times
         /\ \A t \in times : Earliest(times) <= t
<1> DEFINE Before == OpToRel(<, Nat)
<1>1. \E t \in times : \A u \in times : ~(<<u, t>> \in Before)
  BY NatLessThanWellFounded, WFMin
<1>2. \A t, u \in Nat : <<u, t>> \in Before <=> u < t
  BY DEF OpToRel
<1> HIDE DEF Before
<1>3. \E t \in times : \A u \in times : t <= u
  <2>1. PICK t \in times : \A u \in times : ~(<<u, t>> \in Before)
    BY <1>1
  <2>2. \A u \in times : u \in Nat /\ t \in Nat /\ ~(u < t)
    BY <1>2, <2>1
  <2>3. \A u \in times : t <= u
    BY <2>2
  <2> QED BY <2>3
<1> QED BY <1>3 DEF Earliest
-----------------------------------------------------------------------------
(* The positions of the requests of a lane in a sequence of requests.      *)
OfLane(seq, l) == {k \in DOMAIN seq : seq[k].lane = l}

(* A lane has finitely many requests in a queue.                           *)
LEMMA OfLaneFinite ==
  ASSUME NEW S, NEW seq \in Seq(S), NEW l
  PROVE  /\ IsFiniteSet(OfLane(seq, l))
         /\ Cardinality(OfLane(seq, l)) \in Nat
<1>1. IsFiniteSet(1..Len(seq))
  BY FS_Interval
<1>2. OfLane(seq, l) \subseteq 1..Len(seq)
  BY DEF OfLane
<1> QED BY <1>1, <1>2, FS_Subset, FS_CardinalityType

(* Appending a request adds one to the count of its lane and to no other.  *)
LEMMA AppendCounts ==
  ASSUME NEW S, NEW seq \in Seq(S), NEW r \in S, NEW l
  PROVE  Cardinality(OfLane(Append(seq, r), l)) =
           Cardinality(OfLane(seq, l)) + (IF r.lane = l THEN 1 ELSE 0)
<1>1. /\ DOMAIN Append(seq, r) = DOMAIN seq \cup {Len(seq) + 1}
      /\ \A k \in DOMAIN seq : Append(seq, r)[k] = seq[k]
      /\ Append(seq, r)[Len(seq) + 1] = r
      /\ Len(seq) + 1 \notin DOMAIN seq
  OBVIOUS
<1>2. CASE r.lane = l
  <2>1. OfLane(Append(seq, r), l) = OfLane(seq, l) \cup {Len(seq) + 1}
    BY <1>1, <1>2 DEF OfLane
  <2>2. Len(seq) + 1 \notin OfLane(seq, l)
    BY <1>1 DEF OfLane
  <2> QED BY <2>1, <2>2, <1>2, OfLaneFinite, FS_AddElement
<1>3. CASE r.lane # l
  <2>1. OfLane(Append(seq, r), l) = OfLane(seq, l)
    BY <1>1, <1>3 DEF OfLane
  <2> QED BY <2>1, <1>3, OfLaneFinite
<1> QED BY <1>2, <1>3

(* Taking the head off subtracts one from the count of its lane only.      *)
LEMMA TailCounts ==
  ASSUME NEW S, NEW seq \in Seq(S), seq # <<>>, NEW l
  PROVE  Cardinality(OfLane(Tail(seq), l)) =
           Cardinality(OfLane(seq, l)) - (IF Head(seq).lane = l THEN 1 ELSE 0)
<1> DEFINE T == OfLane(Tail(seq), l)
           R == OfLane(seq, l) \ {1}
           f == [k \in T |-> k + 1]
<1>1. /\ Tail(seq) \in Seq(S)
      /\ DOMAIN Tail(seq) = 1..(Len(seq) - 1)
      /\ DOMAIN seq = 1..Len(seq)
      /\ \A k \in 1..(Len(seq) - 1) : Tail(seq)[k] = seq[k + 1]
      /\ Head(seq) = seq[1]
      /\ Len(seq) \in Nat \ {0}
  OBVIOUS
<1>2. \A k \in T : k \in Nat /\ k + 1 \in R
  BY <1>1 DEF OfLane
<1>3. \A m \in R : m \in Nat /\ m - 1 \in T
  BY <1>1 DEF OfLane
<1>4. f \in Bijection(T, R)
  <2>1. f \in [T -> R]
    BY <1>2
  <2>2. \A a, b \in T : f[a] = f[b] => a = b
    BY <1>2
  <2>3. \A m \in R : \E k \in T : f[k] = m
    BY <1>3
  <2> QED BY <2>1, <2>2, <2>3 DEF Bijection, Injection, Surjection, IsInjective
<1>5. Cardinality(R) = Cardinality(T)
  <2>1. IsFiniteSet(T)
    BY <1>1, OfLaneFinite
  <2>2. ExistsBijection(T, R)
    BY <1>4 DEF ExistsBijection
  <2> QED BY <2>1, <2>2, FS_Bijection
<1>6. Cardinality(R) =
        Cardinality(OfLane(seq, l)) - (IF 1 \in OfLane(seq, l) THEN 1 ELSE 0)
  <2> HIDE DEF T, f
  <2>1. IsFiniteSet(OfLane(seq, l))
    BY OfLaneFinite
  <2>2. Cardinality(R) = IF 1 \in OfLane(seq, l) THEN Cardinality(OfLane(seq, l)) - 1
                         ELSE Cardinality(OfLane(seq, l))
    BY <2>1, FS_RemoveElement
  <2> QED BY <2>2, OfLaneFinite
<1>7. 1 \in OfLane(seq, l) <=> Head(seq).lane = l
  BY <1>1 DEF OfLane
<1> QED BY <1>5, <1>6, <1>7

(* The count of a sequence of at most one request.                         *)
LEMMA SingleCounts ==
  ASSUME NEW l
  PROVE  /\ Cardinality(OfLane(<<>>, l)) = 0
         /\ \A r : Cardinality(OfLane(<<r>>, l)) = IF r.lane = l THEN 1 ELSE 0
<1>1. OfLane(<<>>, l) = {}
  BY DEF OfLane
<1>2. ASSUME NEW r PROVE OfLane(<<r>>, l) = IF r.lane = l THEN {1} ELSE {}
  <2>1. DOMAIN <<r>> = {1} /\ <<r>>[1] = r
    OBVIOUS
  <2> QED BY <2>1 DEF OfLane
<1> QED BY <1>1, <1>2, FS_EmptySet, FS_Singleton
-----------------------------------------------------------------------------
(* What Inv says of the counts, in terms of OfLane.                        *)
LEMMA Counts ==
  ASSUME Inv, NEW l \in Lanes
  PROVE  /\ memory_queue \in Seq(Requests) /\ current_service \in Seq(InService)
         /\ outstanding[l] = Cardinality(OfLane(memory_queue, l))
                              + Cardinality(OfLane(current_service, l))
         /\ Cardinality(OfLane(memory_queue, l)) \in Nat
         /\ Cardinality(OfLane(current_service, l)) \in Nat
<1>1. memory_queue \in Seq(Requests) /\ current_service \in Seq(InService)
  BY DEF Inv, TypeOK
<1>2. Waiting(l) = OfLane(memory_queue, l) /\ Serviced(l) = OfLane(current_service, l)
  BY DEF Waiting, Serviced, OfLane
<1> QED BY <1>1, <1>2, OfLaneFinite DEF Inv, Accounted

(* At most one request is in service.                                      *)
LEMMA OneInService ==
  ASSUME Inv
  PROVE  current_service = <<>>
           \/ /\ current_service = <<current_service[1]>>
              /\ Len(current_service) = 1
              /\ current_service[1] \in InService
<1>1. current_service \in Seq(InService) /\ Len(current_service) \in {0, 1}
  <2>1. current_service \in Seq(InService) /\ Len(current_service) <= 1
    BY DEF Inv, TypeOK
  <2>2. Len(current_service) \in Nat
    BY <2>1
  <2>3. \A n \in Nat : n <= 1 => n \in {0, 1}
    OBVIOUS
  <2> QED BY <2>1, <2>2, <2>3
<1>2. CASE Len(current_service) = 0
  BY <1>1, <1>2
<1>3. CASE Len(current_service) = 1
  <2>1. current_service[1] \in InService
    BY <1>1, <1>3
  <2>2. current_service = <<current_service[1]>>
    BY <1>1, <1>3
  <2> QED BY <1>3, <2>1, <2>2
<1> QED BY <1>1, <1>2, <1>3

(* The request in service is counted: the first exception is not thrown.   *)
LEMMA NoUnderflow ==
  ASSUME Inv, ServiceEnded
  PROVE  /\ current_service[1] \in InService
         /\ current_service[1].lane \in Lanes
         /\ outstanding[current_service[1].lane] > 0
         /\ global_outstanding > 0
<1> DEFINE r == current_service[1]
<1>1. current_service = <<r>> /\ r \in InService /\ Len(current_service) = 1
  BY OneInService DEF ServiceEnded
<1>2. r.lane \in Lanes
  BY <1>1 DEF InService
<1>3. Cardinality(OfLane(current_service, r.lane)) = 1
  <2> HIDE DEF r
  <2> QED BY <1>1, SingleCounts
<1>4. outstanding[r.lane] > 0
  BY <1>2, <1>3, Counts
<1>5. global_outstanding = Len(memory_queue) + 1 /\ Len(memory_queue) \in Nat
  BY <1>1 DEF Inv, Accounted, TypeOK
<1> QED BY <1>1, <1>2, <1>4, <1>5

(* Before time moves on, every candidate is ahead, and there is one as     *)
(* long as a request is missing: the other two exceptions are not thrown.  *)
LEMMA NextEvent ==
  ASSUME Inv, stage = "restart", ~CanStart
  PROVE  /\ EventTimes \in SUBSET Nat
         /\ \A t \in EventTimes : t > time
         /\ EventTimes = {} => \A l \in Lanes : ~HasMore(l) /\ outstanding[l] = 0
<1>1. /\ time \in Nat /\ next_issue_ready \in [Lanes -> Nat]
      /\ generated \in [Lanes -> Nat] /\ outstanding \in [Lanes -> Nat]
  BY DEF Inv, TypeOK
<1>2. \A k \in DOMAIN current_service :
        current_service[k].service_end \in Nat /\ current_service[k].service_end > time
  <2>1. \A k \in DOMAIN current_service : current_service[k] \in InService
    BY DEF Inv, TypeOK
  <2> QED BY <2>1 DEF Inv, StageInv, InService
<1>3. \A l \in Lanes : ~Retry(l)
  BY DEF Inv, StageInv, Retry
<1>4. EventTimes \in SUBSET Nat /\ \A t \in EventTimes : t > time
  BY <1>1, <1>2, <1>3 DEF EventTimes
<1>5. ASSUME EventTimes = {}, NEW l \in Lanes
      PROVE  ~HasMore(l) /\ outstanding[l] = 0
  <2>1. current_service = <<>>
    <3>1. 1 \notin DOMAIN current_service
      BY <1>5 DEF EventTimes
    <3>2. Len(current_service) = 1 => 1 \in DOMAIN current_service
      BY DEF Inv, TypeOK
    <3> QED BY <3>1, <3>2, OneInService
  <2>2. memory_queue = <<>>
    BY <2>1 DEF CanStart
  <2>3. outstanding[l] = 0
    <3>1. outstanding[l] = Cardinality(OfLane(<<>>, l)) + Cardinality(OfLane(<<>>, l))
      BY <2>1, <2>2, Counts
    <3> QED BY <3>1, SingleCounts
  <2>4. HasMore(l) => next_issue_ready[l] <= time
    BY <1>1, <1>5 DEF EventTimes
  <2>5. ~HasMore(l)
    BY <2>1, <2>2, <2>4 DEF Inv, StageInv, ReadyToIssue, HasMore
  <2> QED BY <2>3, <2>5
<1> QED BY <1>4, <1>5

(* So the end of the loop's body returns or moves on to the next event.    *)
LEMMA AdvanceFacts ==
  ASSUME Inv, AdvanceOrReturn
  PROVE  /\ stage = "restart"
         /\ UNCHANGED <<spec, lanes, memory, global_outstanding, completed, last_lane,
                        queue_delay_total, latency_total>>
         /\ \/ Return
            \/ /\ AdvanceTo(Earliest(EventTimes))
               /\ Earliest(EventTimes) \in Nat
               /\ Earliest(EventTimes) > time
               /\ \A t \in EventTimes : Earliest(EventTimes) <= t
<1>1. stage = "restart" /\ ~CanStart
  BY DEF AdvanceOrReturn
<1>2. CASE EventTimes = {}
  <2>1. ~\E l \in Lanes : HasMore(l) \/ outstanding[l] > 0
    BY <1>1, <1>2, NextEvent
  <2> QED BY <1>1, <1>2, <2>1 DEF AdvanceOrReturn
<1>3. CASE EventTimes # {}
  <2>1. /\ Earliest(EventTimes) \in EventTimes
        /\ \A t \in EventTimes : Earliest(EventTimes) <= t
    BY <1>1, <1>3, NextEvent, EarliestExists
  <2>2. Earliest(EventTimes) \in Nat /\ Earliest(EventTimes) > time
    BY <1>1, <2>1, NextEvent
  <2>3. time \in Nat
    BY DEF Inv, TypeOK
  <2>4. ~(Earliest(EventTimes) <= time)
    BY <2>2, <2>3
  <2> QED BY <1>1, <1>3, <2>1, <2>2, <2>4 DEF AdvanceOrReturn
<1> QED BY <1>2, <1>3
-----------------------------------------------------------------------------
(* The invariant holds when run_case enters its loop.                      *)
LEMMA InitInv == Init => Inv
<1> SUFFICES ASSUME Init PROVE Inv
  OBVIOUS
<1>1. spec \in Cases
  BY DEF Init
<1>2. Lanes \subseteq Nat /\ spec.requests_per_lane \in Nat
      /\ spec.outstanding_limit_per_lane \in Nat /\ spec.global_outstanding_limit \in Nat
  BY <1>1, SpecFacts DEF Lanes
<1>3. TypeOK
  <2>1. \A l \in Lanes : l * 550 \in Nat
    BY <1>2
  <2>2. /\ generated \in [Lanes -> Nat] /\ outstanding \in [Lanes -> Nat]
        /\ next_issue_ready \in [Lanes -> Nat]
        /\ blocked_since \in [Lanes -> Nat \cup {NotBlocked}]
        /\ blocked_issue_stall \in [Lanes -> Nat]
    BY <2>1 DEF Init
  <2>3. memory_queue \in Seq(Requests) /\ current_service \in Seq(InService)
        /\ Len(current_service) <= 1
    BY DEF Init
  <2>4. /\ time \in Nat /\ global_outstanding \in Nat /\ completed \in Nat
        /\ queue_depth_area \in Int /\ outstanding_area \in Int
        /\ queue_delay_total \in Int /\ latency_total \in Int
    BY DEF Init
  <2>5. last_lane \in Lanes \cup {-1}
    BY DEF Init
  <2>6. progress \in BOOLEAN /\ stage \in {"serve", "issue", "restart", "done", "threw"}
    BY DEF Init
  <2> QED BY <1>1, <2>2, <2>3, <2>4, <2>5, <2>6 DEF TypeOK
<1>4. Accounted
  <2>1. ASSUME NEW l \in Lanes
        PROVE  Cardinality(Waiting(l)) = 0 /\ Cardinality(Serviced(l)) = 0
    <3>1. Waiting(l) = {} /\ Serviced(l) = {}
      BY DEF Init, Waiting, Serviced
    <3> QED BY <3>1, FS_EmptySet
  <2> QED BY <1>2, <2>1 DEF Init, Accounted
<1>5. BlockedOnTime
  BY <1>2 DEF Init, BlockedOnTime
<1>6. NeverThrows /\ StageInv
  BY DEF Init, NeverThrows, StageInv
<1> QED BY <1>3, <1>4, <1>5, <1>6 DEF Inv
-----------------------------------------------------------------------------
(* The case at hand does not change.                                       *)
LEMMA SameSpec ==
  ASSUME [Next]_vars
  PROVE  /\ spec' = spec
         /\ Lanes' = Lanes
         /\ Requests' = Requests
         /\ InService' = InService
<1>1. spec' = spec
  BY DEF Next, CompleteService, StartService, ServiceSettled, IssueRequest, MarkBlocked,
         AdvanceOrReturn, Ended, Throw, vars
<1> QED BY <1>1 DEF Lanes, Requests, InService

(* What a completion does, the exception being out of the question.        *)
LEMMA CompletionFacts ==
  ASSUME Inv, CompleteService
  PROVE  LET r == current_service[1]
         IN  /\ r \in InService /\ r.lane \in Lanes
             /\ stage = "serve" /\ outstanding[r.lane] > 0 /\ global_outstanding > 0
             /\ current_service = <<r>>
             /\ outstanding' = [outstanding EXCEPT ![r.lane] = @ - 1]
             /\ global_outstanding' = global_outstanding - 1
             /\ completed' = completed + 1
             /\ latency_total' = latency_total + r.service_end - r.issue_time
             /\ current_service' = <<>>
             /\ progress' = TRUE
             /\ UNCHANGED <<spec, time, generated, next_issue_ready, blocked_since,
                            blocked_issue_stall, memory_queue, stage, last_lane,
                            queue_depth_area, outstanding_area, queue_delay_total>>
<1>1. ServiceEnded
  BY DEF CompleteService
<1>2. outstanding[current_service[1].lane] # 0 /\ global_outstanding # 0
  BY <1>1, NoUnderflow
<1>3. current_service = <<current_service[1]>>
  BY <1>1, OneInService DEF ServiceEnded
<1> QED BY <1>1, <1>2, <1>3, NoUnderflow DEF CompleteService

(* What a start of service takes from the queue.                           *)
LEMMA StartFacts ==
  ASSUME Inv, StartService
  PROVE  LET r == Head(memory_queue)
         IN  /\ memory_queue # <<>> /\ r \in Requests /\ r.lane \in Lanes
             /\ service_delay(r) \in Nat \ {0}
             /\ current_service = <<>>
             /\ current_service' = <<current_service'[1]>>
             /\ current_service'[1] \in InService
             /\ current_service'[1].lane = r.lane
             /\ current_service'[1].service_end > time
             /\ memory_queue' = Tail(memory_queue)
             /\ memory_queue' \in Seq(Requests)
             /\ Len(memory_queue') = Len(memory_queue) - 1
<1> DEFINE r == Head(memory_queue)
<1>1. memory_queue \in Seq(Requests) /\ memory_queue # <<>> /\ time \in Nat
      /\ spec \in Cases /\ current_service = <<>>
  BY DEF StartService, CanStart, Inv, TypeOK
<1>2. r \in Requests
  BY <1>1
<1>3. r.lane \in Lanes /\ r.issue_time \in Nat
  <2> HIDE DEF r
  <2> QED BY <1>2 DEF Requests
<1>4. service_delay(r) \in Nat \ {0}
  BY <1>1, <1>2, ServiceTakesTime
<1>5. current_service' = <<[lane |-> r.lane, issue_time |-> r.issue_time,
                            service_end |-> time + service_delay(r)]>>
  BY DEF StartService
<1>6. /\ current_service'[1] = [lane |-> r.lane, issue_time |-> r.issue_time,
                               service_end |-> time + service_delay(r)]
      /\ current_service' = <<current_service'[1]>>
  BY <1>5
<1>7. current_service'[1] \in InService /\ current_service'[1].service_end > time
      /\ current_service'[1].lane = r.lane
  <2> HIDE DEF r
  <2> QED BY <1>1, <1>3, <1>4, <1>6 DEF InService
<1>8. /\ memory_queue' = Tail(memory_queue)
      /\ memory_queue' \in Seq(Requests)
      /\ Len(memory_queue') = Len(memory_queue) - 1
  BY <1>1 DEF StartService
<1> QED BY <1>1, <1>2, <1>3, <1>4, <1>6, <1>7, <1>8

(* What an issue does to the lane and to the queue.                        *)
LEMMA IssueFacts ==
  ASSUME Inv, NEW l \in Lanes, IssueRequest(l)
  PROVE  LET r == [lane |-> l, sequence |-> generated[l], issue_time |-> time]
             gap == IF (generated[l] + 1) % spec.burst_length = 0
                      THEN spec.compute_gap ELSE spec.intra_burst_gap
         IN  /\ stage = "issue" /\ can_issue(l)
             /\ r \in Requests
             /\ gap \in Nat
             /\ memory_queue' = Append(memory_queue, r)
             /\ memory_queue' \in Seq(Requests)
             /\ Len(memory_queue') = Len(memory_queue) + 1
             /\ next_issue_ready' = [next_issue_ready EXCEPT ![l] = time + gap]
<1> DEFINE r == [lane |-> l, sequence |-> generated[l], issue_time |-> time]
<1>1. /\ time \in Nat /\ generated[l] \in Nat /\ memory_queue \in Seq(Requests)
      /\ spec \in Cases
  BY DEF Inv, TypeOK
<1>2. r \in Requests
  BY <1>1 DEF Requests
<1>3. can_issue(l)
  BY DEF IssueRequest, NextLane
<1>4. memory_queue' = Append(memory_queue, r)
  BY DEF IssueRequest
<1>5. memory_queue' \in Seq(Requests) /\ Len(memory_queue') = Len(memory_queue) + 1
  <2> HIDE DEF r
  <2> QED BY <1>1, <1>2, <1>4
<1>6. (IF (generated[l] + 1) % spec.burst_length = 0
         THEN spec.compute_gap ELSE spec.intra_burst_gap) \in Nat
  BY <1>1, SpecFacts
<1> QED BY <1>2, <1>3, <1>4, <1>5, <1>6 DEF IssueRequest
-----------------------------------------------------------------------------
(* Types.                                                                  *)
LEMMA TypeStep ==
  ASSUME Inv, [Next]_vars
  PROVE  TypeOK'
<1>0. TypeOK /\ BlockedOnTime
  BY DEF Inv
<1>s. spec' = spec /\ Lanes' = Lanes /\ Requests' = Requests /\ InService' = InService
  BY SameSpec
<1>1. CASE CompleteService
  <2> DEFINE r == current_service[1]
  <2>1. /\ r \in InService /\ r.lane \in Lanes
        /\ outstanding[r.lane] > 0 /\ global_outstanding > 0
        /\ outstanding' = [outstanding EXCEPT ![r.lane] = @ - 1]
        /\ global_outstanding' = global_outstanding - 1
        /\ completed' = completed + 1
        /\ latency_total' = latency_total + r.service_end - r.issue_time
        /\ current_service' = <<>>
        /\ progress' = TRUE
    BY <1>1, CompletionFacts
  <2>2. UNCHANGED <<spec, time, generated, next_issue_ready, blocked_since,
                    blocked_issue_stall, memory_queue, stage, last_lane,
                    queue_depth_area, outstanding_area, queue_delay_total>>
    BY <1>1, CompletionFacts
  <2>3. outstanding' \in [Lanes -> Nat] /\ global_outstanding' \in Nat /\ completed' \in Nat
    <3> HIDE DEF r
    <3> QED BY <1>0, <2>1 DEF TypeOK
  <2>4. latency_total' \in Int
    <3> HIDE DEF r
    <3> QED BY <1>0, <2>1 DEF TypeOK, InService
  <2>5. current_service' \in Seq(InService') /\ Len(current_service') <= 1
    BY <2>1, <1>s
  <2> QED BY <1>0, <1>s, <2>1, <2>2, <2>3, <2>4, <2>5 DEF TypeOK
<1>2. CASE StartService
  <2> DEFINE r == Head(memory_queue)
  <2>1. /\ r \in Requests
        /\ memory_queue' \in Seq(Requests)
        /\ current_service' = <<current_service'[1]>>
        /\ current_service'[1] \in InService
    BY <1>2, StartFacts
  <2>2. /\ UNCHANGED <<spec, time, lanes, global_outstanding, completed, stage, last_lane,
                       queue_depth_area, outstanding_area, latency_total>>
        /\ queue_delay_total' = queue_delay_total + time - r.issue_time
        /\ progress' = TRUE
    BY <1>2 DEF StartService
  <2>3. queue_delay_total' \in Int
    <3> HIDE DEF r
    <3> QED BY <1>0, <2>1, <2>2 DEF TypeOK, Requests
  <2>4. current_service' \in Seq(InService') /\ Len(current_service') <= 1
    <3>1. \A c \in InService : <<c>> \in Seq(InService) /\ Len(<<c>>) = 1
      OBVIOUS
    <3>2. PICK c \in InService : current_service' = <<c>>
      BY <2>1
    <3> QED BY <1>s, <3>1, <3>2
  <2> QED BY <1>0, <1>s, <2>1, <2>2, <2>3, <2>4 DEF TypeOK, lanes
<1>3. CASE ServiceSettled
  BY <1>0, <1>s, <1>3 DEF TypeOK, ServiceSettled, lanes, memory, totals
<1>4. CASE \E l \in Lanes : IssueRequest(l)
  <2>1. PICK l \in Lanes : IssueRequest(l)
    BY <1>4
  <2>2. PICK gap \in Nat : next_issue_ready' = [next_issue_ready EXCEPT ![l] = time + gap]
    BY <2>1, IssueFacts
  <2>3. memory_queue' \in Seq(Requests)
    BY <2>1, IssueFacts
  <2>4. /\ generated' = [generated EXCEPT ![l] = @ + 1]
        /\ outstanding' = [outstanding EXCEPT ![l] = @ + 1]
        /\ global_outstanding' = global_outstanding + 1
        /\ last_lane' = l /\ progress' = TRUE
        /\ UNCHANGED <<spec, time, current_service, completed, stage, totals>>
    BY <2>1 DEF IssueRequest
  <2>5. /\ generated' \in [Lanes -> Nat] /\ outstanding' \in [Lanes -> Nat]
        /\ next_issue_ready' \in [Lanes -> Nat] /\ global_outstanding' \in Nat
    BY <1>0, <2>2, <2>4 DEF TypeOK
  <2>6. /\ blocked_since' \in [Lanes -> Nat \cup {NotBlocked}]
        /\ blocked_issue_stall' \in [Lanes -> Nat]
    <3>1. CloseBlocked(l)
      BY <2>1 DEF IssueRequest
    <3>2. next_issue_ready[l] <= time
      BY <2>1, IssueFacts DEF can_issue, ReadyToIssue
    <3>3. blocked_since[l] # NotBlocked => time - blocked_since[l] \in Nat
      BY <1>0, <3>2 DEF BlockedOnTime, TypeOK
    <3>4. blocked_since' \in [Lanes -> Nat \cup {NotBlocked}]
      BY <1>0, <3>1 DEF TypeOK, CloseBlocked
    <3>5. blocked_issue_stall' \in [Lanes -> Nat]
      BY <1>0, <3>1, <3>3 DEF TypeOK, CloseBlocked
    <3> QED BY <3>4, <3>5
  <2> QED BY <1>0, <1>s, <2>3, <2>4, <2>5, <2>6 DEF TypeOK, totals
<1>5. CASE MarkBlocked
  <2>1. blocked_since' \in [Lanes -> Nat \cup {NotBlocked}]
    BY <1>0, <1>5 DEF TypeOK, MarkBlocked
  <2> QED BY <1>0, <1>s, <1>5, <2>1 DEF TypeOK, MarkBlocked, memory, totals
<1>6. CASE AdvanceOrReturn
  <2>1. /\ UNCHANGED <<spec, lanes, memory, global_outstanding, completed, last_lane,
                       queue_delay_total, latency_total>>
        /\ \/ Return
           \/ AdvanceTo(Earliest(EventTimes)) /\ Earliest(EventTimes) \in Nat
    BY <1>6, AdvanceFacts
  <2>2. /\ time' \in Nat /\ progress' \in BOOLEAN
        /\ stage' \in {"serve", "issue", "restart", "done", "threw"}
        /\ queue_depth_area' \in Int /\ outstanding_area' \in Int
    <3>1. CASE Return
      BY <1>0, <3>1 DEF TypeOK, Return
    <3>2. CASE AdvanceTo(Earliest(EventTimes)) /\ Earliest(EventTimes) \in Nat
      <4> DEFINE next == Earliest(EventTimes)
      <4>1. Len(memory_queue) \in Nat
        BY <1>0 DEF TypeOK
      <4>2. /\ AdvanceTo(next) /\ next \in Nat
        BY <3>2
      <4> HIDE DEF next
      <4>3. next - time \in Int /\ global_outstanding \in Int
        BY <1>0, <4>2 DEF TypeOK
      <4>4. \A m, n \in Int : m * n \in Int
        OBVIOUS
      <4>5. /\ Len(memory_queue) * (next - time) \in Int
            /\ global_outstanding * (next - time) \in Int
        BY <4>1, <4>3, <4>4
      <4>6. queue_depth_area' \in Int /\ outstanding_area' \in Int
        BY <1>0, <4>2, <4>5 DEF TypeOK, AdvanceTo
      <4>7. time' = next /\ stage' = "serve" /\ progress' = FALSE
        BY <4>2 DEF AdvanceTo
      <4> QED BY <4>2, <4>6, <4>7
    <3> QED BY <2>1, <3>1, <3>2
  <2> QED BY <1>0, <1>s, <2>1, <2>2 DEF TypeOK, lanes, memory
<1>7. CASE Ended \/ UNCHANGED vars
  BY <1>0, <1>s, <1>7 DEF TypeOK, Ended, vars, lanes, memory, totals
<1> QED BY <1>1, <1>2, <1>3, <1>4, <1>5, <1>6, <1>7 DEF Next
-----------------------------------------------------------------------------
(* The counts.                                                             *)
AccountedLane(l) ==
  /\ outstanding[l] = Cardinality(OfLane(memory_queue, l))
                       + Cardinality(OfLane(current_service, l))
  /\ outstanding[l] <= spec.outstanding_limit_per_lane
  /\ outstanding[l] <= generated[l]
  /\ generated[l] <= spec.requests_per_lane

(* Accounted, lane by lane.                                                *)
LEMMA AccountedByLane ==
  Accounted <=> /\ global_outstanding = Len(memory_queue) + Len(current_service)
                /\ global_outstanding <= spec.global_outstanding_limit
                /\ \A l \in Lanes : AccountedLane(l)
BY DEF Accounted, AccountedLane, Waiting, Serviced, OfLane

(* The same of the next state.                                             *)
LEMMA AccountedByLaneNext ==
  ASSUME /\ global_outstanding' = Len(memory_queue') + Len(current_service')
         /\ global_outstanding' <= spec'.global_outstanding_limit
         /\ \A l \in Lanes' : AccountedLane(l)'
  PROVE  Accounted'
BY DEF Accounted, AccountedLane, Waiting, Serviced, OfLane

(* Every step keeps the counts equal to what is queued or in service.      *)
LEMMA CountStep ==
  ASSUME Inv, [Next]_vars
  PROVE  Accounted'
<1>a. /\ TypeOK
      /\ global_outstanding = Len(memory_queue) + Len(current_service)
      /\ global_outstanding <= spec.global_outstanding_limit
      /\ \A l \in Lanes : AccountedLane(l)
  BY AccountedByLane DEF Inv
<1>s. spec' = spec /\ Lanes' = Lanes
  BY SameSpec
<1>l. /\ spec.requests_per_lane \in Nat /\ spec.outstanding_limit_per_lane \in Nat
      /\ spec.global_outstanding_limit \in Nat
      /\ Len(memory_queue) \in Nat /\ Len(current_service) \in Nat
  BY <1>a, SpecFacts DEF TypeOK
<1> SUFFICES /\ global_outstanding' = Len(memory_queue') + Len(current_service')
             /\ global_outstanding' <= spec.global_outstanding_limit
             /\ \A l \in Lanes : AccountedLane(l)'
  BY <1>s, AccountedByLaneNext
<1>1. CASE CompleteService
  <2> DEFINE r == current_service[1]
  <2>1. /\ r.lane \in Lanes /\ current_service = <<r>>
        /\ outstanding[r.lane] > 0 /\ global_outstanding > 0
        /\ outstanding' = [outstanding EXCEPT ![r.lane] = @ - 1]
        /\ global_outstanding' = global_outstanding - 1
        /\ current_service' = <<>>
        /\ generated' = generated /\ memory_queue' = memory_queue
    BY <1>1, CompletionFacts
  <2> HIDE DEF r
  <2>2. Len(current_service) = 1 /\ Len(current_service') = 0
    BY <2>1
  <2>3. ASSUME NEW l \in Lanes PROVE AccountedLane(l)'
    <3>1. /\ Cardinality(OfLane(current_service, l)) = IF r.lane = l THEN 1 ELSE 0
          /\ Cardinality(OfLane(current_service', l)) = 0
      BY <2>1, SingleCounts
    <3>2. outstanding'[l] = IF l = r.lane THEN outstanding[l] - 1 ELSE outstanding[l]
      BY <1>a, <2>1 DEF TypeOK
    <3>3. outstanding[l] \in Nat /\ generated[l] \in Nat
          /\ Cardinality(OfLane(memory_queue, l)) \in Nat
      BY <1>a, Counts DEF TypeOK
    <3>4. outstanding'[l] = Cardinality(OfLane(memory_queue', l))
                             + Cardinality(OfLane(current_service', l))
      BY <1>a, <2>1, <3>1, <3>2, <3>3 DEF AccountedLane
    <3>5. outstanding'[l] <= outstanding[l] /\ outstanding'[l] \in Int
      BY <3>2, <3>3
    <3>6. /\ outstanding[l] <= spec.outstanding_limit_per_lane
          /\ outstanding[l] <= generated[l]
          /\ generated[l] <= spec.requests_per_lane
          /\ generated'[l] = generated[l]
      BY <1>a, <2>1 DEF AccountedLane
    <3>7. /\ outstanding'[l] <= spec.outstanding_limit_per_lane
          /\ outstanding'[l] <= generated[l]
      BY <1>l, <3>3, <3>5, <3>6
    <3> QED BY <1>s, <3>4, <3>6, <3>7 DEF AccountedLane
  <2>4. /\ global_outstanding = Len(memory_queue) + 1
        /\ memory_queue' = memory_queue
        /\ global_outstanding' = global_outstanding - 1
    BY <1>a, <2>1, <2>2
  <2>5. /\ global_outstanding' = Len(memory_queue') + Len(current_service')
        /\ global_outstanding' <= spec.global_outstanding_limit
    BY <1>a, <1>l, <2>2, <2>4
  <2> QED BY <2>3, <2>5
<1>2. CASE StartService
  <2> DEFINE r == Head(memory_queue)
  <2>1. /\ memory_queue # <<>>
        /\ current_service = <<>>
        /\ current_service' = <<current_service'[1]>>
        /\ current_service'[1].lane = r.lane
        /\ memory_queue' = Tail(memory_queue)
        /\ Len(memory_queue') = Len(memory_queue) - 1
    BY <1>2, StartFacts
  <2>2. /\ outstanding' = outstanding /\ generated' = generated
        /\ global_outstanding' = global_outstanding
    BY <1>2 DEF StartService, lanes
  <2>3. PICK c : current_service' = <<c>> /\ c.lane = r.lane
    BY <2>1
  <2>4. Len(current_service) = 0 /\ Len(current_service') = 1
    BY <2>1, <2>3
  <2>5. ASSUME NEW l \in Lanes PROVE AccountedLane(l)'
    <3>1. /\ Cardinality(OfLane(current_service, l)) = 0
          /\ Cardinality(OfLane(current_service', l)) = IF r.lane = l THEN 1 ELSE 0
      BY <2>1, <2>3, SingleCounts
    <3>2. Cardinality(OfLane(memory_queue', l)) =
            Cardinality(OfLane(memory_queue, l)) - (IF r.lane = l THEN 1 ELSE 0)
      BY <1>a, <2>1, TailCounts DEF TypeOK
    <3>3. Cardinality(OfLane(memory_queue, l)) \in Nat
      BY Counts
    <3> QED BY <1>a, <1>s, <2>2, <3>1, <3>2, <3>3 DEF AccountedLane
  <2> QED BY <1>a, <1>l, <2>1, <2>2, <2>4, <2>5
<1>3. CASE \E l \in Lanes : IssueRequest(l)
  <2>1. PICK k \in Lanes : IssueRequest(k)
    BY <1>3
  <2> DEFINE r == [lane |-> k, sequence |-> generated[k], issue_time |-> time]
  <2>2. /\ r \in Requests
        /\ memory_queue' = Append(memory_queue, r)
        /\ Len(memory_queue') = Len(memory_queue) + 1
        /\ can_issue(k)
    BY <2>1, IssueFacts
  <2>3. /\ generated' = [generated EXCEPT ![k] = @ + 1]
        /\ outstanding' = [outstanding EXCEPT ![k] = @ + 1]
        /\ global_outstanding' = global_outstanding + 1
        /\ current_service' = current_service
    BY <2>1 DEF IssueRequest
  <2>4. r.lane = k
    OBVIOUS
  <2> HIDE DEF r
  <2>5. /\ generated[k] < spec.requests_per_lane
        /\ outstanding[k] < spec.outstanding_limit_per_lane
        /\ global_outstanding < spec.global_outstanding_limit
    BY <2>2 DEF can_issue, ReadyToIssue
  <2>6. ASSUME NEW l \in Lanes PROVE AccountedLane(l)'
    <3>1. Cardinality(OfLane(memory_queue', l)) =
            Cardinality(OfLane(memory_queue, l)) + (IF k = l THEN 1 ELSE 0)
      BY <1>a, <2>2, <2>4, AppendCounts DEF TypeOK
    <3>2. /\ outstanding'[l] = outstanding[l] + (IF k = l THEN 1 ELSE 0)
          /\ generated'[l] = generated[l] + (IF k = l THEN 1 ELSE 0)
      BY <1>a, <2>3 DEF TypeOK
    <3>3. outstanding[l] \in Nat /\ generated[l] \in Nat
          /\ Cardinality(OfLane(memory_queue, l)) \in Nat
          /\ Cardinality(OfLane(current_service, l)) \in Nat
      BY <1>a, Counts DEF TypeOK
    <3>4. outstanding'[l] = Cardinality(OfLane(memory_queue', l))
                             + Cardinality(OfLane(current_service', l))
      BY <1>a, <2>3, <3>1, <3>2, <3>3 DEF AccountedLane
    <3>5. CASE l = k
      BY <1>a, <1>l, <1>s, <2>5, <3>2, <3>3, <3>4, <3>5 DEF AccountedLane
    <3>6. CASE l # k
      BY <1>a, <1>s, <3>2, <3>3, <3>4, <3>6 DEF AccountedLane
    <3> QED BY <3>5, <3>6
  <2>7. global_outstanding \in Nat
    BY <1>a DEF TypeOK
  <2> QED BY <1>a, <1>l, <2>2, <2>3, <2>5, <2>6, <2>7
<1>4. ASSUME UNCHANGED <<generated, outstanding, global_outstanding, memory>>
      PROVE  /\ global_outstanding' = Len(memory_queue') + Len(current_service')
             /\ global_outstanding' <= spec.global_outstanding_limit
             /\ \A l \in Lanes : AccountedLane(l)'
  BY <1>a, <1>s, <1>4 DEF AccountedLane, memory
<1>5. CASE ServiceSettled \/ MarkBlocked \/ Ended \/ UNCHANGED vars
  BY <1>4, <1>5 DEF ServiceSettled, MarkBlocked, Ended, vars, lanes
<1>6. CASE AdvanceOrReturn
  BY <1>4, <1>6, AdvanceFacts DEF lanes
<1> QED BY <1>1, <1>2, <1>3, <1>5, <1>6 DEF Next
-----------------------------------------------------------------------------
(* The blocked intervals.                                                  *)
LEMMA BlockedStep ==
  ASSUME Inv, [Next]_vars
  PROVE  BlockedOnTime'
<1>a. /\ TypeOK /\ BlockedOnTime
      /\ time \in Nat /\ next_issue_ready \in [Lanes -> Nat]
      /\ generated \in [Lanes -> Nat]
      /\ blocked_since \in [Lanes -> Nat \cup {NotBlocked}]
  BY DEF Inv, TypeOK
<1>s. spec' = spec /\ Lanes' = Lanes
  BY SameSpec
<1>1. ASSUME UNCHANGED <<time, generated, next_issue_ready, blocked_since>>
      PROVE  BlockedOnTime'
  BY <1>a, <1>s, <1>1 DEF BlockedOnTime, HasMore
<1>2. CASE CompleteService
  <2>1. UNCHANGED <<time, generated, next_issue_ready, blocked_since>>
    BY <1>2, CompletionFacts
  <2> QED BY <1>1, <2>1
<1>3. CASE StartService \/ ServiceSettled \/ Ended \/ UNCHANGED vars
  BY <1>1, <1>3 DEF StartService, ServiceSettled, Ended, vars, lanes
<1>4. CASE \E l \in Lanes : IssueRequest(l)
  <2>1. PICK k \in Lanes : IssueRequest(k)
    BY <1>4
  <2>2. PICK gap \in Nat : next_issue_ready' = [next_issue_ready EXCEPT ![k] = time + gap]
    BY <2>1, IssueFacts
  <2>3. /\ generated' = [generated EXCEPT ![k] = @ + 1]
        /\ blocked_since' = [blocked_since EXCEPT ![k] = NotBlocked]
        /\ time' = time
    BY <2>1 DEF IssueRequest, CloseBlocked
  <2>4. ~(next_issue_ready'[k] < time') /\ blocked_since'[k] = NotBlocked
    BY <1>a, <2>2, <2>3
  <2>5. \A l \in Lanes \ {k} :
          /\ next_issue_ready'[l] = next_issue_ready[l]
          /\ generated'[l] = generated[l]
          /\ blocked_since'[l] = blocked_since[l]
    BY <1>a, <2>2, <2>3
  <2> QED BY <1>a, <1>s, <2>3, <2>4, <2>5 DEF BlockedOnTime, HasMore
<1>5. CASE MarkBlocked
  <2>1. /\ \A l \in Lanes : blocked_since'[l] =
             IF ReadyToIssue(l) /\ blocked_since[l] = NotBlocked
               THEN time ELSE blocked_since[l]
        /\ UNCHANGED <<time, generated, next_issue_ready>>
    BY <1>5 DEF MarkBlocked
  <2>2. \A l \in Lanes :
          ReadyToIssue(l) /\ blocked_since[l] = NotBlocked => next_issue_ready[l] = time
    BY <1>a DEF BlockedOnTime, ReadyToIssue, HasMore
  <2> QED BY <1>a, <1>s, <2>1, <2>2 DEF BlockedOnTime, HasMore, ReadyToIssue
<1>6. CASE AdvanceOrReturn
  <2>1. /\ stage = "restart"
        /\ UNCHANGED <<generated, next_issue_ready, blocked_since>>
    BY <1>6, AdvanceFacts DEF lanes
  <2>2. CASE Return
    BY <1>1, <2>1, <2>2 DEF Return
  <2>3. CASE AdvanceTo(Earliest(EventTimes)) /\ \A t \in EventTimes : Earliest(EventTimes) <= t
    <3>1. \A l \in Lanes : HasMore(l) /\ next_issue_ready[l] > time =>
                             next_issue_ready[l] >= time'
      BY <1>a, <2>3 DEF AdvanceTo, EventTimes
    <3>2. \A l \in Lanes : HasMore(l) /\ next_issue_ready[l] <= time =>
                             blocked_since[l] # NotBlocked
      BY <2>1 DEF Inv, StageInv, ReadyToIssue, HasMore
    <3>3. time' \in Nat
      BY TypeStep DEF TypeOK
    <3> QED BY <1>a, <1>s, <2>1, <3>1, <3>2, <3>3 DEF BlockedOnTime, HasMore
  <2> QED BY <1>6, <2>2, <2>3, AdvanceFacts
<1> QED BY <1>2, <1>3, <1>4, <1>5, <1>6 DEF Next
-----------------------------------------------------------------------------
(* The stages.                                                             *)
LEMMA StageStep ==
  ASSUME Inv, [Next]_vars
  PROVE  NeverThrows' /\ StageInv'
<1>a. TypeOK /\ NeverThrows /\ StageInv
  BY DEF Inv
<1>s. spec' = spec /\ Lanes' = Lanes
  BY SameSpec
<1>1. CASE CompleteService
  <2>1. stage' = "serve"
    BY <1>1, CompletionFacts
  <2> QED BY <2>1 DEF NeverThrows, StageInv
<1>2. CASE StartService
  <2>1. /\ current_service' = <<current_service'[1]>>
        /\ current_service'[1].service_end > time
    BY <1>2, StartFacts
  <2>2. PICK c : current_service' = <<c>> /\ c.service_end > time
    BY <2>1
  <2>3. DOMAIN current_service' = {1} /\ current_service'[1] = c /\ current_service' # <<>>
    BY <2>2
  <2>4. UNCHANGED <<time, stage, generated, next_issue_ready, blocked_since>>
    BY <1>2 DEF StartService, lanes
  <2> QED BY <1>a, <1>s, <2>2, <2>3, <2>4 DEF NeverThrows, StageInv, ReadyToIssue
<1>3. CASE ServiceSettled
  <2>1. \A k \in DOMAIN current_service : current_service[k].service_end > time
    <3>1. CASE current_service = <<>>
      BY <3>1
    <3>2. CASE current_service # <<>>
      <4>1. /\ current_service = <<current_service[1]>>
            /\ current_service[1] \in InService
        BY <3>2, OneInService
      <4>2. PICK c \in InService : current_service = <<c>>
        BY <4>1
      <4>3. DOMAIN current_service = {1} /\ current_service[1] = c
        BY <4>2
      <4>4. ~(c.service_end <= time) /\ c.service_end \in Nat /\ time \in Nat
        BY <1>3, <1>a, <3>2, <4>3 DEF ServiceSettled, ServiceEnded, InService, TypeOK
      <4> QED BY <4>3, <4>4
    <3> QED BY <3>1, <3>2
  <2>2. stage' = "issue" /\ time' = time /\ current_service' = current_service
    BY <1>3 DEF ServiceSettled, memory
  <2> QED BY <2>1, <2>2 DEF NeverThrows, StageInv
<1>4. CASE \E l \in Lanes : IssueRequest(l)
  <2>1. stage = "issue" /\ UNCHANGED <<stage, time, current_service>>
    BY <1>4 DEF IssueRequest
  <2> QED BY <1>a, <2>1 DEF NeverThrows, StageInv
<1>5. CASE MarkBlocked
  <2>1. /\ stage = "issue" /\ stage' = "restart"
        /\ UNCHANGED <<time, generated, next_issue_ready, memory>>
        /\ \A l \in Lanes : ~can_issue(l)
        /\ \A l \in Lanes : blocked_since'[l] =
             IF ReadyToIssue(l) /\ blocked_since[l] = NotBlocked
               THEN time ELSE blocked_since[l]
    BY <1>5 DEF MarkBlocked
  <2>2. ASSUME NEW l \in Lanes, ReadyToIssue(l)'
        PROVE  /\ blocked_since'[l] # NotBlocked
               /\ ~(current_service' = <<>> /\ memory_queue' = <<>>)
    <3>1. ReadyToIssue(l)
      BY <1>s, <2>1, <2>2 DEF ReadyToIssue
    <3>2. time # NotBlocked
      BY <1>a DEF TypeOK, NotBlocked
    <3>3. ASSUME current_service = <<>>, memory_queue = <<>> PROVE FALSE
      <4>1. outstanding[l] = Cardinality(OfLane(<<>>, l)) + Cardinality(OfLane(<<>>, l))
        BY <3>3, Counts
      <4>2. outstanding[l] = 0 /\ global_outstanding = 0
        BY <3>3, <4>1, SingleCounts DEF Inv, Accounted
      <4>3. Len(memory_queue) = 0
        BY <3>3
      <4>4. spec \in Cases
        BY <1>a DEF TypeOK
      <4> QED BY <2>1, <3>1, <4>2, <4>3, <4>4, SpecFacts DEF can_issue
    <3> QED BY <2>1, <3>1, <3>2, <3>3 DEF memory
  <2>3. stage' # "threw"
    BY <2>1
  <2> QED BY <1>a, <1>s, <2>1, <2>2, <2>3 DEF NeverThrows, StageInv, memory
<1>6. CASE AdvanceOrReturn
  <2>1. stage' \in {"serve", "done"}
    BY <1>6, AdvanceFacts DEF Return, AdvanceTo
  <2> QED BY <2>1 DEF NeverThrows, StageInv
<1>7. CASE Ended \/ UNCHANGED vars
  BY <1>a, <1>s, <1>7
     DEF Ended, vars, lanes, memory, NeverThrows, StageInv, ReadyToIssue
<1> QED BY <1>1, <1>2, <1>3, <1>4, <1>5, <1>6, <1>7 DEF Next
-----------------------------------------------------------------------------
(* Every step keeps the invariant.                                         *)
LEMMA InvStep == Inv /\ [Next]_vars => Inv'
BY TypeStep, CountStep, BlockedStep, StageStep DEF Inv

(* The inductive invariant holds in every reachable state.                 *)
THEOREM Invariance == Spec => []Inv
<1> QED BY InitInv, InvStep, PTL DEF Spec

(* Every variable of run_case keeps its type for every case.               *)
THEOREM TypeCorrect == Spec => []TypeOK
<1>1. Inv => TypeOK
  BY DEF Inv
<1> QED BY <1>1, Invariance, PTL

(* run_case never throws: no count underflows, the next event exists while *)
(* work remains, and every round of the event loop makes progress.         *)
THEOREM ExceptionFree == Spec => []NeverThrows
<1>1. Inv => NeverThrows
  BY DEF Inv
<1> QED BY <1>1, Invariance, PTL

(* The two levels of outstanding counts agree with the queue and the       *)
(* server, and none of them ever exceeds its limit.                        *)
THEOREM CountsAgree == Spec => []Accounted
<1>1. Inv => Accounted
  BY DEF Inv
<1> QED BY <1>1, Invariance, PTL

(* The event loop never jumps over the time at which a lane is ready, so   *)
(* every blocked interval starts exactly when its lane could have issued.  *)
THEOREM BlockedFromTheStart == Spec => []BlockedOnTime
<1>1. Inv => BlockedOnTime
  BY DEF Inv
<1> QED BY <1>1, Invariance, PTL
-----------------------------------------------------------------------------
(* The sum of the ages of the requests of seq at time t, as LittlesLaw     *)
(* writes it.                                                              *)
AgeSum(seq, t) == LET age(r) == t - r.issue_time IN SumOver(seq, age)

(* f holds the partial sums of the ages.                                   *)
IsAgeSum(f, seq, t) ==
  /\ f \in [0..Len(seq) -> Int]
  /\ f[0] = 0
  /\ \A k \in 1..Len(seq) : f[k] = f[k - 1] + (t - seq[k].issue_time)

(* A set of naturals that is not empty has a least element.                *)
LEMMA LeastElement ==
  ASSUME NEW S \in SUBSET Nat, S # {}
  PROVE  \E n \in S : \A m \in S : n <= m
BY EarliestExists

(* Two functions of partial sums are equal: else they differ first         *)
(* somewhere, where they add the same to equal sums.                       *)
LEMMA AgeSumUnique ==
  ASSUME NEW seq, Len(seq) \in Nat, NEW t,
         NEW f, IsAgeSum(f, seq, t), NEW g, IsAgeSum(g, seq, t)
  PROVE  f = g
<1> DEFINE D == {k \in 0..Len(seq) : f[k] # g[k]}
<1>1. SUFFICES ASSUME D # {} PROVE FALSE
  <2>1. D = {} => \A k \in 0..Len(seq) : f[k] = g[k]
    OBVIOUS
  <2> QED BY <1>1, <2>1 DEF IsAgeSum
<1>2. D \in SUBSET Nat
  OBVIOUS
<1>3. PICK n \in D : \A m \in D : n <= m
  BY <1>1, <1>2, LeastElement
<1>4. n # 0
  BY DEF IsAgeSum
<1>5. n \in 1..Len(seq) /\ n - 1 \in 0..Len(seq) /\ n - 1 \notin D
  BY <1>3, <1>4
<1>6. f[n - 1] = g[n - 1]
  BY <1>5
<1>7. f[n] = g[n]
  BY <1>5, <1>6 DEF IsAgeSum
<1> QED BY <1>7

(* Partial sums exist for every sequence: a first length without them      *)
(* would have a predecessor with them.                                     *)
LEMMA PartialSums ==
  ASSUME NEW seq, Len(seq) \in Nat, NEW t \in Int,
         \A k \in 1..Len(seq) : seq[k].issue_time \in Int
  PROVE  \E f : IsAgeSum(f, seq, t)
<1> DEFINE Sums(f, n) == /\ f \in [0..n -> Int]
                         /\ f[0] = 0
                         /\ \A k \in 1..n : f[k] = f[k - 1] + (t - seq[k].issue_time)
           D == {n \in 0..Len(seq) : ~\E f : Sums(f, n)}
<1>1. SUFFICES ASSUME D # {} PROVE FALSE
  <2> HIDE DEF Sums
  <2>1. D = {} => \E f : Sums(f, Len(seq))
    OBVIOUS
  <2> USE DEF Sums
  <2> QED BY <1>1, <2>1 DEF IsAgeSum
<1>2. D \in SUBSET Nat /\ D \subseteq 0..Len(seq)
  OBVIOUS
<1>3. PICK n \in D : \A m \in D : n <= m
  BY <1>1, <1>2, LeastElement
<1>4. n # 0
  <2>1. Sums([k \in 0..0 |-> 0], 0)
    OBVIOUS
  <2> QED BY <2>1
<1>5. n \in 1..Len(seq) /\ n - 1 \in 0..Len(seq) /\ n - 1 \notin D
  <2> HIDE DEF D
  <2>1. n \in 0..Len(seq)
    BY <1>2, <1>3
  <2> QED BY <1>3, <1>4, <2>1
<1>6. PICK f : Sums(f, n - 1)
  BY <1>5
<1> DEFINE g == [k \in 0..n |-> IF k = n THEN f[n - 1] + (t - seq[n].issue_time) ELSE f[k]]
<1>7. Sums(g, n)
  <2>1. n - 1 \in 0..(n - 1) /\ 0 \in 0..(n - 1) /\ n \in Nat
    BY <1>5
  <2>2. f[n - 1] + (t - seq[n].issue_time) \in Int
    BY <1>5, <1>6, <2>1
  <2>3. \A k \in 0..n : k # n => k \in 0..(n - 1)
    BY <2>1
  <2>4. g \in [0..n -> Int]
    BY <1>6, <2>2, <2>3
  <2>5. g[0] = 0
    BY <1>4, <1>6, <2>1
  <2>6. ASSUME NEW k \in 1..n PROVE g[k] = g[k - 1] + (t - seq[k].issue_time)
    <3>1. k \in 0..n /\ k - 1 \in 0..n /\ k - 1 # n /\ (k # n => k \in 1..(n - 1))
      BY <2>1
    <3> QED BY <1>6, <3>1
  <2> QED BY <2>4, <2>5, <2>6
<1> QED BY <1>7

(* So the recursive definition is the last of the partial sums.            *)
LEMMA AgeSumIs ==
  ASSUME NEW seq, Len(seq) \in Nat, NEW t \in Int,
         \A k \in 1..Len(seq) : seq[k].issue_time \in Int,
         NEW f, IsAgeSum(f, seq, t)
  PROVE  AgeSum(seq, t) = f[Len(seq)]
<1> DEFINE F(h) == h = [k \in 0..Len(seq) |->
                          IF k = 0 THEN 0 ELSE h[k - 1] + (t - seq[k].issue_time)]
           sum == CHOOSE h : F(h)
<1>1. F(f)
  BY DEF IsAgeSum
<1>2. F(sum)
  BY <1>1
<1>3. AgeSum(seq, t) = sum[Len(seq)]
  BY DEF AgeSum, SumOver
<1> HIDE DEF sum
<1> DEFINE D == {k \in 0..Len(seq) : sum[k] # f[k]}
<1>4. ASSUME D # {} PROVE FALSE
  <2>1. D \in SUBSET Nat /\ D \subseteq 0..Len(seq)
    OBVIOUS
  <2>2. PICK n \in D : \A m \in D : n <= m
    BY <1>4, <2>1, LeastElement
  <2>3. n # 0
    BY <1>2 DEF IsAgeSum
  <2>4. n \in 1..Len(seq) /\ n - 1 \in 0..Len(seq) /\ n - 1 \notin D
    BY <2>1, <2>2, <2>3
  <2>5. sum[n - 1] = f[n - 1]
    BY <2>4
  <2>6. sum[n] = sum[n - 1] + (t - seq[n].issue_time)
    BY <1>2, <2>4
  <2> QED BY <2>4, <2>5, <2>6 DEF IsAgeSum
<1>5. sum[Len(seq)] = f[Len(seq)]
  BY <1>4
<1> QED BY <1>3, <1>5

(* S holds things that were issued at some time.                           *)
Dated(S) == \A r \in S : r.issue_time \in Int

(* The sums over the sequences the event loop builds.                      *)
LEMMA DatedSums ==
  ASSUME NEW S, Dated(S), NEW seq \in Seq(S), NEW t \in Int
  PROVE  /\ Len(seq) \in Nat
         /\ \A k \in 1..Len(seq) : seq[k].issue_time \in Int
         /\ \E f : IsAgeSum(f, seq, t)
         /\ AgeSum(seq, t) \in Int
<1>1. /\ Len(seq) \in Nat
      /\ \A k \in 1..Len(seq) : seq[k].issue_time \in Int
  BY DEF Dated
<1>2. PICK f : IsAgeSum(f, seq, t)
  BY <1>1, PartialSums
<1>3. AgeSum(seq, t) = f[Len(seq)]
  BY <1>1, <1>2, AgeSumIs
<1> QED BY <1>1, <1>2, <1>3 DEF IsAgeSum

(* Nothing has no age.                                                     *)
LEMMA AgeSumEmpty ==
  ASSUME NEW t \in Int
  PROVE  AgeSum(<<>>, t) = 0
<1>1. <<>> \in Seq({}) /\ Len(<<>>) = 0 /\ Dated({})
  BY DEF Dated
<1>2. PICK f : IsAgeSum(f, <<>>, t)
  BY <1>1, DatedSums
<1> QED BY <1>1, <1>2, AgeSumIs, DatedSums DEF IsAgeSum

(* A request at the end adds its age.                                      *)
LEMMA AgeSumAppend ==
  ASSUME NEW S, Dated(S), NEW seq \in Seq(S), NEW r \in S, NEW t \in Int
  PROVE  AgeSum(Append(seq, r), t) = AgeSum(seq, t) + (t - r.issue_time)
<1> DEFINE longer == Append(seq, r)
<1>1. /\ longer \in Seq(S) /\ Len(longer) = Len(seq) + 1 /\ Len(seq) \in Nat
      /\ \A k \in 1..Len(seq) : longer[k] = seq[k]
      /\ longer[Len(seq) + 1] = r
  OBVIOUS
<1> HIDE DEF longer
<1>2. PICK f : IsAgeSum(f, longer, t)
  BY <1>1, DatedSums
<1> DEFINE g == [k \in 0..Len(seq) |-> f[k]]
<1>3. IsAgeSum(g, seq, t)
  <2>1. /\ f \in [0..(Len(seq) + 1) -> Int] /\ f[0] = 0
        /\ \A k \in 1..(Len(seq) + 1) : f[k] = f[k - 1] + (t - longer[k].issue_time)
    BY <1>1, <1>2 DEF IsAgeSum
  <2>2. g \in [0..Len(seq) -> Int] /\ g[0] = 0
    BY <1>1, <2>1
  <2>3. ASSUME NEW k \in 1..Len(seq) PROVE g[k] = g[k - 1] + (t - seq[k].issue_time)
    <3>1. k \in 0..Len(seq) /\ k - 1 \in 0..Len(seq) /\ k \in 1..(Len(seq) + 1)
      BY <1>1
    <3> QED BY <1>1, <2>1, <3>1
  <2> QED BY <2>2, <2>3 DEF IsAgeSum
<1>4. AgeSum(seq, t) = f[Len(seq)]
  <2>1. AgeSum(seq, t) = g[Len(seq)]
    BY <1>3, DatedSums, AgeSumIs
  <2> QED BY <1>1, <2>1
<1>5. AgeSum(longer, t) = f[Len(seq) + 1]
  BY <1>1, <1>2, DatedSums, AgeSumIs
<1>6. f[Len(seq) + 1] = f[Len(seq)] + (t - r.issue_time)
  <2>1. Len(seq) + 1 \in 1..Len(longer) /\ (Len(seq) + 1) - 1 = Len(seq)
    BY <1>1
  <2> QED BY <1>1, <1>2, <2>1 DEF IsAgeSum
<1> QED BY <1>4, <1>5, <1>6 DEF longer

(* The request at the head takes its age with it.                          *)
LEMMA AgeSumTail ==
  ASSUME NEW S, Dated(S), NEW seq \in Seq(S), seq # <<>>, NEW t \in Int
  PROVE  AgeSum(seq, t) = AgeSum(Tail(seq), t) + (t - Head(seq).issue_time)
<1> DEFINE rest == Tail(seq)
           a == t - Head(seq).issue_time
<1>1. /\ rest \in Seq(S) /\ Len(rest) = Len(seq) - 1 /\ Len(seq) \in Nat /\ Len(seq) >= 1
      /\ \A k \in 1..Len(rest) : rest[k] = seq[k + 1]
      /\ seq[1] = Head(seq) /\ Head(seq) \in S
  OBVIOUS
<1> HIDE DEF rest
<1>2. PICK f : IsAgeSum(f, seq, t)
  BY DatedSums
<1>3. /\ f \in [0..Len(seq) -> Int] /\ f[0] = 0
      /\ \A k \in 1..Len(seq) : f[k] = f[k - 1] + (t - seq[k].issue_time)
      /\ Len(rest) \in Nat /\ Len(seq) = Len(rest) + 1
  BY <1>1, <1>2 DEF IsAgeSum
<1>4. a \in Int /\ f[1] = a
  <2>1. a \in Int
    BY <1>1 DEF Dated
  <2>2. 1 \in 1..Len(seq) /\ 1 - 1 = 0
    BY <1>1
  <2>3. f[1] = f[0] + (t - seq[1].issue_time)
    BY <1>3, <2>2
  <2> QED BY <1>1, <1>3, <2>1, <2>3
<1> DEFINE g == [k \in 0..Len(rest) |-> f[k + 1] - f[1]]
<1> HIDE DEF a
<1>5. IsAgeSum(g, rest, t)
  <2>1. \A k \in 0..Len(rest) : k + 1 \in 0..Len(seq) /\ f[k + 1] \in Int
    BY <1>3
  <2>2. g \in [0..Len(rest) -> Int]
    BY <1>3, <1>4, <2>1
  <2>3. g[0] = 0
    BY <1>3, <1>4
  <2>4. ASSUME NEW k \in 1..Len(rest) PROVE g[k] = g[k - 1] + (t - rest[k].issue_time)
    <3>1. /\ k \in 0..Len(rest) /\ k - 1 \in 0..Len(rest) /\ (k - 1) + 1 = k
          /\ k + 1 \in 1..Len(seq) /\ (k + 1) - 1 = k
      BY <1>3
    <3>2. f[k + 1] = f[k] + (t - rest[k].issue_time)
      BY <1>1, <1>3, <3>1
    <3>3. g[k] = f[k + 1] - f[1] /\ g[k - 1] = f[k] - f[1]
      BY <3>1
    <3>4. f[k] \in Int /\ f[k + 1] \in Int /\ f[1] \in Int
      BY <1>3, <1>4, <2>1, <3>1
    <3>5. t - rest[k].issue_time \in Int
      <4>1. rest[k] \in S
        BY <1>1
      <4> QED BY <4>1 DEF Dated
    <3> QED BY <3>2, <3>3, <3>4, <3>5
  <2> QED BY <2>2, <2>3, <2>4 DEF IsAgeSum
<1>6. AgeSum(rest, t) = g[Len(rest)]
  BY <1>1, <1>5, DatedSums, AgeSumIs
<1>7. AgeSum(seq, t) = f[Len(seq)]
  BY <1>2, DatedSums, AgeSumIs
<1>8. g[Len(rest)] = f[Len(seq)] - a /\ f[Len(seq)] \in Int
  BY <1>3, <1>4
<1> QED BY <1>4, <1>6, <1>7, <1>8 DEF rest, a

(* Every one of them ages with the time.                                   *)
LEMMA AgeSumLater ==
  ASSUME NEW S, Dated(S), NEW seq \in Seq(S), NEW t \in Int, NEW u \in Int
  PROVE  AgeSum(seq, u) = AgeSum(seq, t) + Len(seq) * (u - t)
<1> DEFINE d == u - t
<1>1. Len(seq) \in Nat /\ d \in Int
  OBVIOUS
<1>2. PICK f : IsAgeSum(f, seq, t)
  BY DatedSums
<1> DEFINE g == [k \in 0..Len(seq) |-> f[k] + k * d]
<1>3. /\ f \in [0..Len(seq) -> Int] /\ f[0] = 0
      /\ \A k \in 1..Len(seq) : f[k] = f[k - 1] + (t - seq[k].issue_time)
  BY <1>2 DEF IsAgeSum
<1>4. u = t + d
  OBVIOUS
<1> HIDE DEF d
<1>5. IsAgeSum(g, seq, u)
  <2>1. \A k \in 0..Len(seq) : k * d \in Int
    BY <1>1
  <2>2. g \in [0..Len(seq) -> Int]
    BY <1>3, <2>1
  <2>3. g[0] = 0
    <3>1. 0 * d = 0 /\ 0 \in 0..Len(seq)
      BY <1>1
    <3> QED BY <1>3, <3>1
  <2>4. ASSUME NEW k \in 1..Len(seq) PROVE g[k] = g[k - 1] + (u - seq[k].issue_time)
    <3>1. k \in 0..Len(seq) /\ k - 1 \in 0..Len(seq) /\ k \in Int
      BY <1>1
    <3>2. k * d = (k - 1) * d + d /\ (k - 1) * d \in Int /\ k * d \in Int
      BY <1>1, <3>1
    <3>3. seq[k].issue_time \in Int /\ f[k] \in Int /\ f[k - 1] \in Int
      BY <1>3, <3>1, DatedSums
    <3>4. g[k] = f[k] + k * d /\ g[k - 1] = f[k - 1] + (k - 1) * d
      BY <3>1
    <3>5. f[k] = f[k - 1] + (t - seq[k].issue_time)
      BY <1>3
    <3> DEFINE x == (k - 1) * d
               y == k * d
               z == seq[k].issue_time
    <3> HIDE DEF x, y, z
    <3>6. f[k - 1] + (t - z) + y = f[k - 1] + x + (t + d - z)
      <4>1. y = x + d /\ x \in Int /\ y \in Int /\ z \in Int /\ t \in Int /\ d \in Int
        BY <1>1, <3>2, <3>3 DEF x, y, z
      <4> QED BY <3>3, <4>1
    <3> QED BY <1>4, <3>4, <3>5, <3>6 DEF x, y, z
  <2> QED BY <2>2, <2>3, <2>4 DEF IsAgeSum
<1>6. AgeSum(seq, u) = g[Len(seq)]
  BY <1>5, DatedSums, AgeSumIs
<1>7. AgeSum(seq, t) = f[Len(seq)]
  BY <1>2, DatedSums, AgeSumIs
<1>8. g[Len(seq)] = f[Len(seq)] + Len(seq) * d
  BY <1>1
<1> QED BY <1>6, <1>7, <1>8 DEF d

(* LittlesLaw, and that the request in service is not completed late: its  *)
(* age at completion is the latency its record reports.                    *)
LittleInv ==
  /\ \A k \in DOMAIN current_service : current_service[k].service_end >= time
  /\ queue_depth_area = queue_delay_total + AgeSum(memory_queue, time)
  /\ outstanding_area = latency_total + AgeSum(memory_queue, time)
                          + AgeSum(current_service, time)

(* The sums of a state are numbers.                                        *)
LEMMA SumsAreNumbers ==
  ASSUME TypeOK
  PROVE  /\ AgeSum(memory_queue, time) \in Int /\ AgeSum(current_service, time) \in Int
         /\ time \in Nat /\ memory_queue \in Seq(Requests) /\ current_service \in Seq(InService)
         /\ Dated(Requests) /\ Dated(InService)
         /\ queue_depth_area \in Int /\ outstanding_area \in Int
         /\ queue_delay_total \in Int /\ latency_total \in Int
<1>1. Dated(Requests) /\ Dated(InService)
  BY DEF Dated, Requests, InService
<1>2. /\ time \in Nat /\ time \in Int
      /\ memory_queue \in Seq(Requests) /\ current_service \in Seq(InService)
      /\ queue_depth_area \in Int /\ outstanding_area \in Int
      /\ queue_delay_total \in Int /\ latency_total \in Int
  BY DEF TypeOK
<1> QED BY <1>1, <1>2, DatedSums

(* The request in service is the only one.                                 *)
LEMMA AgeSumOne ==
  ASSUME NEW S, Dated(S), NEW r \in S, NEW t \in Int
  PROVE  AgeSum(<<r>>, t) = t - r.issue_time
<1>1. <<>> \in Seq(S) /\ Append(<<>>, r) = <<r>>
  OBVIOUS
<1>2. AgeSum(<<r>>, t) = AgeSum(<<>>, t) + (t - r.issue_time)
  BY <1>1, AgeSumAppend
<1>3. t - r.issue_time \in Int
  BY DEF Dated
<1> QED BY <1>2, <1>3, AgeSumEmpty

(* No time has passed and nothing is under way.                            *)
LEMMA InitLittle == Init => LittleInv
<1> SUFFICES ASSUME Init PROVE LittleInv
  OBVIOUS
<1>1. /\ time = 0 /\ memory_queue = <<>> /\ current_service = <<>> /\ queue_depth_area = 0
      /\ outstanding_area = 0 /\ queue_delay_total = 0 /\ latency_total = 0
  BY DEF Init
<1>2. AgeSum(<<>>, 0) = 0
  BY AgeSumEmpty
<1>3. AgeSum(memory_queue, time) = 0 /\ AgeSum(current_service, time) = 0
  BY <1>1, <1>2
<1> QED BY <1>1, <1>3 DEF LittleInv

(* A completion turns the age of the request into its latency.             *)
LEMMA CompletionLittle ==
  ASSUME Inv, LittleInv, CompleteService
  PROVE  LittleInv'
<1> DEFINE r == current_service[1]
<1>1. /\ r \in InService /\ current_service = <<r>>
      /\ latency_total' = latency_total + r.service_end - r.issue_time
      /\ current_service' = <<>> /\ memory_queue' = memory_queue /\ time' = time
      /\ queue_depth_area' = queue_depth_area /\ outstanding_area' = outstanding_area
      /\ queue_delay_total' = queue_delay_total
  BY CompletionFacts
<1>2. r.service_end = time
  <2>1. r.service_end <= time /\ 1 \in DOMAIN current_service
    BY <1>1 DEF CompleteService, ServiceEnded
  <2>2. r.service_end >= time
    BY <2>1 DEF LittleInv
  <2>3. r.service_end \in Nat /\ time \in Nat
    BY <1>1 DEF InService, Inv, TypeOK
  <2> HIDE DEF r
  <2> QED BY <2>1, <2>2, <2>3
<1>3. /\ AgeSum(current_service, time) = time - r.issue_time /\ r.issue_time \in Int
      /\ AgeSum(<<>>, time) = 0
  BY <1>1, SumsAreNumbers, AgeSumOne, AgeSumEmpty DEF Inv, Dated
<1>4. /\ AgeSum(memory_queue, time)' = AgeSum(memory_queue, time)
      /\ AgeSum(current_service, time)' = AgeSum(<<>>, time)
  <2>1. AgeSum(memory_queue', time') = AgeSum(memory_queue, time)
    BY <1>1
  <2>2. AgeSum(current_service', time') = AgeSum(<<>>, time)
    BY <1>1
  <2> QED BY <2>1, <2>2
<1>5. /\ AgeSum(memory_queue, time) \in Int /\ AgeSum(current_service, time) \in Int
      /\ queue_depth_area \in Int /\ outstanding_area \in Int
      /\ queue_delay_total \in Int /\ latency_total \in Int /\ time \in Int
  <2>1. TypeOK
    BY DEF Inv
  <2> QED BY <2>1, SumsAreNumbers
<1> HIDE DEF r
<1>6. /\ queue_depth_area = queue_delay_total + AgeSum(memory_queue, time)
      /\ outstanding_area = latency_total + AgeSum(memory_queue, time) + (time - r.issue_time)
  BY <1>3 DEF LittleInv
<1>7. latency_total' = latency_total + (time - r.issue_time)
  BY <1>1, <1>2, <1>3, <1>5
<1>8. outstanding_area = latency_total' + AgeSum(memory_queue, time) + 0
  BY <1>3, <1>5, <1>6, <1>7
<1> QED BY <1>1, <1>3, <1>4, <1>6, <1>8 DEF LittleInv

(* A start turns the age of the request into its queue delay.              *)
LEMMA StartLittle ==
  ASSUME Inv, LittleInv, StartService
  PROVE  LittleInv'
<1> DEFINE r == Head(memory_queue)
           s == [lane |-> r.lane, issue_time |-> r.issue_time,
                 service_end |-> time + service_delay(r)]
<1>0. TypeOK
  BY DEF Inv
<1>1. /\ memory_queue # <<>> /\ r \in Requests /\ current_service = <<>>
      /\ memory_queue' = Tail(memory_queue) /\ current_service' = <<s>>
      /\ current_service'[1] \in InService /\ current_service'[1].service_end > time
      /\ time' = time
      /\ queue_delay_total' = queue_delay_total + time - r.issue_time
      /\ queue_depth_area' = queue_depth_area /\ outstanding_area' = outstanding_area
      /\ latency_total' = latency_total
  BY StartFacts DEF StartService
<1>2. s \in InService /\ s.service_end > time /\ s.issue_time = r.issue_time
  BY <1>1
<1> HIDE DEF s, r
<1>3. AgeSum(memory_queue, time) = AgeSum(Tail(memory_queue), time) + (time - r.issue_time)
  BY <1>0, <1>1, SumsAreNumbers, AgeSumTail DEF r
<1>4. /\ AgeSum(<<s>>, time) = time - r.issue_time
      /\ AgeSum(<<>>, time) = 0
  BY <1>0, <1>2, SumsAreNumbers, AgeSumOne, AgeSumEmpty
<1>5. /\ AgeSum(memory_queue, time)' = AgeSum(Tail(memory_queue), time)
      /\ AgeSum(current_service, time)' = AgeSum(<<s>>, time)
      /\ AgeSum(current_service, time) = AgeSum(<<>>, time)
  <2>1. AgeSum(memory_queue', time') = AgeSum(Tail(memory_queue), time)
    BY <1>1
  <2>2. AgeSum(current_service', time') = AgeSum(<<s>>, time)
    BY <1>1
  <2>3. AgeSum(current_service, time) = AgeSum(<<>>, time)
    BY <1>1
  <2> QED BY <2>1, <2>2, <2>3
<1>6. AgeSum(Tail(memory_queue), time) \in Int /\ r.issue_time \in Int
  <2>1. Tail(memory_queue) \in Seq(Requests)
    BY <1>0, <1>1, SumsAreNumbers
  <2>2. Dated(Requests) /\ time \in Int
    BY <1>0, SumsAreNumbers
  <2>3. r.issue_time \in Int
    BY <1>1, <2>2 DEF Dated
  <2> QED BY <2>1, <2>2, <2>3, DatedSums
<1>7. \A k \in DOMAIN current_service' : current_service'[k].service_end >= time'
  <2>1. time \in Nat /\ s.service_end \in Nat
    BY <1>0, <1>2 DEF InService, TypeOK
  <2> QED BY <1>1, <1>2, <2>1
<1>8. /\ AgeSum(memory_queue, time) \in Int /\ AgeSum(current_service, time) \in Int
      /\ queue_depth_area \in Int /\ outstanding_area \in Int
      /\ queue_delay_total \in Int /\ latency_total \in Int /\ time \in Int
  BY <1>0, SumsAreNumbers
<1>9. /\ queue_depth_area = queue_delay_total + AgeSum(memory_queue, time)
      /\ outstanding_area = latency_total + AgeSum(memory_queue, time) + 0
  BY <1>4, <1>5 DEF LittleInv
<1>10. queue_delay_total' = queue_delay_total + (time - r.issue_time)
  BY <1>1, <1>6, <1>8
<1>11. /\ queue_depth_area = queue_delay_total' + AgeSum(Tail(memory_queue), time)
       /\ outstanding_area = latency_total + AgeSum(Tail(memory_queue), time)
                               + AgeSum(<<s>>, time)
  <2> DEFINE a == AgeSum(Tail(memory_queue), time)
             i == r.issue_time
  <2>1. /\ AgeSum(memory_queue, time) = a + (time - i) /\ AgeSum(<<s>>, time) = time - i
        /\ a \in Int /\ i \in Int /\ queue_delay_total' = queue_delay_total + (time - i)
    BY <1>3, <1>4, <1>6, <1>10
  <2> HIDE DEF a, i
  <2>2. queue_depth_area = queue_delay_total' + a
    BY <1>8, <1>9, <2>1
  <2>3. outstanding_area = latency_total + a + AgeSum(<<s>>, time)
    BY <1>8, <1>9, <2>1
  <2> QED BY <2>2, <2>3 DEF a
<1> QED BY <1>1, <1>5, <1>7, <1>11 DEF LittleInv

(* A request is issued at age 0.                                           *)
LEMMA IssueLittle ==
  ASSUME Inv, LittleInv, NEW l \in Lanes, IssueRequest(l)
  PROVE  LittleInv'
<1> DEFINE r == [lane |-> l, sequence |-> generated[l], issue_time |-> time]
<1>0. TypeOK
  BY DEF Inv
<1>1. /\ r \in Requests /\ memory_queue' = Append(memory_queue, r)
      /\ time' = time /\ current_service' = current_service
      /\ queue_delay_total' = queue_delay_total
      /\ queue_depth_area' = queue_depth_area /\ outstanding_area' = outstanding_area
      /\ latency_total' = latency_total
  BY IssueFacts DEF IssueRequest, totals
<1>2. r.issue_time = time
  OBVIOUS
<1> HIDE DEF r
<1>3. AgeSum(Append(memory_queue, r), time) = AgeSum(memory_queue, time) + (time - time)
  BY <1>0, <1>1, <1>2, SumsAreNumbers, AgeSumAppend
<1>4. /\ AgeSum(memory_queue, time)' = AgeSum(Append(memory_queue, r), time)
      /\ AgeSum(current_service, time)' = AgeSum(current_service, time)
  <2>1. AgeSum(memory_queue', time') = AgeSum(Append(memory_queue, r), time)
    BY <1>1
  <2>2. AgeSum(current_service', time') = AgeSum(current_service, time)
    BY <1>1
  <2> QED BY <2>1, <2>2
<1>5. AgeSum(memory_queue, time)' = AgeSum(memory_queue, time)
  BY <1>0, <1>3, <1>4, SumsAreNumbers
<1>6. \A k \in DOMAIN current_service' : current_service'[k].service_end >= time'
  BY <1>1 DEF LittleInv
<1> QED BY <1>1, <1>4, <1>5, <1>6 DEF LittleInv

(* While time passes, the areas grow with the number of requests, and so   *)
(* does the sum of their ages.                                             *)
LEMMA AdvanceLittle ==
  ASSUME Inv, LittleInv, AdvanceOrReturn
  PROVE  LittleInv'
<1> DEFINE next == Earliest(EventTimes)
           d == next - time
<1>0. TypeOK /\ time \in Nat
  BY DEF Inv, TypeOK
<1>1. /\ UNCHANGED <<memory_queue, current_service, global_outstanding, queue_delay_total,
                     latency_total>>
      /\ \/ Return
         \/ /\ AdvanceTo(next)
            /\ next \in Nat
            /\ next > time
            /\ \A t \in EventTimes : next <= t
  BY AdvanceFacts DEF memory
<1>2. CASE Return
  <2>1. UNCHANGED <<memory_queue, current_service, time, queue_delay_total, latency_total,
                    queue_depth_area, outstanding_area>>
    BY <1>1, <1>2 DEF Return
  <2>2. /\ AgeSum(memory_queue', time') = AgeSum(memory_queue, time)
        /\ AgeSum(current_service', time') = AgeSum(current_service, time)
    BY <2>1
  <2> QED BY <2>1, <2>2 DEF LittleInv
<1>3. CASE /\ AdvanceTo(next) /\ next \in Nat /\ next > time
           /\ \A t \in EventTimes : next <= t
  <2> HIDE DEF next
  <2>1. /\ time' = next /\ next \in Nat
        /\ queue_depth_area' = queue_depth_area + Len(memory_queue) * d
        /\ outstanding_area' = outstanding_area + global_outstanding * d
    BY <1>3 DEF AdvanceTo
  <2>2. \A k \in DOMAIN current_service' : current_service'[k].service_end >= time'
    <3>1. ASSUME NEW k \in DOMAIN current_service PROVE current_service[k].service_end >= next
      <4>1. current_service[k].service_end \in EventTimes
        BY DEF EventTimes
      <4>2. current_service[k] \in InService
        BY <1>0, SumsAreNumbers
      <4>3. current_service[k].service_end \in Nat
        BY <4>2 DEF InService
      <4> QED BY <1>3, <4>1, <4>3
    <3> QED BY <1>1, <2>1, <3>1
  <2>3. /\ AgeSum(memory_queue, next) = AgeSum(memory_queue, time) + Len(memory_queue) * d
        /\ AgeSum(current_service, next) = AgeSum(current_service, time)
                                             + Len(current_service) * d
    <3>1. /\ Dated(Requests) /\ Dated(InService) /\ time \in Int /\ next \in Int
          /\ memory_queue \in Seq(Requests) /\ current_service \in Seq(InService)
      BY <1>0, <2>1, SumsAreNumbers
    <3>2. AgeSum(memory_queue, next) = AgeSum(memory_queue, time) + Len(memory_queue) * d
      BY <3>1, AgeSumLater
    <3>3. AgeSum(current_service, next) = AgeSum(current_service, time)
                                            + Len(current_service) * d
      BY <3>1, AgeSumLater
    <3> QED BY <3>2, <3>3
  <2>4. /\ AgeSum(memory_queue', time') = AgeSum(memory_queue, next)
        /\ AgeSum(current_service', time') = AgeSum(current_service, next)
    BY <1>1, <2>1
  <2>5. /\ global_outstanding = Len(memory_queue) + Len(current_service)
        /\ Len(memory_queue) \in Nat /\ Len(current_service) \in Nat /\ d \in Int
    <3>1. memory_queue \in Seq(Requests) /\ current_service \in Seq(InService)
      BY <1>0, SumsAreNumbers
    <3>2. global_outstanding = Len(memory_queue) + Len(current_service)
      BY DEF Inv, Accounted
    <3>3. d \in Int
      BY <1>0, <2>1
    <3>4. Len(memory_queue) \in Nat /\ Len(current_service) \in Nat
      BY <3>1
    <3> QED BY <3>2, <3>3, <3>4
  <2> HIDE DEF d
  <2>6. /\ global_outstanding * d = Len(memory_queue) * d + Len(current_service) * d
        /\ Len(memory_queue) * d \in Int /\ Len(current_service) * d \in Int
    BY <2>5
  <2>7. /\ AgeSum(memory_queue, time) \in Int /\ AgeSum(current_service, time) \in Int
        /\ queue_depth_area \in Int /\ outstanding_area \in Int
        /\ queue_delay_total \in Int /\ latency_total \in Int
    BY <1>0, SumsAreNumbers
  <2>8. /\ queue_depth_area = queue_delay_total + AgeSum(memory_queue, time)
        /\ outstanding_area = latency_total + AgeSum(memory_queue, time)
                                + AgeSum(current_service, time)
    BY DEF LittleInv
  <2>9. /\ queue_depth_area' = queue_delay_total + AgeSum(memory_queue, next)
        /\ outstanding_area' = latency_total + AgeSum(memory_queue, next)
                                 + AgeSum(current_service, next)
    <3> DEFINE q == Len(memory_queue) * d
               c == Len(current_service) * d
               g == global_outstanding * d
    <3>1. /\ g = q + c /\ q \in Int /\ c \in Int
          /\ queue_depth_area' = queue_depth_area + q
          /\ outstanding_area' = outstanding_area + g
          /\ AgeSum(memory_queue, next) = AgeSum(memory_queue, time) + q
          /\ AgeSum(current_service, next) = AgeSum(current_service, time) + c
      BY <2>1, <2>3, <2>6
    <3> HIDE DEF q, c, g
    <3>2. queue_depth_area' = queue_delay_total + AgeSum(memory_queue, next)
      BY <2>7, <2>8, <3>1
    <3>3. outstanding_area' = latency_total + AgeSum(memory_queue, next)
                                 + AgeSum(current_service, next)
      BY <2>7, <2>8, <3>1
    <3> QED BY <3>2, <3>3
  <2> QED BY <1>1, <2>2, <2>4, <2>9 DEF LittleInv
<1> QED BY <1>1, <1>2, <1>3

(* Every round of the loops keeps both equations.                          *)
LEMMA LittleStep == Inv /\ LittleInv /\ [Next]_vars => LittleInv'
<1> SUFFICES ASSUME Inv, LittleInv, [Next]_vars PROVE LittleInv'
  OBVIOUS
<1>1. CASE ServiceSettled \/ MarkBlocked \/ Ended \/ UNCHANGED vars
  <2>1. UNCHANGED <<memory_queue, current_service, time, queue_delay_total, latency_total,
                    queue_depth_area, outstanding_area>>
    BY <1>1 DEF ServiceSettled, MarkBlocked, Ended, vars, memory, totals
  <2>2. /\ AgeSum(memory_queue', time') = AgeSum(memory_queue, time)
        /\ AgeSum(current_service', time') = AgeSum(current_service, time)
    BY <2>1
  <2> QED BY <2>1, <2>2 DEF LittleInv
<1> QED BY <1>1, CompletionLittle, StartLittle, IssueLittle, AdvanceLittle DEF Next

(* Little's law holds at every event of every case: the integrals over     *)
(* time are the sums of the delays, so the averages main derives from the  *)
(* areas and those it derives from the records describe the same run.      *)
THEOREM LittlesLawHolds == Spec => []LittlesLaw
<1>1. LittleInv => LittlesLaw
  BY DEF LittleInv, LittlesLaw, AgeSum
<1>2. Spec => []LittleInv
  BY InitLittle, LittleStep, Invariance, PTL DEF Spec
<1> QED BY <1>1, <1>2, PTL
=============================================================================
