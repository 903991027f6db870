----------------------- MODULE FourPhaseMemoryProofs -----------------------
(***************************************************************************)
(* AT-1 for every set of options: the types, the accounting of the slots   *)
(* and the absence of SC_REPORT_FATAL, from the invariant Inv; then the    *)
(* timing of the trace, from TimingInv; and that the program implements    *)
(* FourPhaseLink.                                                          *)
(***************************************************************************)
EXTENDS FourPhaseMemory, SequenceTheorems, TLAPS

(* occupied_slots_ counts the requests of the four stages of the pipeline. *)
Counted ==
  /\ occupied_slots = Len(servicing) + Len(service_queue)
                        + Len(accepting) + Len(end_req_queue)
  /\ occupied_slots <= opt.queue_depth

(* issue_requests waits for END_REQ of a transaction it has stamped.       *)
AwaitedIsIssued ==
  awaiting_end_req => index \in Txns /\ record[index].begin_req \in Nat

(* The inductive invariant: END_REQ matches because only the awaited       *)
(* request is upstream, slots never underflow because they are counted.    *)
Inv ==
  /\ TypeOK
  /\ NeverAborts
  /\ Counted
  /\ NoIdleSlot
  /\ OneUpstream
  /\ AwaitedIsIssued

(* The length of the pipeline is the sum of its stages'.                   *)
LEMMA PipelineLength ==
  ASSUME TypeOK
  PROVE  Len(Pipeline) = Len(servicing) + Len(service_queue)
                           + Len(accepting) + Len(end_req_queue)
BY DEF TypeOK, TargetTypeOK, Pipeline

(* What a release admits is at most the one waiting request.               *)
LEMMA AdmittedIsWaiting ==
  ASSUME Inv, servicing # <<>>
  PROVE  Admitted = waiting_accept_queue
<1> USE TargetAssumption
<1>1. CASE waiting_accept_queue = <<>>
  BY <1>1 DEF Admitted
<1>2. CASE waiting_accept_queue # <<>>
  <2>1. waiting_accept_queue = <<index>>
    BY <1>2 DEF Inv, OneUpstream
  <2>2. /\ occupied_slots \in Nat /\ opt.queue_depth \in Nat
        /\ occupied_slots - 1 < opt.queue_depth
    BY OptionsAssumption DEF Inv, TypeOK, TargetTypeOK, Counted
  <2>3. CASE DrainAll
    <3>1. Len(waiting_accept_queue) = 1
      BY <2>1
    <3>2. Admitted = SubSeq(waiting_accept_queue, 1, 1)
      BY <1>2, <2>2, <2>3, <3>1 DEF Admitted
    <3>3. waiting_accept_queue \in Seq(Txns)
      BY DEF Inv, TypeOK, TargetTypeOK
    <3>4. SubSeq(waiting_accept_queue, 1, 1) = waiting_accept_queue
      BY <3>1, <3>3
    <3> QED BY <3>2, <3>4
  <2>4. CASE ~DrainAll
    BY <2>1, <2>2, <2>4 DEF Admitted
  <2> QED BY <2>3, <2>4
<1> QED BY <1>1, <1>2

(* The invariant holds when sc_start is called.                            *)
LEMMA InitInv == Init => Inv
<1> SUFFICES ASSUME Init PROVE Inv
  OBVIOUS
<1>2. opt.queue_depth \in Nat /\ opt.num_transactions \in Nat
  BY OptionsAssumption DEF Init
<1>1. TypeOK
  <2>1. KernelTypeOK(Threads, Events)
    BY DEF Init, Elaborate, ElaborateWith, KernelTypeOK, NotEvents
  <2>2. TargetTypeOK(Txns)
    BY DEF Init, TargetInit, TargetTypeOK
  <2>3. index \in 1..(opt.num_transactions + 1)
    BY <1>2 DEF Init
  <2>4. record \in [Txns -> Record]
    BY DEF Init, NewRecord, Record, Stamp, NaN
  <2>5. response_queue \in Seq(Txns) /\ responding \in Seq(Txns) /\ Len(responding) <= 1
    BY DEF Init
  <2>6. /\ opt \in Options /\ awaiting_end_req \in BOOLEAN /\ end_req_seen \in BOOLEAN
        /\ next_issue_time \in Nat /\ completed_responses \in Nat
    BY DEF Init
  <2> QED BY <2>1, <2>2, <2>3, <2>4, <2>5, <2>6 DEF TypeOK
<1> QED BY <1>1, <1>2 DEF Init, Elaborate, ElaborateWith, TargetInit, Inv, NeverAborts, Counted,
     NoIdleSlot, OneUpstream, AwaitedIsIssued

(* The scheduler keeps it: it changes none of its variables.               *)
LEMMA SchedulerInv == Inv /\ Scheduler => Inv'
<1> SUFFICES ASSUME Inv, Scheduler PROVE Inv'
  OBVIOUS
<1>1. UNCHANGED <<opt, target, initiator>> /\ sim' = sim
  BY DEF Scheduler, DeltaCycle, AdvanceTime
<1>2. KernelTypeOK(Threads, Events)'
  BY DEF Inv, TypeOK, KernelTypeOK, Scheduler, DeltaCycle, AdvanceTime, Sleepers,
         NotEvents
<1> QED
  BY <1>1, <1>2 DEF Inv, TypeOK, TargetTypeOK, NeverAborts, Counted, NoIdleSlot,
     OneUpstream, AwaitedIsIssued, target, initiator, Txns
-----------------------------------------------------------------------------
(* How a segment ends keeps the kernel's types.                            *)
LEMMA SegmentEndType ==
  ASSUME KernelTypeOK(Threads, Events), NeverAborts,
         NEW p \in Threads,
         NEW events \in SUBSET Events,
         \/ \E e \in Events : WaitEvent(p, e)
         \/ \E d \in Nat : WaitTime(p, d)
         \/ EndThread(p),
         Notify(events) \/ StopAndNotify(events)
  PROVE  KernelTypeOK(Threads, Events)' /\ NeverAborts'
<1>1. now' \in Nat /\ notified' \in SUBSET Events
  BY DEF KernelTypeOK, Notify, StopAndNotify
<1>2. waits' \in [Threads -> Events \cup NotEvents] /\ due' \in [Threads -> Nat]
  BY DEF KernelTypeOK, NotEvents, WaitEvent, WaitTime, EndThread
<1> QED BY <1>1, <1>2 DEF KernelTypeOK, Notify, StopAndNotify, NeverAborts

(* The loop of issue_requests, entered with no request upstream.           *)
LEMMA ContinueInv ==
  ASSUME Inv, sim # "aborted",
         ~(awaiting_end_req /\ ~end_req_seen),
         NEW t \in 1..(opt.num_transactions + 1),
         NEW issue_time \in Nat,
         Continue(t, issue_time),
         UNCHANGED <<opt, response_queue, responding, completed_responses>>
  PROVE  Inv'
<1> DEFINE me == "initiator.issue_requests"
<1>0. /\ opt.num_transactions \in Nat /\ opt.queue_depth \in Nat
      /\ now \in Nat /\ me \in Threads
      /\ opt' = opt /\ Txns' = Txns
  BY OptionsAssumption DEF Inv, TypeOK, KernelTypeOK, Threads, Txns
<1>1. CASE t > opt.num_transactions
  <2>1. Drain /\ next_issue_time' = issue_time
    BY <1>1 DEF Continue
  <2>2. KernelTypeOK(Threads, Events)' /\ NeverAborts'
    BY <2>1, <1>0, SegmentEndType DEF Drain, Inv, TypeOK, Events
  <2>3. /\ index' \in 1..(opt.num_transactions + 1) /\ awaiting_end_req' = FALSE
        /\ UNCHANGED <<target, end_req_seen, record>>
    BY <2>1, <1>0 DEF Drain
  <2>4. TypeOK'
    BY <2>1, <2>2, <2>3, <1>0 DEF Inv, TypeOK, TargetTypeOK, target
  <2> QED
    BY <2>2, <2>3, <2>4, <1>0 DEF Inv, Counted, NoIdleSlot, OneUpstream,
       AwaitedIsIssued, target
<1>2. CASE t <= opt.num_transactions /\ now < issue_time
  <2>1. AwaitIssueTime(t, issue_time) /\ next_issue_time' = issue_time
    BY <1>0, <1>2 DEF Continue
  <2>2. KernelTypeOK(Threads, Events)' /\ NeverAborts'
    BY <2>1, <1>0, <1>2, SegmentEndType DEF AwaitIssueTime, Inv, TypeOK
  <2> QED
    BY <2>1, <2>2, <1>0 DEF AwaitIssueTime, Inv, TypeOK, TargetTypeOK, Counted,
       NoIdleSlot, OneUpstream, AwaitedIsIssued, target
<1>3. CASE t <= opt.num_transactions /\ ~(now < issue_time)
  <2>1. BeginRequest(t) /\ next_issue_time' = issue_time
    BY <1>0, <1>3 DEF Continue
  <2>2. KernelTypeOK(Threads, Events)' /\ NeverAborts'
    BY <2>1, <1>0, SegmentEndType DEF BeginRequest, Inv, TypeOK, Events,
       TargetEvents, TargetBeginReqEvents
  <2>3. t \in Txns
    BY <1>0, <1>3 DEF Txns
  <2>4. waiting_accept_queue = <<>> /\ end_req_queue = <<>> /\ accepting = <<>>
    BY DEF Inv, OneUpstream
  <2>5. TargetTypeOK(Txns)' /\ Counted' /\ NoIdleSlot'
    <3>1. TargetBeginReq(t) /\ TargetTypeOK(Txns)
      BY <2>1 DEF BeginRequest, Inv, TypeOK
    <3>2. CASE HasFreeSlot
      <4>0. /\ occupied_slots' = occupied_slots + 1
            /\ end_req_queue' = <<t>>
            /\ UNCHANGED <<waiting_accept_queue, backpressure, accepting,
                           service_queue, servicing>>
        BY <3>1, <3>2, <2>4 DEF TargetBeginReq
      <4>1. TargetTypeOK(Txns)'
        BY <3>1, <4>0, <2>3, <1>0 DEF TargetTypeOK
      <4>2. Counted'
        BY <3>1, <4>0, <3>2, <2>4, <1>0 DEF TargetTypeOK, HasFreeSlot, Inv, Counted
      <4>3. NoIdleSlot'
        BY <3>1, <3>2, <2>4 DEF TargetBeginReq, NoIdleSlot
      <4> QED BY <4>1, <4>2, <4>3
    <3>3. CASE ~HasFreeSlot
      <4>0. /\ waiting_accept_queue' = <<t>>
            /\ backpressure' = backpressure \cup {t}
            /\ UNCHANGED <<occupied_slots, end_req_queue, accepting,
                           service_queue, servicing>>
        BY <3>1, <3>3, <2>4 DEF TargetBeginReq
      <4>1. TargetTypeOK(Txns)'
        BY <3>1, <4>0, <2>3, <1>0 DEF TargetTypeOK
      <4>2. Counted' /\ NoIdleSlot'
        BY <3>1, <4>0, <3>3, <1>0 DEF TargetTypeOK, HasFreeSlot, Inv, Counted,
           NoIdleSlot
      <4> QED BY <4>1, <4>2
    <3> QED BY <3>2, <3>3
  <2>6. OneUpstream'
    BY <2>1, <2>4 DEF BeginRequest, TargetBeginReq, OneUpstream
  <2>7. record' \in [Txns -> Record]
    BY <2>1, <2>3, <1>0 DEF BeginRequest, Inv, TypeOK, Record, Stamp
  <2>8. AwaitedIsIssued'
    BY <2>1, <2>3, <1>0 DEF BeginRequest, AwaitedIsIssued, Inv, TypeOK
  <2>9. TypeOK'
    BY <2>1, <2>2, <2>5, <2>7, <1>0 DEF BeginRequest, Inv, TypeOK
  <2> QED BY <2>2, <2>5, <2>6, <2>8, <2>9 DEF Inv
<1> QED BY <1>0, <1>1, <1>2, <1>3

(* A segment of issue_requests keeps it.                                   *)
LEMMA IssueRequestsInv == Inv /\ IssueRequests => Inv'
<1> SUFFICES ASSUME Inv, IssueRequests PROVE Inv'
  OBVIOUS
<1>0. /\ sim # "aborted" /\ opt.num_transactions \in Nat /\ opt.issue_gap \in Nat
      /\ UNCHANGED <<opt, response_queue, responding, completed_responses>>
  BY OptionsAssumption DEF IssueRequests, CanRun, Inv, TypeOK
<1>1. CASE awaiting_end_req /\ end_req_seen
  <2>1. /\ index + 1 \in 1..(opt.num_transactions + 1)
        /\ record[index].begin_req + opt.issue_gap \in Nat
        /\ Continue(index + 1, record[index].begin_req + opt.issue_gap)
    BY <1>0, <1>1 DEF IssueRequests, Inv, AwaitedIsIssued, Txns
  <2> QED BY <2>1, <1>0, <1>1, ContinueInv
<1>2. CASE awaiting_end_req /\ ~end_req_seen
  <2>1. AwaitEndReqAgain
    BY <1>2 DEF IssueRequests
  <2>2. KernelTypeOK(Threads, Events)' /\ NeverAborts'
    BY <2>1, SegmentEndType DEF AwaitEndReqAgain, Inv, TypeOK, Threads, Events
  <2> QED
    BY <2>1, <2>2, <1>0 DEF AwaitEndReqAgain, Inv, TypeOK, TargetTypeOK, Counted,
       NoIdleSlot, OneUpstream, AwaitedIsIssued, target, Txns
<1>3. CASE ~awaiting_end_req
  <2>1. /\ index \in 1..(opt.num_transactions + 1) /\ next_issue_time \in Nat
        /\ Continue(index, next_issue_time)
    BY <1>3 DEF IssueRequests, Inv, TypeOK
  <2> QED BY <2>1, <1>0, <1>3, ContinueInv
<1> QED BY <1>1, <1>2, <1>3

(* A segment of send_end_responses keeps it.                               *)
LEMMA SendEndResponsesInv == Inv /\ SendEndResponses => Inv'
<1> SUFFICES ASSUME Inv, SendEndResponses PROVE Inv'
  OBVIOUS
<1>0. /\ UNCHANGED <<opt, target, index, awaiting_end_req, end_req_seen,
                     next_issue_time>>
      /\ PopResponse /\ now \in Nat /\ Txns' = Txns
      /\ responding \in Seq(Txns) /\ Len(responding) <= 1
      /\ response_queue \in Seq(Txns)
  BY DEF SendEndResponses, Inv, TypeOK, KernelTypeOK, Txns
<1>1. /\ response_queue' \in Seq(Txns)
      /\ responding' \in Seq(Txns) /\ Len(responding') <= 1
  <2>1. CASE response_queue = <<>>
    BY <2>1, <1>0 DEF PopResponse
  <2>2. CASE response_queue # <<>>
    <3>1. Head(response_queue) \in Txns /\ Tail(response_queue) \in Seq(Txns)
      BY <2>2, <1>0
    <3>2. /\ responding' = <<Head(response_queue)>>
          /\ response_queue' = Tail(response_queue)
      BY <2>2, <1>0 DEF PopResponse
    <3> QED BY <3>1, <3>2
  <2> QED BY <2>1, <2>2
<1>2. \/ \E e \in Events : WaitEvent("initiator.send_end_responses", e)
      \/ \E d \in Nat : WaitTime("initiator.send_end_responses", d)
  BY <1>0, TargetAssumption DEF PopResponse, Events
<1>6. "initiator.send_end_responses" \in Threads /\ {} \in SUBSET Events
  BY DEF Threads
<1>3. CASE responding = <<>>
  <2>1. UNCHANGED <<record, completed_responses>> /\ Notify({})
    BY <1>3 DEF SendEndResponses
  <2>2. KernelTypeOK(Threads, Events)' /\ NeverAborts'
    BY <2>1, <1>2, <1>6, SegmentEndType DEF Inv, TypeOK
  <2> QED
    BY <2>1, <2>2, <1>0, <1>1 DEF Inv, TypeOK, TargetTypeOK, Counted, NoIdleSlot,
       OneUpstream, AwaitedIsIssued, target
<1>4. CASE responding # <<>>
  <2> DEFINE t == Head(responding)
  <2>1. t \in Txns /\ EndResponse(t)
    BY <1>4, <1>0 DEF SendEndResponses
  <2>2. KernelTypeOK(Threads, Events)' /\ NeverAborts'
    <3>1. PICK events \in SUBSET Events : Notify(events)
      BY <2>1 DEF EndResponse, Events
    <3> QED BY <3>1, <1>2, <1>6, SegmentEndType DEF Inv, TypeOK
  <2> HIDE DEF t
  <2>3. completed_responses' \in Nat /\ record' \in [Txns -> Record]
    <3>1. record \in [Txns -> Record] /\ record[t] \in Record
      BY <2>1 DEF Inv, TypeOK
    <3>2. [record[t] EXCEPT !.end_resp = now,
                            !.status = IF @ = "IN_FLIGHT" THEN "OK" ELSE @] \in Record
      BY <3>1, <1>0 DEF Record, Stamp
    <3>3. record' = [record EXCEPT ![t] =
                       [record[t] EXCEPT !.end_resp = now,
                          !.status = IF @ = "IN_FLIGHT" THEN "OK" ELSE @]]
      BY <2>1, <3>1 DEF EndResponse
    <3>4. completed_responses' \in Nat
      BY <2>1 DEF EndResponse, Inv, TypeOK
    <3> QED BY <3>1, <3>2, <3>3, <3>4
  <2>4. \A u \in Txns : record'[u].begin_req = record[u].begin_req
    BY <2>1, <1>0 DEF EndResponse, Inv, TypeOK
  <2>5. AwaitedIsIssued'
    BY <2>4, <1>0 DEF Inv, AwaitedIsIssued
  <2>6. TypeOK'
    BY <2>2, <2>3, <1>0, <1>1 DEF Inv, TypeOK, TargetTypeOK, target
  <2> QED
    BY <2>2, <2>5, <2>6, <1>0 DEF Inv, Counted, NoIdleSlot, OneUpstream, target
<1> QED BY <1>3, <1>4

(* A segment of send_end_requests keeps it.                                *)
LEMMA SendEndRequestsInv == Inv /\ SendEndRequests => Inv'
<1> SUFFICES ASSUME Inv, SendEndRequests PROVE Inv'
  OBVIOUS
<1>0. /\ UNCHANGED <<opt, index, awaiting_end_req, next_issue_time, response_queue,
                     responding, completed_responses>>
      /\ now \in Nat /\ Txns' = Txns /\ TargetTypeOK(Txns)
      /\ opt.queue_depth \in Nat
  BY OptionsAssumption DEF SendEndRequests, Inv, TypeOK, KernelTypeOK, Txns
(* The request carried across the accept latency is the awaited one.       *)
<1>1. accepting # <<>> =>
        /\ accepting = <<index>> /\ awaiting_end_req /\ ~end_req_seen
        /\ waiting_accept_queue = <<>> /\ end_req_queue = <<>>
        /\ index \in Txns
  BY DEF Inv, OneUpstream, AwaitedIsIssued
<1>2. ~(accepting # <<>> /\ EndReqMismatch(Head(accepting)))
  BY <1>1 DEF EndReqMismatch
<1>3. TargetSendEndRequest
  BY <1>2 DEF SendEndRequests
<1>4. \/ \E e \in Events : WaitEvent("target.send_end_requests", e)
      \/ \E d \in Nat : WaitTime("target.send_end_requests", d)
  BY <1>3, TargetAssumption DEF TargetSendEndRequest, PopEndRequest, Events,
     TargetEvents
<1>5. CASE accepting = <<>>
  <2>1. UNCHANGED <<record, end_req_seen>> /\ Notify({})
    BY <1>2, <1>5 DEF SendEndRequests
  <2>2. KernelTypeOK(Threads, Events)' /\ NeverAborts'
    BY <2>1, <1>4, SegmentEndType DEF Inv, TypeOK, Threads, TargetThreads
  <2>3. /\ service_queue' = service_queue
        /\ UNCHANGED <<occupied_slots, waiting_accept_queue, servicing, backpressure>>
    BY <1>0, <1>3, <1>5 DEF TargetSendEndRequest, TargetTypeOK
  <2>4. CASE end_req_queue = <<>>
    <3>1. accepting' = <<>> /\ end_req_queue' = <<>>
      BY <1>3, <2>4 DEF TargetSendEndRequest, PopEndRequest
    <3> QED
      BY <2>1, <2>2, <2>3, <2>4, <3>1, <1>0, <1>5 DEF Inv, TypeOK, TargetTypeOK,
         Counted, NoIdleSlot, OneUpstream, AwaitedIsIssued
  <2>5. CASE end_req_queue # <<>>
    <3>1. /\ end_req_queue = <<index>> /\ waiting_accept_queue = <<>>
          /\ awaiting_end_req /\ ~end_req_seen /\ index \in Txns
      BY <2>5 DEF Inv, OneUpstream, AwaitedIsIssued
    <3>2. accepting' = <<index>> /\ end_req_queue' = <<>>
      BY <1>3, <2>5, <3>1 DEF TargetSendEndRequest, PopEndRequest
    <3>3. TargetTypeOK(Txns)' /\ Counted'
      BY <2>3, <3>1, <3>2, <1>0, <1>5 DEF TargetTypeOK, Inv, Counted
    <3> QED
      BY <2>1, <2>2, <2>3, <3>1, <3>2, <3>3, <1>0 DEF Inv, TypeOK, NoIdleSlot,
         OneUpstream, AwaitedIsIssued
  <2> QED BY <2>4, <2>5
<1>6. CASE accepting # <<>>
  <2>1. BackwardEndReq(index)
    BY <1>1, <1>2, <1>6 DEF SendEndRequests
  <2>2. KernelTypeOK(Threads, Events)' /\ NeverAborts'
    <3>1. PICK events \in SUBSET Events : Notify(events)
      BY <2>1 DEF BackwardEndReq, TargetSendEndRequestEvents, Events, TargetEvents
    <3> QED BY <3>1, <1>4, SegmentEndType DEF Inv, TypeOK, Threads, TargetThreads
  <2>3. /\ accepting' = <<>> /\ end_req_queue' = <<>> /\ waiting_accept_queue' = <<>>
        /\ service_queue' = service_queue \o <<index>>
        /\ UNCHANGED <<occupied_slots, waiting_accept_queue, servicing, backpressure>>
    BY <1>1, <1>3, <1>6 DEF TargetSendEndRequest, PopEndRequest
  <2>4. /\ service_queue' \in Seq(Txns)
        /\ Len(service_queue') = Len(service_queue) + 1
    BY <2>3, <1>0, <1>1, <1>6 DEF TargetTypeOK
  <2>5. TargetTypeOK(Txns)' /\ Counted' /\ NoIdleSlot' /\ OneUpstream'
    BY <2>1, <2>3, <2>4, <1>0, <1>1, <1>6 DEF TargetTypeOK, Inv, Counted, NoIdleSlot,
       OneUpstream, BackwardEndReq
  <2>6. /\ record' \in [Txns -> Record]
        /\ \A u \in Txns : record'[u].begin_req = record[u].begin_req
    BY <2>1, <1>0, <1>1, <1>6 DEF BackwardEndReq, Inv, TypeOK, Record, Stamp
  <2>7. TypeOK' /\ AwaitedIsIssued'
    BY <2>1, <2>2, <2>5, <2>6, <1>0 DEF BackwardEndReq, Inv, TypeOK, AwaitedIsIssued
  <2> QED BY <2>2, <2>5, <2>7 DEF Inv
<1> QED BY <1>5, <1>6

(* A segment of service_requests keeps it.                                 *)
LEMMA ServiceRequestsInv == Inv /\ ServiceRequests => Inv'
<1> SUFFICES ASSUME Inv, ServiceRequests PROVE Inv'
  OBVIOUS
<1>0. /\ UNCHANGED <<opt, index, awaiting_end_req, end_req_seen, next_issue_time,
                     responding, completed_responses>>
      /\ now \in Nat /\ Txns' = Txns /\ TargetTypeOK(Txns)
      /\ opt.queue_depth \in Nat /\ opt.service_latency \in Nat
  BY OptionsAssumption DEF ServiceRequests, Inv, TypeOK, KernelTypeOK, Txns
<1>1. servicing # <<>> => Len(servicing) = 1 /\ occupied_slots > 0
  <2>1. /\ Len(service_queue) \in Nat /\ Len(accepting) \in Nat
        /\ Len(end_req_queue) \in Nat
    BY <1>0, LenProperties DEF TargetTypeOK
  <2>2. servicing # <<>> => Len(servicing) \in Nat \ {0} /\ Len(servicing) <= 1
    BY <1>0, EmptySeq DEF TargetTypeOK
  <2>3. occupied_slots = Len(servicing) + Len(service_queue)
                           + Len(accepting) + Len(end_req_queue)
    BY DEF Inv, Counted
  <2> QED BY <2>1, <2>2, <2>3
<1>2. TargetServiceRequest /\ ~OccupancyUnderflow
  BY <1>0, <1>1 DEF ServiceRequests, OccupancyUnderflow, TargetTypeOK
<1>3. \/ \E e \in Events : WaitEvent("target.service_requests", e)
      \/ \E d \in Nat : WaitTime("target.service_requests", d)
  BY <1>0, <1>2 DEF TargetServiceRequest, PopService, Events, TargetEvents
(* What the pop leaves of the stage it fills and the one it empties.       *)
<1>4. /\ servicing' \in Seq(Txns) /\ service_queue' \in Seq(Txns)
      /\ Len(servicing') <= 1
      /\ Len(servicing') + Len(service_queue') = Len(service_queue)
  <2>1. CASE service_queue = <<>>
    BY <1>2, <2>1, <1>0 DEF TargetServiceRequest, PopService
  <2>2. CASE service_queue # <<>>
    <3>1. /\ Head(service_queue) \in Txns /\ Tail(service_queue) \in Seq(Txns)
          /\ Len(Tail(service_queue)) = Len(service_queue) - 1
      BY <2>2, <1>0 DEF TargetTypeOK
    <3>2. servicing' = <<Head(service_queue)>> /\ service_queue' = Tail(service_queue)
      BY <1>2, <2>2 DEF TargetServiceRequest, PopService
    <3> QED BY <3>1, <3>2, <1>0 DEF TargetTypeOK
  <2> QED BY <2>1, <2>2
<1>5. CASE servicing = <<>>
  <2>1. UNCHANGED <<record, response_queue, occupied_slots, waiting_accept_queue,
                    end_req_queue, backpressure, accepting>> /\ Notify({})
    BY <1>2, <1>5 DEF ServiceRequests, TargetServiceRequest
  <2>2. KernelTypeOK(Threads, Events)' /\ NeverAborts'
    BY <2>1, <1>3, SegmentEndType DEF Inv, TypeOK, Threads, TargetThreads
  <2>3. TargetTypeOK(Txns)' /\ Counted'
    BY <2>1, <1>0, <1>4, <1>5, EmptySeq DEF TargetTypeOK, Inv, Counted
  <2> QED
    BY <2>1, <2>2, <2>3, <1>0 DEF Inv, TypeOK, NoIdleSlot, OneUpstream,
       AwaitedIsIssued
<1>6. CASE servicing # <<>>
  <2> DEFINE t == Head(servicing)
  <2>1. t \in Txns /\ BackwardBeginResp(t)
    BY <1>0, <1>2, <1>6 DEF ServiceRequests, TargetTypeOK
  <2>2. KernelTypeOK(Threads, Events)' /\ NeverAborts'
    <3>1. PICK events \in SUBSET Events : Notify(events)
      BY <2>1 DEF BackwardBeginResp, TargetServiceRequestEvents, Events, TargetEvents
    <3> QED BY <3>1, <1>3, SegmentEndType DEF Inv, TypeOK, Threads, TargetThreads
  <2> HIDE DEF t
  <2>3. Admitted = waiting_accept_queue
    BY <1>6, AdmittedIsWaiting
  <2>4. /\ occupied_slots' = occupied_slots - 1 + Len(waiting_accept_queue)
        /\ waiting_accept_queue' = <<>>
        /\ end_req_queue' = end_req_queue \o waiting_accept_queue
        /\ backpressure' \in SUBSET Txns
        /\ accepting' = accepting
    BY <1>0, <1>2, <1>6, <2>3 DEF TargetServiceRequest, ReleaseSlot, TargetTypeOK
  <2>5. /\ end_req_queue' \in Seq(Txns)
        /\ Len(end_req_queue') = Len(end_req_queue) + Len(waiting_accept_queue)
        /\ Len(waiting_accept_queue) <= 1
    BY <1>0, <2>4 DEF TargetTypeOK, Inv, OneUpstream
  <2>6. TargetTypeOK(Txns)' /\ Counted' /\ NoIdleSlot'
    BY <1>0, <1>1, <1>4, <1>6, <2>4, <2>5 DEF TargetTypeOK, Inv, Counted, NoIdleSlot
  <2>7. OneUpstream'
    BY <1>0, <2>4, EmptySeq, ConcatEmptySeq DEF Inv, OneUpstream, TargetTypeOK
  <2>8. /\ response_queue' \in Seq(Txns)
        /\ record' \in [Txns -> Record]
        /\ \A u \in Txns : record'[u].begin_req = record[u].begin_req
    <3>1. response_queue \in Seq(Txns) /\ record \in [Txns -> Record]
      BY DEF Inv, TypeOK
    <3>2. response_queue' \in Seq(Txns)
      BY <2>1, <3>1, AppendProperties DEF BackwardBeginResp
    <3>3. /\ record' \in [Txns -> Record]
          /\ \A u \in Txns : record'[u].begin_req = record[u].begin_req
      BY <1>0, <2>1, <3>1 DEF BackwardBeginResp, Record, Stamp
    <3> QED BY <3>2, <3>3
  <2>9. TypeOK' /\ AwaitedIsIssued'
    BY <1>0, <2>2, <2>6, <2>8 DEF Inv, TypeOK, AwaitedIsIssued
  <2> QED BY <2>2, <2>6, <2>7, <2>9 DEF Inv
<1> QED BY <1>5, <1>6

(* Slots are counted and the awaited request is stamped in every run of    *)
(* AT-1, with any options.                                                 *)
THEOREM Invariance == Spec => []Inv
<1>1. Inv /\ [Next]_vars => Inv'
  <2>1. Inv /\ UNCHANGED vars => Inv'
    BY DEF vars, kernel, target, initiator, Inv, TypeOK, KernelTypeOK, TargetTypeOK,
       NeverAborts, Counted, NoIdleSlot, OneUpstream, AwaitedIsIssued, Txns
  <2> QED
    BY <2>1, IssueRequestsInv, SendEndResponsesInv, SendEndRequestsInv,
       ServiceRequestsInv, SchedulerInv DEF Next, Thread, Exit
<1> QED BY <1>1, InitInv, PTL DEF Spec

(* Type correctness of AT-1 for every set of options and every tick size.  *)
THEOREM TypeCorrect == Spec => []TypeOK
<1>1. Inv => TypeOK
  BY DEF Inv
<1> QED BY <1>1, Invariance, PTL

(* No SC_REPORT_FATAL of AT-1 is ever reached.                             *)
THEOREM AbortFree == Spec => []NeverAborts
<1>1. Inv => NeverAborts
  BY DEF Inv
<1> QED BY <1>1, Invariance, PTL

(* occupied_slots_ is the number of requests inside the target and never   *)
(* exceeds queue_depth.                                                    *)
THEOREM SlotsAreAccounted == Spec => []SlotsAccounted
<1>1. Inv => SlotsAccounted
  BY PipelineLength DEF Inv, SlotsAccounted, Counted
<1> QED BY <1>1, Invariance, PTL

(* A request waits only while every slot is taken.                         *)
THEOREM SlotsAreNotIdle == Spec => []NoIdleSlot
<1>1. Inv => NoIdleSlot
  BY DEF Inv
<1> QED BY <1>1, Invariance, PTL

(* Exactly the awaited request is on its way to END_REQ.                   *)
THEOREM UpstreamIsAwaited == Spec => []OneUpstream
<1>1. Inv => OneUpstream
  BY DEF Inv
<1> QED BY <1>1, Invariance, PTL

-----------------------------------------------------------------------------
(***************************************************************************)
(* The timing.  Transactions pass every phase in the order of issue, so    *)
(* four counts say which stamps are set; and every thread runs at the very *)
(* time its work is there or its timer is due, because time only advances  *)
(* when nothing is ready or notified, and never beyond the earliest timer. *)
(***************************************************************************)

(* The transactions with BEGIN_REQ, END_REQ and BEGIN_RESP so far; those   *)
(* with END_RESP are completed_responses.                                  *)
Issued    == IF awaiting_end_req THEN index ELSE index - 1
Accepted  == IF awaiting_end_req /\ ~end_req_seen THEN index - 1 ELSE Issued
Responded == Accepted - Len(servicing) - Len(service_queue)

(* The queues hold the transactions between two counts, in order.          *)
Ordered ==
  /\ Responded = completed_responses + Len(responding) + Len(response_queue)
  /\ servicing # <<>> => servicing[1] = Responded + 1
  /\ \A k \in 1..Len(service_queue) : service_queue[k] = Responded + Len(servicing) + k
  /\ responding # <<>> => responding[1] = completed_responses + 1
  /\ \A k \in 1..Len(response_queue) :
       response_queue[k] = completed_responses + Len(responding) + k

StampedInOrder ==
  \A t \in Txns :
    /\ record[t].begin_req # NaN <=> t <= Issued
    /\ record[t].end_req # NaN <=> t <= Accepted
    /\ record[t].begin_resp # NaN <=> t <= Responded
    /\ record[t].end_resp # NaN <=> t <= completed_responses

StampsArePast ==
  \A t \in Txns :
    /\ record[t].begin_req <= now
    /\ record[t].end_req <= now
    /\ record[t].begin_resp <= now
    /\ record[t].end_resp <= now

(* When transaction t is issued, finds its slot, is served and answered.   *)
IssueTime(t) ==
  IF t > 1 THEN Later(record[t - 1].end_req, record[t - 1].begin_req + opt.issue_gap) ELSE 0
Arrival(t) ==
  Later(record[t].begin_req,
        IF t > opt.queue_depth THEN record[t - opt.queue_depth].begin_resp ELSE 0)
ServiceStart(t) ==
  Later(record[t].end_req, IF t > 1 THEN record[t - 1].begin_resp ELSE 0)
AnswerStart(t) ==
  Later(record[t].begin_resp, IF t > 1 THEN record[t - 1].end_resp ELSE 0)

Timed ==
  \A t \in Txns :
    /\ t <= Issued => record[t].begin_req = IssueTime(t)
    /\ t <= Accepted =>
         /\ record[t].end_req = Arrival(t) + Ns
         /\ t \notin backpressure => Arrival(t) = record[t].begin_req
    /\ t <= Responded => record[t].begin_resp = ServiceStart(t) + opt.service_latency
    /\ t <= completed_responses => record[t].end_resp = AnswerStart(t) + Ns

StampInv == Ordered /\ StampedInOrder /\ StampsArePast /\ Timed

-----------------------------------------------------------------------------
(* How the counts are related.                                             *)
CountsOK ==
         /\ Issued \in Nat /\ Accepted \in Nat /\ Responded \in Nat
         /\ completed_responses \in Nat
         /\ completed_responses <= Responded /\ Responded <= Accepted
         /\ Accepted <= Issued /\ Issued <= Accepted + 1
         /\ Issued <= opt.num_transactions
         /\ Accepted - Responded <= opt.queue_depth
         /\ opt.queue_depth \in Nat \ {0} /\ opt.num_transactions \in Nat
         /\ opt.issue_gap \in Nat /\ opt.service_latency \in Nat
         /\ now \in Nat /\ Ns \in Nat \ {0}

(* The counts follow from the positions of the threads and the queues.     *)
LEMMA Counts == Inv /\ Ordered => CountsOK
<1> SUFFICES ASSUME Inv, Ordered PROVE CountsOK
  OBVIOUS
<1>1. /\ opt.queue_depth \in Nat \ {0} /\ opt.num_transactions \in Nat
      /\ opt.issue_gap \in Nat /\ opt.service_latency \in Nat
      /\ now \in Nat /\ Ns \in Nat \ {0}
  BY OptionsAssumption, TargetAssumption DEF Inv, TypeOK, KernelTypeOK
<1>2. /\ index \in 1..(opt.num_transactions + 1) /\ completed_responses \in Nat
      /\ awaiting_end_req => index <= opt.num_transactions
  BY <1>1 DEF Inv, TypeOK, AwaitedIsIssued, Txns
<1>3. /\ Len(servicing) \in Nat /\ Len(service_queue) \in Nat
      /\ Len(accepting) \in Nat /\ Len(end_req_queue) \in Nat
      /\ Len(responding) \in Nat /\ Len(response_queue) \in Nat
  BY DEF Inv, TypeOK, TargetTypeOK
<1>4. Len(servicing) + Len(service_queue) <= opt.queue_depth
  BY <1>1, <1>3 DEF Inv, Counted
<1> QED
  BY <1>1, <1>2, <1>3, <1>4 DEF CountsOK, Ordered, Issued, Accepted, Responded

(* The same of the next state.                                             *)
LEMMA CountsNext == (Inv /\ Ordered)' => CountsOK'
BY Counts, PTL

(* A step leaves the stamps that are set as they are.                      *)
Kept ==
  \A t \in Txns :
    /\ t <= Issued => record'[t].begin_req = record[t].begin_req
    /\ t <= Accepted => record'[t].end_req = record[t].end_req
    /\ t <= Responded => record'[t].begin_resp = record[t].begin_resp
    /\ t <= completed_responses => record'[t].end_resp = record[t].end_resp

(* The rules only look at stamps that are set already.                     *)
LEMMA RulesKept ==
  ASSUME Inv, Ordered, opt' = opt, Kept, NEW t \in Txns
  PROVE  /\ t <= Accepted + 1 => IssueTime(t)' = IssueTime(t)
         /\ (t <= Issued /\ t - opt.queue_depth <= Responded) => Arrival(t)' = Arrival(t)
         /\ (t <= Accepted /\ t - 1 <= Responded) => ServiceStart(t)' = ServiceStart(t)
         /\ (t <= Responded /\ t - 1 <= completed_responses) =>
              AnswerStart(t)' = AnswerStart(t)
<1>1. /\ t \in 1..opt.num_transactions
      /\ t > 1 => t - 1 \in Txns
      /\ t > opt.queue_depth => t - opt.queue_depth \in Txns
  BY Counts DEF Txns, CountsOK
<1>2. t <= Accepted + 1 => IssueTime(t)' = IssueTime(t)
  BY <1>1, Counts DEF IssueTime, Kept, CountsOK
<1>3. (t <= Issued /\ t - opt.queue_depth <= Responded) => Arrival(t)' = Arrival(t)
  BY <1>1, Counts DEF Arrival, Kept, CountsOK
<1>4. (t <= Accepted /\ t - 1 <= Responded) => ServiceStart(t)' = ServiceStart(t)
  BY <1>1, Counts DEF ServiceStart, Kept, CountsOK
<1>5. (t <= Responded /\ t - 1 <= completed_responses) => AnswerStart(t)' = AnswerStart(t)
  BY <1>1, Counts DEF AnswerStart, Kept, CountsOK
<1> QED BY <1>2, <1>3, <1>4, <1>5

(* A step that sets no stamp: counts and rules are as before.              *)
SameCounts ==
  /\ Issued' = Issued /\ Accepted' = Accepted /\ Responded' = Responded
  /\ completed_responses' = completed_responses

(* A step that sets no stamp keeps what is known of the stamps.            *)
LEMMA NoStamp ==
  ASSUME Inv, StampInv, UNCHANGED <<opt, record, backpressure>>, SameCounts,
         now' \in Nat, now <= now'
  PROVE  StampedInOrder' /\ StampsArePast' /\ Timed'
<1>0. CountsOK /\ Ordered
  BY Counts DEF StampInv
<1>1. Txns' = Txns /\ Kept
  BY DEF Txns, Kept
<1>2. StampedInOrder'
  BY <1>1 DEF StampInv, StampedInOrder, SameCounts
<1>3. StampsArePast'
  <2>1. \A t \in Txns : /\ record[t].begin_req \in Int /\ record[t].end_req \in Int
                        /\ record[t].begin_resp \in Int /\ record[t].end_resp \in Int
    BY DEF Inv, TypeOK, Record, Stamp, NaN
  <2> QED BY <1>1, <2>1, <1>0 DEF StampInv, StampsArePast, CountsOK
<1>4. Timed'
  BY <1>1 DEF StampInv, Timed, SameCounts, IssueTime, Arrival, ServiceStart, AnswerStart
<1> QED BY <1>2, <1>3, <1>4

(* A step that sets the next stamp of one of the four phases, at the time  *)
(* its rule says.                                                          *)
StampStep(i, a, r, c) ==
  /\ UNCHANGED <<opt, now>>
  /\ backpressure \subseteq backpressure'
  /\ Issued' = Issued + i /\ Accepted' = Accepted + a
  /\ Responded' = Responded + r /\ completed_responses' = completed_responses + c
  /\ \A t \in Txns :
       /\ record'[t].begin_req = IF i = 1 /\ t = Issued + 1 THEN now ELSE record[t].begin_req
       /\ record'[t].end_req = IF a = 1 /\ t = Accepted + 1 THEN now ELSE record[t].end_req
       /\ record'[t].begin_resp =
            IF r = 1 /\ t = Responded + 1 THEN now ELSE record[t].begin_resp
       /\ record'[t].end_resp =
            IF c = 1 /\ t = completed_responses + 1 THEN now ELSE record[t].end_resp

(* Only the next stamp of a phase changes.                                 *)
LEMMA StampKeeps ==
  ASSUME Inv, Ordered, NEW i \in {0, 1}, NEW a \in {0, 1}, NEW r \in {0, 1}, NEW c \in {0, 1},
         StampStep(i, a, r, c)
  PROVE  Kept
BY Counts DEF Kept, StampStep, Txns, CountsOK

(* A stamp set at the time of its rule keeps all that is known of stamps.  *)
LEMMA StampSet ==
  ASSUME Inv, Inv', StampInv, Ordered',
         NEW i \in {0, 1}, NEW a \in {0, 1}, NEW r \in {0, 1}, NEW c \in {0, 1},
         StampStep(i, a, r, c),
         i = 1 => now = IssueTime(Issued + 1) /\ Issued = Accepted,
         a = 1 => /\ now = Arrival(Accepted + 1) + Ns
                  /\ Accepted + 1 - opt.queue_depth <= Responded
                  /\ Accepted + 1 <= Issued
                  /\ Accepted + 1 \notin backpressure =>
                       Arrival(Accepted + 1) = record[Accepted + 1].begin_req,
         r = 1 => /\ now = ServiceStart(Responded + 1) + opt.service_latency
                  /\ Responded + 1 <= Accepted,
         c = 1 => /\ now = AnswerStart(completed_responses + 1) + Ns
                  /\ completed_responses + 1 <= Responded
  PROVE  StampedInOrder' /\ StampsArePast' /\ Timed'
<1>0. CountsOK /\ Ordered
  BY Counts DEF StampInv
<1>1. Txns' = Txns /\ Txns = 1..opt.num_transactions /\ opt' = opt /\ now' = now
  BY DEF Txns, StampStep
<1>8. \A t \in Txns : t \in Nat /\ 1 <= t /\ t <= opt.num_transactions
  BY <1>0 DEF Txns, CountsOK
<1>2. /\ Issued' = Issued + i /\ Accepted' = Accepted + a
      /\ Responded' = Responded + r /\ completed_responses' = completed_responses + c
      /\ Issued' <= opt.num_transactions
  BY <1>1, CountsNext DEF StampStep, CountsOK
<1>3. \A t \in Txns : /\ record[t].begin_req \in Int /\ record[t].end_req \in Int
                      /\ record[t].begin_resp \in Int /\ record[t].end_resp \in Int
  BY DEF Inv, TypeOK, Record, Stamp, NaN
<1>4. StampedInOrder'
  <2>1. ASSUME NEW t \in Txns
        PROVE  /\ record'[t].begin_req # NaN <=> t <= Issued'
               /\ record'[t].end_req # NaN <=> t <= Accepted'
               /\ record'[t].begin_resp # NaN <=> t <= Responded'
               /\ record'[t].end_resp # NaN <=> t <= completed_responses'
    <3>1. /\ record[t].begin_req # NaN <=> t <= Issued
          /\ record[t].end_req # NaN <=> t <= Accepted
          /\ record[t].begin_resp # NaN <=> t <= Responded
          /\ record[t].end_resp # NaN <=> t <= completed_responses
      BY DEF StampInv, StampedInOrder
    <3>2. now # NaN /\ t \in Nat
      BY <1>0, <1>8 DEF NaN, CountsOK
    <3> QED BY <1>2, <3>1, <3>2, <1>0 DEF StampStep, CountsOK
  <2> QED BY <1>1, <2>1 DEF StampedInOrder
<1>5. StampsArePast'
  <2>1. ASSUME NEW t \in Txns
        PROVE  /\ record'[t].begin_req <= now /\ record'[t].end_req <= now
               /\ record'[t].begin_resp <= now /\ record'[t].end_resp <= now
    <3>1. /\ record[t].begin_req <= now /\ record[t].end_req <= now
          /\ record[t].begin_resp <= now /\ record[t].end_resp <= now
      BY DEF StampInv, StampsArePast
    <3>2. /\ record'[t].begin_req \in {now, record[t].begin_req}
          /\ record'[t].end_req \in {now, record[t].end_req}
          /\ record'[t].begin_resp \in {now, record[t].begin_resp}
          /\ record'[t].end_resp \in {now, record[t].end_resp}
      BY DEF StampStep
    <3>3. now <= now
      BY <1>0 DEF CountsOK
    <3> QED BY <3>1, <3>2, <3>3
  <2> QED BY <1>1, <2>1 DEF StampsArePast
<1>6. Timed'
  <2>1. Kept
    BY <1>0, StampKeeps DEF StampInv
  <2>2. \A t \in Txns :
         /\ t <= Accepted + 1 => IssueTime(t)' = IssueTime(t)
         /\ (t <= Issued /\ t - opt.queue_depth <= Responded) => Arrival(t)' = Arrival(t)
         /\ (t <= Accepted /\ t - 1 <= Responded) => ServiceStart(t)' = ServiceStart(t)
         /\ (t <= Responded /\ t - 1 <= completed_responses) =>
              AnswerStart(t)' = AnswerStart(t)
    BY <1>0, <1>1, <2>1, RulesKept
  <2>3. ASSUME NEW t \in Txns
        PROVE  /\ t <= Issued => record[t].begin_req = IssueTime(t)
               /\ t <= Accepted =>
                    /\ record[t].end_req = Arrival(t) + Ns
                    /\ t \notin backpressure => Arrival(t) = record[t].begin_req
               /\ t <= Responded =>
                    record[t].begin_resp = ServiceStart(t) + opt.service_latency
               /\ t <= completed_responses => record[t].end_resp = AnswerStart(t) + Ns
    BY DEF StampInv, Timed
  <2>4. ASSUME NEW t \in Txns, t <= Issued'
        PROVE  record'[t].begin_req = IssueTime(t)'
    <3>1. \/ t <= Issued
          \/ t = Issued + 1 /\ i = 1
      BY <1>0, <1>2, <1>8, <2>4 DEF CountsOK
    <3>2. IssueTime(t)' = IssueTime(t)
      BY <1>0, <1>8, <2>2, <3>1 DEF CountsOK
    <3>3. CASE t <= Issued
      BY <2>1, <2>3, <3>2, <3>3 DEF Kept
    <3>4. CASE t = Issued + 1 /\ i = 1
      BY <3>2, <3>4 DEF StampStep
    <3> QED BY <3>1, <3>3, <3>4
  <2>5. ASSUME NEW t \in Txns, t <= Accepted'
        PROVE  /\ record'[t].end_req = Arrival(t)' + Ns
               /\ t \notin backpressure' => Arrival(t)' = record'[t].begin_req
    <3>1. \/ t <= Accepted
          \/ t = Accepted + 1 /\ a = 1
      BY <1>0, <1>2, <1>8, <2>5 DEF CountsOK
    <3>2. t <= Issued /\ t - opt.queue_depth <= Responded
      BY <1>0, <1>8, <3>1 DEF CountsOK
    <3>3. Arrival(t)' = Arrival(t)
      BY <2>2, <3>2
    <3>4. record'[t].begin_req = record[t].begin_req
      BY <2>1, <3>2 DEF Kept
    <3>5. t \notin backpressure' => t \notin backpressure
      BY DEF StampStep
    <3>6. CASE t <= Accepted
      BY <2>1, <2>3, <3>3, <3>4, <3>5, <3>6 DEF Kept
    <3>7. CASE t = Accepted + 1 /\ a = 1
      BY <3>3, <3>4, <3>5, <3>7 DEF StampStep
    <3> QED BY <3>1, <3>6, <3>7
  <2>6. ASSUME NEW t \in Txns, t <= Responded'
        PROVE  record'[t].begin_resp = ServiceStart(t)' + opt.service_latency
    <3>1. \/ t <= Responded
          \/ t = Responded + 1 /\ r = 1
      BY <1>0, <1>2, <1>8, <2>6 DEF CountsOK
    <3>2. ServiceStart(t)' = ServiceStart(t)
      BY <1>0, <1>8, <2>2, <3>1 DEF CountsOK
    <3>3. CASE t <= Responded
      BY <2>1, <2>3, <3>2, <3>3 DEF Kept
    <3>4. CASE t = Responded + 1 /\ r = 1
      BY <3>2, <3>4 DEF StampStep
    <3> QED BY <3>1, <3>3, <3>4
  <2>7. ASSUME NEW t \in Txns, t <= completed_responses'
        PROVE  record'[t].end_resp = AnswerStart(t)' + Ns
    <3>1. \/ t <= completed_responses
          \/ t = completed_responses + 1 /\ c = 1
      BY <1>0, <1>2, <1>8, <2>7 DEF CountsOK
    <3>2. AnswerStart(t)' = AnswerStart(t)
      BY <1>0, <1>8, <2>2, <3>1 DEF CountsOK
    <3>3. CASE t <= completed_responses
      BY <2>1, <2>3, <3>2, <3>3 DEF Kept
    <3>4. CASE t = completed_responses + 1 /\ c = 1
      BY <3>2, <3>4 DEF StampStep
    <3> QED BY <3>1, <3>3, <3>4
  <2> QED BY <1>1, <2>4, <2>5, <2>6, <2>7 DEF Timed
<1> QED BY <1>4, <1>5, <1>6

-----------------------------------------------------------------------------
(* A thread that sleeps until a time wakes at that time; one that has work *)
(* queued, or has just been answered, runs before time advances.           *)
OnTimer(p, time) ==
  /\ due[p] = time
  /\ \/ waits[p] = "timed" /\ now <= time
     \/ waits[p] = "ready" /\ now = time
Prompt(p, event) == waits[p] = "ready" \/ (waits[p] = event /\ event \in notified)
Idle(p, event)   == waits[p] \in {"ready", event}

Issuer    == "initiator.issue_requests"
Responder == "initiator.send_end_responses"
Acceptor  == "target.send_end_requests"
Server    == "target.service_requests"

IssuerOnTime ==
  /\ awaiting_end_req => Idle(Issuer, "initiator.end_req_event")
  /\ (awaiting_end_req /\ end_req_seen) =>
       /\ now = record[index].end_req
       /\ Prompt(Issuer, "initiator.end_req_event")
  /\ (~awaiting_end_req /\ index <= opt.num_transactions) =>
       /\ next_issue_time = IssueTime(index)
       /\ OnTimer(Issuer, next_issue_time)

(* A request not marked with backpressure found its slot when it arrived.  *)
AcceptorOnTime ==
  /\ accepting = <<>> => Idle(Acceptor, "target.end_req_event")
  /\ accepting # <<>> => OnTimer(Acceptor, Arrival(index) + Ns)
  /\ end_req_queue # <<>> =>
       /\ now = Arrival(index)
       /\ Prompt(Acceptor, "target.end_req_event")
  /\ (awaiting_end_req /\ ~end_req_seen /\ index \notin backpressure) =>
       /\ waiting_accept_queue = <<>>
       /\ Arrival(index) = record[index].begin_req

ServerOnTime ==
  /\ servicing = <<>> => Idle(Server, "target.service_event")
  /\ servicing # <<>> =>
       OnTimer(Server, ServiceStart(Responded + 1) + opt.service_latency)
  /\ (servicing = <<>> /\ service_queue # <<>>) =>
       /\ now = record[Responded + 1].end_req
       /\ Prompt(Server, "target.service_event")

ResponderOnTime ==
  /\ responding = <<>> => Idle(Responder, "initiator.response_event")
  /\ responding # <<>> =>
       OnTimer(Responder, AnswerStart(completed_responses + 1) + Ns)
  /\ (responding = <<>> /\ response_queue # <<>>) =>
       /\ now = record[completed_responses + 1].begin_resp
       /\ Prompt(Responder, "initiator.response_event")

TimingInv ==
  /\ StampInv
  /\ IssuerOnTime /\ AcceptorOnTime /\ ServerOnTime /\ ResponderOnTime

-----------------------------------------------------------------------------
(* The threads and their events are distinct.                              *)
LEMMA Names ==
  /\ {Issuer, Responder, Acceptor, Server} \subseteq Threads
  /\ Issuer # Responder /\ Issuer # Acceptor /\ Issuer # Server
  /\ Responder # Acceptor /\ Responder # Server /\ Acceptor # Server
  /\ {"initiator.end_req_event", "initiator.response_event", "target.end_req_event",
      "target.service_event"} \subseteq Events
  /\ \A e \in Events : e # "ready" /\ e # "timed"
BY DEF Threads, TargetThreads, Events, TargetEvents, Issuer, Responder, Acceptor, Server

(* The lengths, and what is where, of the sequences of at most one request. *)
LEMMA Lengths ==
  ASSUME Inv
  PROVE  /\ Len(servicing) \in Nat /\ Len(service_queue) \in Nat
         /\ Len(responding) \in Nat /\ Len(response_queue) \in Nat
         /\ Len(accepting) \in Nat /\ Len(end_req_queue) \in Nat
         /\ Len(servicing) = IF servicing = <<>> THEN 0 ELSE 1
         /\ Len(responding) = IF responding = <<>> THEN 0 ELSE 1
         /\ service_queue = <<>> <=> Len(service_queue) = 0
         /\ response_queue = <<>> <=> Len(response_queue) = 0
<1>1. /\ servicing \in Seq(Txns) /\ Len(servicing) <= 1 /\ service_queue \in Seq(Txns)
      /\ responding \in Seq(Txns) /\ Len(responding) <= 1 /\ response_queue \in Seq(Txns)
      /\ accepting \in Seq(Txns) /\ end_req_queue \in Seq(Txns)
  BY DEF Inv, TypeOK, TargetTypeOK
<1>2. ASSUME NEW s \in Seq(Txns)
      PROVE  /\ Len(s) \in Nat /\ (s = <<>> <=> Len(s) = 0)
             /\ Len(s) <= 1 => Len(s) = IF s = <<>> THEN 0 ELSE 1
  <2>1. Len(s) \in Nat /\ (s # <<>> => Len(s) \in Nat \ {0}) /\ (s = <<>> => Len(s) = 0)
    BY EmptySeq
  <2> QED BY <2>1
<1>3. /\ Len(servicing) \in Nat /\ Len(responding) \in Nat
      /\ Len(servicing) = IF servicing = <<>> THEN 0 ELSE 1
      /\ Len(responding) = IF responding = <<>> THEN 0 ELSE 1
  BY <1>1, <1>2
<1>4. /\ Len(service_queue) \in Nat /\ (service_queue = <<>> <=> Len(service_queue) = 0)
      /\ Len(response_queue) \in Nat /\ (response_queue = <<>> <=> Len(response_queue) = 0)
      /\ Len(accepting) \in Nat /\ Len(end_req_queue) \in Nat
  BY <1>1, <1>2
<1> QED BY <1>3, <1>4

(* While the awaited request is inside the target, its slot was left by a  *)
(* transaction that has been answered; while it waits, the slots are full. *)
LEMMA SlotOfAwaited ==
  ASSUME Inv, Ordered
  PROVE  /\ (accepting # <<>> \/ end_req_queue # <<>>) =>
              /\ awaiting_end_req /\ ~end_req_seen /\ waiting_accept_queue = <<>>
              /\ index - opt.queue_depth <= Responded
         /\ waiting_accept_queue # <<>> =>
              /\ awaiting_end_req /\ ~end_req_seen
              /\ waiting_accept_queue = <<index>> /\ end_req_queue = <<>> /\ accepting = <<>>
              /\ index - opt.queue_depth = Responded + 1
         /\ (awaiting_end_req /\ ~end_req_seen) =>
              /\ index = Issued /\ index = Accepted + 1 /\ index \in Txns
              /\ waiting_accept_queue = <<>> => index - opt.queue_depth <= Responded
<1>1. /\ occupied_slots = Len(servicing) + Len(service_queue)
                            + Len(accepting) + Len(end_req_queue)
      /\ occupied_slots <= opt.queue_depth
      /\ waiting_accept_queue # <<>> => occupied_slots = opt.queue_depth
      /\ OneUpstream
      /\ awaiting_end_req => index \in Txns
  BY DEF Inv, Counted, NoIdleSlot, AwaitedIsIssued
<1>2. /\ index \in Nat /\ opt.queue_depth \in Nat /\ occupied_slots \in Nat
      /\ Len(servicing) \in Nat /\ Len(service_queue) \in Nat
      /\ Len(accepting) \in Nat /\ Len(end_req_queue) \in Nat
  <2>1. CountsOK
    BY Counts
  <2> QED BY <2>1, Lengths DEF Inv, TypeOK, TargetTypeOK, CountsOK
<1>3. ASSUME awaiting_end_req, ~end_req_seen
      PROVE  /\ index = Issued /\ index = Accepted + 1 /\ index \in Txns
             /\ Responded = index - 1 - Len(servicing) - Len(service_queue)
  BY <1>1, <1>2, <1>3 DEF Issued, Accepted, Responded
<1>4. accepting = <<index>> \/ end_req_queue = <<index>> =>
        Len(accepting) + Len(end_req_queue) >= 1
  BY Lengths
<1>5. ASSUME accepting = <<>>, end_req_queue = <<>>
      PROVE  Len(accepting) = 0 /\ Len(end_req_queue) = 0
  BY <1>5
<1>6. ASSUME awaiting_end_req, ~end_req_seen, waiting_accept_queue = <<>>
      PROVE  index - opt.queue_depth <= Responded
  BY <1>1, <1>2, <1>3, <1>4, <1>6 DEF OneUpstream
<1>7. ASSUME waiting_accept_queue # <<>>
      PROVE  /\ awaiting_end_req /\ ~end_req_seen
             /\ waiting_accept_queue = <<index>> /\ end_req_queue = <<>> /\ accepting = <<>>
             /\ index - opt.queue_depth = Responded + 1
  <2>1. /\ awaiting_end_req /\ ~end_req_seen
        /\ waiting_accept_queue = <<index>> /\ end_req_queue = <<>> /\ accepting = <<>>
    BY <1>1, <1>7 DEF OneUpstream
  <2> QED BY <1>1, <1>2, <1>3, <1>5, <1>7, <2>1
<1>8. ASSUME accepting # <<>> \/ end_req_queue # <<>>
      PROVE  awaiting_end_req /\ ~end_req_seen /\ waiting_accept_queue = <<>>
  BY <1>1, <1>8 DEF OneUpstream
<1> QED BY <1>3, <1>6, <1>7, <1>8

-----------------------------------------------------------------------------
(* What the kernel does to a thread.                                       *)
LEMMA SchedulerTimer ==
  ASSUME Inv, DeltaCycle \/ AdvanceTime,
         NEW p \in Threads, NEW time \in Int, NEW event \in Events
  PROVE  /\ now' \in Nat /\ now <= now'
         /\ OnTimer(p, time) => OnTimer(p, time)'
         /\ Prompt(p, event) => (Prompt(p, event)' /\ now' = now)
         /\ Idle(p, event) => Idle(p, event)'
<1>1. /\ now \in Nat /\ waits \in [Threads -> Events \cup NotEvents]
      /\ due \in [Threads -> Nat] /\ notified \in SUBSET Events
      /\ event # "ready" /\ event # "timed" /\ "timed" \notin Events
  BY Names DEF Inv, TypeOK, KernelTypeOK
<1>2. CASE DeltaCycle
  BY <1>1, <1>2 DEF DeltaCycle, Woken, Evaluating, OnTimer, Prompt, Idle
<1>3. CASE AdvanceTime
  <2>1. PICK q \in Sleepers : /\ now < due[q] /\ now' = due[q]
                              /\ \A r \in Sleepers : due[q] <= due[r]
    BY <1>3 DEF AdvanceTime
  <2>2. q \in Threads /\ due[q] \in Nat
    BY <1>1, <2>1 DEF Sleepers
  <2>3. p \in DOMAIN waits /\ waits[p] # "ready" /\ ~Prompt(p, event)
    BY <1>1, <1>3 DEF AdvanceTime, Evaluating, Prompt
  <2>4. waits[p] = "timed" => now' <= due[p]
    BY <2>1, <2>3 DEF Sleepers
  <2> QED BY <1>1, <1>3, <2>1, <2>2, <2>3, <2>4 DEF AdvanceTime, OnTimer, Idle
<1> QED BY <1>2, <1>3

Undisturbed(p) ==
  /\ waits'[p] = waits[p] /\ due'[p] = due[p] /\ now' = now
  /\ notified \subseteq notified'

(* The step of one thread leaves the others where they are.                *)
LEMMA OthersUndisturbed ==
  ASSUME Inv, NEW q \in Threads, NEW p \in Threads, p # q,
         \/ \E e \in Events : WaitEvent(q, e)
         \/ \E d \in Nat : WaitTime(q, d)
         \/ EndThread(q),
         \E events \in SUBSET Events : Notify(events) \/ StopAndNotify(events)
  PROVE  Undisturbed(p)
BY DEF Inv, TypeOK, KernelTypeOK, Undisturbed, WaitEvent, WaitTime, EndThread, Notify,
   StopAndNotify

(* A thread nobody disturbs stays on time: first issue_requests ...        *)
LEMMA IssuerUndisturbed ==
  ASSUME Inv, TimingInv, Undisturbed(Issuer), Kept,
         UNCHANGED <<opt, index, awaiting_end_req, end_req_seen, next_issue_time>>
  PROVE  IssuerOnTime'
<1>1. CountsOK /\ Ordered /\ index \in Nat /\ index >= 1
  BY Counts DEF TimingInv, StampInv, Inv, TypeOK
<1>2. ASSUME ~awaiting_end_req, index <= opt.num_transactions
      PROVE  IssueTime(index)' = IssueTime(index)
  <2>1. index \in Txns /\ index <= Accepted + 1
    BY <1>1, <1>2 DEF Txns, Accepted, Issued, CountsOK
  <2> QED BY <1>1, <2>1, RulesKept
<1>3. ASSUME awaiting_end_req, end_req_seen
      PROVE  record'[index].end_req = record[index].end_req
  <2>1. index \in Txns /\ index <= Accepted
    BY <1>1, <1>3 DEF Inv, AwaitedIsIssued, Accepted, Issued
  <2> QED BY <2>1 DEF Kept
<1> QED
  BY <1>2, <1>3 DEF TimingInv, IssuerOnTime, Idle, Prompt, OnTimer, Undisturbed

(* ... then send_end_requests ...                                          *)
LEMMA AcceptorUndisturbed ==
  ASSUME Inv, TimingInv, Undisturbed(Acceptor), Kept,
         UNCHANGED <<opt, index, awaiting_end_req, end_req_seen, accepting, end_req_queue,
                     waiting_accept_queue>>,
         backpressure \subseteq backpressure'
  PROVE  AcceptorOnTime'
<1>1. CountsOK /\ Ordered
  BY Counts DEF TimingInv, StampInv
<1>2. ASSUME awaiting_end_req, ~end_req_seen, waiting_accept_queue = <<>>
      PROVE  /\ Arrival(index)' = Arrival(index)
             /\ record'[index].begin_req = record[index].begin_req
  <2>1. index \in Txns /\ index <= Issued /\ index - opt.queue_depth <= Responded
    BY <1>1, <1>2, SlotOfAwaited DEF CountsOK
  <2> QED BY <1>1, <2>1, RulesKept DEF Kept
<1>3. accepting # <<>> \/ end_req_queue # <<>> =>
        awaiting_end_req /\ ~end_req_seen /\ waiting_accept_queue = <<>>
  BY <1>1, SlotOfAwaited
<1> QED
  BY <1>2, <1>3 DEF TimingInv, AcceptorOnTime, Idle, Prompt, OnTimer, Undisturbed

(* ... then service_requests, whose next request does not change ...       *)
LEMMA ServiceKept ==
  ASSUME Inv, TimingInv, Kept, Responded' = Responded, opt' = opt,
         servicing # <<>> \/ service_queue # <<>>
  PROVE  /\ ServiceStart(Responded + 1)' = ServiceStart(Responded + 1)
         /\ record'[Responded + 1].end_req = record[Responded + 1].end_req
<1>1. CountsOK /\ Ordered
  BY Counts DEF TimingInv, StampInv
<1>2. Responded + 1 <= Accepted
  BY <1>1, Lengths DEF Responded, CountsOK
<1>3. Responded + 1 \in Txns
  BY <1>1, <1>2 DEF CountsOK, Txns
<1>4. \A t \in Txns : (t <= Accepted /\ t - 1 <= Responded) =>
                        ServiceStart(t)' = ServiceStart(t)
  BY <1>1, RulesKept
<1> QED BY <1>1, <1>2, <1>3, <1>4 DEF Kept, CountsOK, ServiceStart

(* The target's server stays on time when its queue and its timer are left *)
(* alone.                                                                  *)
LEMMA ServerUndisturbed ==
  ASSUME Inv, TimingInv, Undisturbed(Server), Kept, Responded' = Responded,
         UNCHANGED <<opt, servicing, service_queue>>
  PROVE  ServerOnTime'
<1>1. ASSUME servicing # <<>> \/ service_queue # <<>>
      PROVE  /\ ServiceStart(Responded + 1)' = ServiceStart(Responded + 1)
             /\ record'[Responded + 1].end_req = record[Responded + 1].end_req
  BY <1>1, ServiceKept
<1> QED
  BY <1>1 DEF TimingInv, ServerOnTime, Idle, Prompt, OnTimer, Undisturbed

(* ... and send_end_responses, whose next response does not change.        *)
LEMMA AnswerKept ==
  ASSUME Inv, TimingInv, Kept, UNCHANGED <<opt, completed_responses>>,
         responding # <<>> \/ response_queue # <<>>
  PROVE  /\ AnswerStart(completed_responses + 1)' = AnswerStart(completed_responses + 1)
         /\ record'[completed_responses + 1].begin_resp
              = record[completed_responses + 1].begin_resp
<1>1. CountsOK /\ Ordered
  BY Counts DEF TimingInv, StampInv
<1>2. completed_responses + 1 <= Responded
  BY <1>1, Lengths DEF Ordered, CountsOK
<1>3. completed_responses + 1 \in Txns
  BY <1>1, <1>2 DEF CountsOK, Txns
<1>4. \A t \in Txns : (t <= Responded /\ t - 1 <= completed_responses) =>
                        AnswerStart(t)' = AnswerStart(t)
  BY <1>1, RulesKept
<1> QED BY <1>1, <1>2, <1>3, <1>4 DEF Kept, CountsOK, AnswerStart

(* The thread that answers with END_RESP stays on time when its queue and  *)
(* its timer are left alone.                                               *)
LEMMA ResponderUndisturbed ==
  ASSUME Inv, TimingInv, Undisturbed(Responder), Kept,
         UNCHANGED <<opt, responding, response_queue, completed_responses>>
  PROVE  ResponderOnTime'
<1>1. ASSUME responding # <<>> \/ response_queue # <<>>
      PROVE  /\ AnswerStart(completed_responses + 1)' = AnswerStart(completed_responses + 1)
             /\ record'[completed_responses + 1].begin_resp
                  = record[completed_responses + 1].begin_resp
  BY <1>1, AnswerKept
<1> QED
  BY <1>1 DEF TimingInv, ResponderOnTime, Idle, Prompt, OnTimer, Undisturbed

-----------------------------------------------------------------------------
(* At the start every thread is ready, and time is 0.                      *)
LEMMA InitTiming == Init => TimingInv
<1> SUFFICES ASSUME Init PROVE TimingInv
  OBVIOUS
<1>1. /\ opt.num_transactions \in Nat \ {0} /\ opt.queue_depth \in Nat \ {0}
      /\ Txns = 1..opt.num_transactions
  BY OptionsAssumption DEF Init, Txns
<1>2. /\ now = 0 /\ \A p \in Threads : waits[p] = "ready" /\ due[p] = 0
      /\ index = 1 /\ ~awaiting_end_req /\ next_issue_time = 0 /\ completed_responses = 0
      /\ servicing = <<>> /\ service_queue = <<>> /\ accepting = <<>> /\ end_req_queue = <<>>
      /\ responding = <<>> /\ response_queue = <<>>
      /\ \A t \in Txns : record[t] = NewRecord
  BY DEF Init, Elaborate, ElaborateWith, TargetInit
<1>3. Issued = 0 /\ Accepted = 0 /\ Responded = 0
  BY <1>2 DEF Issued, Accepted, Responded
<1>4. StampInv
  BY <1>1, <1>2, <1>3 DEF StampInv, Ordered, StampedInOrder, StampsArePast, Timed, NewRecord, NaN
<1> QED
  BY <1>1, <1>2, <1>4, Names DEF TimingInv, IssuerOnTime, AcceptorOnTime, ServerOnTime,
     ResponderOnTime, Idle, OnTimer, IssueTime

(* A delta cycle or an advance of time makes nobody late.                  *)
LEMMA SchedulerTiming == Inv /\ TimingInv /\ Scheduler => TimingInv'
<1> SUFFICES ASSUME Inv, TimingInv, Scheduler PROVE TimingInv'
  OBVIOUS
<1>1. /\ UNCHANGED <<opt, target, initiator>>
      /\ DeltaCycle \/ AdvanceTime
  BY DEF Scheduler
<1>2. /\ SameCounts /\ Ordered' /\ UNCHANGED <<opt, record, backpressure>>
  BY <1>1 DEF SameCounts, Issued, Accepted, Responded, TimingInv, StampInv, Ordered, target,
     initiator
<1>3. \A p \in Threads, time \in Int, event \in Events :
         /\ now' \in Nat /\ now <= now'
         /\ OnTimer(p, time) => OnTimer(p, time)'
         /\ Prompt(p, event) => (Prompt(p, event)' /\ now' = now)
         /\ Idle(p, event) => Idle(p, event)'
  BY <1>1, SchedulerTimer
<1>4. StampInv'
  <2>1. now' \in Nat /\ now <= now'
    BY <1>3, Names, 0 \in Int
  <2> QED BY <1>2, <2>1, NoStamp DEF TimingInv, StampInv
<1>5. /\ due \in [Threads -> Nat] /\ due' = due
  BY <1>1 DEF Inv, TypeOK, KernelTypeOK, DeltaCycle, AdvanceTime
<1>6. IssuerOnTime'
  <2>1. IssueTime(index)' = IssueTime(index)
    BY <1>1 DEF IssueTime, initiator
  <2>2. next_issue_time \in Int
    BY DEF Inv, TypeOK
  <2> QED
    BY <1>1, <1>3, <2>1, <2>2, Names DEF TimingInv, IssuerOnTime, initiator
<1>7. AcceptorOnTime'
  <2>1. Arrival(index)' = Arrival(index)
    BY <1>1 DEF Arrival, initiator
  <2>2. OnTimer(Acceptor, Arrival(index) + Ns) => Arrival(index) + Ns \in Int
    BY <1>5, Names DEF OnTimer
  <2> QED
    BY <1>1, <1>3, <2>1, <2>2, Names DEF TimingInv, AcceptorOnTime, initiator, target
<1>8. ServerOnTime'
  <2>1. ServiceStart(Responded + 1)' = ServiceStart(Responded + 1)
    BY <1>1, <1>2 DEF ServiceStart, initiator, SameCounts
  <2>2. OnTimer(Server, ServiceStart(Responded + 1) + opt.service_latency) =>
          ServiceStart(Responded + 1) + opt.service_latency \in Int
    BY <1>5, Names DEF OnTimer
  <2> QED
    BY <1>1, <1>2, <1>3, <2>1, <2>2, Names DEF TimingInv, ServerOnTime, initiator, target,
       SameCounts
<1>9. ResponderOnTime'
  <2>1. AnswerStart(completed_responses + 1)' = AnswerStart(completed_responses + 1)
    BY <1>1 DEF AnswerStart, initiator
  <2>2. OnTimer(Responder, AnswerStart(completed_responses + 1) + Ns) =>
          AnswerStart(completed_responses + 1) + Ns \in Int
    BY <1>5, Names DEF OnTimer
  <2> QED
    BY <1>1, <1>3, <2>1, <2>2, Names DEF TimingInv, ResponderOnTime, initiator
<1> QED BY <1>4, <1>6, <1>7, <1>8, <1>9 DEF TimingInv

-----------------------------------------------------------------------------
(* issue_requests sends a request.                                         *)
LEMMA BeginRequestTiming ==
  ASSUME Inv, Inv', TimingInv, NEW t \in Txns, t = Issued + 1, Issued = Accepted,
         ~(awaiting_end_req /\ ~end_req_seen), now = IssueTime(t), BeginRequest(t),
         UNCHANGED <<opt, response_queue, responding, completed_responses>>
  PROVE  TimingInv'
<1>0. /\ CountsOK /\ Ordered /\ t \in Nat /\ t >= 1 /\ Txns' = Txns
      /\ record \in [Txns -> Record]
  BY Counts DEF TimingInv, StampInv, Txns, CountsOK, Inv, TypeOK
<1>1. /\ index' = t /\ awaiting_end_req' = TRUE /\ end_req_seen' = FALSE
      /\ record' = [record EXCEPT ![t].begin_req = now, ![t].status = "IN_FLIGHT"]
      /\ TargetBeginReq(t) /\ UNCHANGED <<accepting, service_queue, servicing>>
      /\ WaitEvent(Issuer, "initiator.end_req_event")
      /\ Notify(TargetBeginReqEvents)
  BY DEF BeginRequest, Issuer, TargetBeginReq
<1>2. /\ Issued' = t /\ Accepted' = Accepted /\ Responded' = Responded
  <2>1. Issued' = index' /\ Accepted' = index' - 1
    BY <1>1 DEF Issued, Accepted
  <2>2. Responded' = Accepted' - Len(servicing) - Len(service_queue)
    BY <1>1 DEF Responded
  <2>3. Accepted' = Accepted
    BY <1>0, <1>1, <2>1 DEF CountsOK
  <2> QED BY <1>1, <2>1, <2>2, <2>3 DEF Responded
<1>3. StampStep(1, 0, 0, 0)
  <2>1. UNCHANGED <<opt, now>> /\ backpressure \subseteq backpressure'
    BY <1>1 DEF Notify, TargetBeginReq
  <2>2. ASSUME NEW u \in Txns
        PROVE  /\ record'[u].begin_req = IF u = t THEN now ELSE record[u].begin_req
               /\ record'[u].end_req = record[u].end_req
               /\ record'[u].begin_resp = record[u].begin_resp
               /\ record'[u].end_resp = record[u].end_resp
    BY <1>0, <1>1 DEF Record
  <2> QED BY <1>0, <1>2, <2>1, <2>2 DEF StampStep, CountsOK
<1>4. Kept
  BY <1>0, <1>3, StampKeeps
<1>5. Ordered'
  BY <1>0, <1>1, <1>2 DEF Ordered
<1>6. StampInv'
  BY <1>0, <1>3, <1>5, StampSet DEF TimingInv, StampInv
<1>7. /\ Undisturbed(Acceptor) /\ Undisturbed(Server) /\ Undisturbed(Responder)
      /\ waits'[Issuer] = "initiator.end_req_event"
  <2>1. TargetBeginReqEvents \in SUBSET Events
    BY Names DEF TargetBeginReqEvents
  <2> QED
    BY <1>1, <2>1, Names, OthersUndisturbed DEF WaitEvent, Inv, TypeOK, KernelTypeOK
<1>8. ServerOnTime' /\ ResponderOnTime'
  BY <1>1, <1>2, <1>4, <1>7, ServerUndisturbed, ResponderUndisturbed
<1>9. IssuerOnTime'
  BY <1>1, <1>7 DEF IssuerOnTime, Idle
<1>10. AcceptorOnTime'
  <2>1. /\ waiting_accept_queue = <<>> /\ end_req_queue = <<>> /\ accepting = <<>>
        /\ Idle(Acceptor, "target.end_req_event")
    BY DEF Inv, OneUpstream, TimingInv, AcceptorOnTime
  <2>2. Idle(Acceptor, "target.end_req_event")' /\ accepting' = <<>>
    BY <1>1, <1>7, <2>1 DEF Idle, Undisturbed
  <2>3. CASE HasFreeSlot
    <3>1. /\ waiting_accept_queue' = <<>> /\ TargetBeginReqEvents = {"target.end_req_event"}
          /\ notified' = notified \cup TargetBeginReqEvents /\ now' = now
      BY <1>1, <2>1, <2>3 DEF TargetBeginReq, TargetBeginReqEvents, Notify
    <3>2. Prompt(Acceptor, "target.end_req_event")'
      BY <2>2, <3>1 DEF Prompt, Idle
    <3>3. Arrival(t)' = now /\ record'[t].begin_req = now
      <4>1. record'[t].begin_req = now
        BY <1>0, <1>3 DEF StampStep
      <4>2. ASSUME t > opt.queue_depth
            PROVE  /\ record'[t - opt.queue_depth].begin_resp <= now
                   /\ record'[t - opt.queue_depth].begin_resp \in Int
        <5>1. t - opt.queue_depth \in Txns
          BY <1>0, <4>2 DEF CountsOK, Txns
        <5>2. record[t - opt.queue_depth].begin_resp \in Int
          <6>1. record[t - opt.queue_depth] \in Record
            BY <1>0, <5>1
          <6> QED BY <6>1 DEF Record, Stamp, NaN
        <5> QED BY <1>3, <5>1, <5>2 DEF StampStep, TimingInv, StampInv, StampsArePast
      <4>3. opt' = opt /\ now \in Nat /\ opt.queue_depth \in Nat
        BY <1>0, <1>3 DEF StampStep, CountsOK
      <4> QED BY <1>0, <4>1, <4>2, <4>3 DEF Arrival, Later
    <3> QED BY <1>1, <2>2, <3>1, <3>2, <3>3 DEF AcceptorOnTime
  <2>4. CASE ~HasFreeSlot
    <3>1. end_req_queue' = <<>> /\ t \in backpressure'
      BY <1>1, <2>1, <2>4 DEF TargetBeginReq
    <3> QED BY <1>1, <2>2, <3>1 DEF AcceptorOnTime
  <2> QED BY <2>3, <2>4
<1> QED BY <1>6, <1>8, <1>9, <1>10 DEF TimingInv

(* issue_requests goes to sleep or ends: no stamp is set.                  *)
LEMMA IssuerLeaves ==
  ASSUME Inv, Inv', TimingInv, ~(awaiting_end_req /\ ~end_req_seen),
         UNCHANGED <<opt, target, record, response_queue, responding, completed_responses>>,
         awaiting_end_req' = FALSE, index' = Issued + 1, now' = now,
         Undisturbed(Acceptor), Undisturbed(Server), Undisturbed(Responder)
  PROVE  /\ StampInv' /\ AcceptorOnTime' /\ ServerOnTime' /\ ResponderOnTime'
         /\ UNCHANGED <<Issued, Accepted, Responded>>
<1>0. CountsOK /\ Ordered /\ Accepted = Issued
  BY Counts DEF TimingInv, StampInv, Accepted
<1>1. Issued' = Issued /\ Accepted' = Accepted /\ Responded' = Responded
  <2>1. Issued' = index' - 1 /\ Accepted' = Issued'
    BY DEF Issued, Accepted
  <2>2. Issued' = Issued
    BY <1>0, <2>1 DEF CountsOK
  <2>3. UNCHANGED <<servicing, service_queue>>
    BY DEF target
  <2> QED BY <1>0, <2>1, <2>2, <2>3 DEF Responded
<1>2. Kept
  BY DEF Kept
<1>3. Ordered'
  BY <1>0, <1>1 DEF Ordered, target
<1>4. StampInv'
  BY <1>0, <1>1, <1>3, NoStamp DEF TimingInv, StampInv, SameCounts, target, CountsOK
<1>5. ServerOnTime' /\ ResponderOnTime'
  BY <1>1, <1>2, ServerUndisturbed, ResponderUndisturbed DEF target
<1>6. AcceptorOnTime'
  <2>1. accepting = <<>> /\ end_req_queue = <<>>
    BY DEF Inv, OneUpstream
  <2> QED BY <2>1 DEF TimingInv, AcceptorOnTime, Idle, Undisturbed, target
<1> QED BY <1>1, <1>4, <1>5, <1>6

(* The loop of issue_requests from the top, at the next transaction.       *)
LEMMA ContinueTiming ==
  ASSUME Inv, Inv', TimingInv, ~(awaiting_end_req /\ ~end_req_seen),
         NEW t \in Nat, t = Issued + 1, NEW time \in Nat,
         t <= opt.num_transactions => IssueTime(t) = IF now < time THEN time ELSE now,
         Continue(t, time),
         UNCHANGED <<opt, response_queue, responding, completed_responses>>
  PROVE  TimingInv'
<1>0. CountsOK /\ t >= 1 /\ Accepted = Issued
  BY Counts DEF TimingInv, StampInv, CountsOK, Accepted
<1>1. CASE t > opt.num_transactions
  <2>1. /\ Drain /\ awaiting_end_req' = FALSE /\ UNCHANGED <<target, record, now>>
        /\ index' = opt.num_transactions + 1
    BY <1>1 DEF Continue, Drain, Notify, StopAndNotify
  <2>2. index' = Issued + 1
    BY <1>0, <1>1, <2>1 DEF CountsOK
  <2>3. Undisturbed(Acceptor) /\ Undisturbed(Server) /\ Undisturbed(Responder)
    <3>1. "initiator.all_responses_done_event" \in Events /\ {} \in SUBSET Events
      BY DEF Events
    <3>2. \/ \E e \in Events : WaitEvent(Issuer, e)
          \/ \E d \in Nat : WaitTime(Issuer, d)
          \/ EndThread(Issuer)
      BY <2>1, <3>1 DEF Drain, Issuer
    <3>3. \E events \in SUBSET Events : Notify(events) \/ StopAndNotify(events)
      BY <2>1, <3>1 DEF Drain
    <3> QED BY <3>2, <3>3, Names, OthersUndisturbed
  <2>4. /\ StampInv' /\ AcceptorOnTime' /\ ServerOnTime' /\ ResponderOnTime'
    BY <2>1, <2>2, <2>3, IssuerLeaves
  <2>5. IssuerOnTime'
    BY <2>1, <1>0 DEF IssuerOnTime, CountsOK
  <2> QED BY <2>4, <2>5 DEF TimingInv
<1>2. CASE t <= opt.num_transactions /\ now < time
  <2>1. /\ AwaitIssueTime(t, time) /\ awaiting_end_req' = FALSE /\ UNCHANGED <<target, record, now>>
        /\ index' = t /\ next_issue_time' = time
        /\ WaitTime(Issuer, time - now) /\ Notify({})
    BY <1>0, <1>2 DEF Continue, AwaitIssueTime, Notify, Issuer, CountsOK
  <2>2. time - now \in Nat
    BY <1>0, <1>2 DEF CountsOK
  <2>3. Undisturbed(Acceptor) /\ Undisturbed(Server) /\ Undisturbed(Responder)
    BY <2>1, <2>2, Names, OthersUndisturbed
  <2>4. /\ StampInv' /\ AcceptorOnTime' /\ ServerOnTime' /\ ResponderOnTime'
    BY <2>1, <2>3, IssuerLeaves
  <2>5. waits'[Issuer] = "timed" /\ due'[Issuer] = time
    BY <2>1, <2>2, <1>0, Names DEF WaitTime, Inv, TypeOK, KernelTypeOK, CountsOK
  <2>6. IssueTime(t)' = IssueTime(t) /\ IssueTime(t) = time
    BY <1>2, <2>1 DEF IssueTime
  <2>7. IssuerOnTime'
    BY <1>0, <1>2, <2>1, <2>5, <2>6 DEF IssuerOnTime, OnTimer, CountsOK
  <2> QED BY <2>4, <2>7 DEF TimingInv
<1>3. CASE t <= opt.num_transactions /\ ~(now < time)
  <2>1. BeginRequest(t) /\ t \in Txns /\ now = IssueTime(t)
    BY <1>0, <1>3 DEF Continue, Txns, CountsOK
  <2> QED BY <1>0, <2>1, BeginRequestTiming
<1> QED BY <1>0, <1>1, <1>2, <1>3 DEF CountsOK

(* issue_requests: woken by END_REQ, too early, or by its issue gap.       *)
LEMMA IssueRequestsTiming ==
  ASSUME Inv, Inv', TimingInv, IssueRequests
  PROVE  TimingInv'
<1>0. /\ CountsOK /\ Ordered /\ index \in Nat /\ index >= 1
      /\ UNCHANGED <<opt, response_queue, responding, completed_responses>>
      /\ waits[Issuer] = "ready" /\ next_issue_time \in Nat
  BY Counts DEF TimingInv, StampInv, Inv, TypeOK, IssueRequests, CanRun, Issuer
<1>1. CASE awaiting_end_req /\ end_req_seen
  <2> DEFINE time == record[index].begin_req + opt.issue_gap
  <2>1. /\ index \in Txns /\ Issued = index /\ now = record[index].end_req
        /\ time \in Nat /\ Continue(index + 1, time)
    BY <1>0, <1>1 DEF TimingInv, IssuerOnTime, Inv, AwaitedIsIssued, Issued, IssueRequests, CountsOK
  <2>2. IssueTime(index + 1) = Later(now, time)
    BY <1>0, <2>1 DEF IssueTime
  <2>3. IssueTime(index + 1) = IF now < time THEN time ELSE now
    BY <2>2 DEF Later
  <2> HIDE DEF time
  <2> QED BY <1>0, <1>1, <2>1, <2>3, ContinueTiming
<1>2. CASE awaiting_end_req /\ ~end_req_seen
  <2>1. /\ AwaitEndReqAgain
        /\ WaitEvent(Issuer, "initiator.end_req_event") /\ Notify({})
        /\ UNCHANGED <<target, index, awaiting_end_req, end_req_seen, next_issue_time, record, now>>
    BY <1>2 DEF IssueRequests, AwaitEndReqAgain, Notify, Issuer
  <2>2. Undisturbed(Acceptor) /\ Undisturbed(Server) /\ Undisturbed(Responder)
    BY <2>1, Names, OthersUndisturbed
  <2>3. /\ SameCounts /\ Ordered' /\ Kept /\ Responded' = Responded
    BY <1>0, <2>1 DEF SameCounts, Issued, Accepted, Responded, Ordered, target, Kept
  <2>4. StampInv'
    BY <1>0, <2>1, <2>3, NoStamp DEF TimingInv, StampInv, target, CountsOK
  <2>5. AcceptorOnTime' /\ ServerOnTime' /\ ResponderOnTime'
    BY <1>0, <2>1, <2>2, <2>3, AcceptorUndisturbed, ServerUndisturbed, ResponderUndisturbed
       DEF target
  <2>6. IssuerOnTime'
    BY <1>2, <2>1, Names DEF IssuerOnTime, Idle, WaitEvent, Inv, TypeOK, KernelTypeOK
  <2> QED BY <2>4, <2>5, <2>6 DEF TimingInv
<1>3. CASE ~awaiting_end_req
  <2>1. Continue(index, next_issue_time) /\ index = Issued + 1
    BY <1>0, <1>3 DEF IssueRequests, Issued
  <2>2. index <= opt.num_transactions =>
          IssueTime(index) = next_issue_time /\ now = next_issue_time
    BY <1>0, <1>3 DEF TimingInv, IssuerOnTime, OnTimer
  <2> QED BY <1>0, <1>3, <2>1, <2>2, ContinueTiming DEF CountsOK
<1> QED BY <1>1, <1>2, <1>3

-----------------------------------------------------------------------------
(* What is left when the head of a queue is taken.                         *)
LEMMA Popped ==
  ASSUME NEW S, NEW q \in Seq(S), q # <<>>
  PROVE  /\ Len(q) \in Nat /\ Len(q) >= 1 /\ Len(Tail(q)) = Len(q) - 1
         /\ Head(q) = q[1]
         /\ \A k \in 1..Len(Tail(q)) : Tail(q)[k] = q[k + 1]
         /\ <<Head(q)>> # <<>> /\ <<Head(q)>>[1] = q[1] /\ Len(<<Head(q)>>) = 1
<1>1. Len(q) \in Nat /\ Len(q) >= 1 /\ Len(Tail(q)) = Len(q) - 1
  OBVIOUS
<1>2. Head(q) = q[1] /\ \A k \in 1..Len(Tail(q)) : Tail(q)[k] = q[k + 1]
  OBVIOUS
<1>3. <<Head(q)>> # <<>> /\ <<Head(q)>>[1] = q[1] /\ Len(<<Head(q)>>) = 1
  BY <1>2
<1> QED BY <1>1, <1>2, <1>3

(* The stamps are integers.                                                *)
LEMMA StampsAreInts ==
  ASSUME Inv, NEW t \in Txns
  PROVE  /\ record[t].begin_req \in Int /\ record[t].end_req \in Int
         /\ record[t].begin_resp \in Int /\ record[t].end_resp \in Int
<1>1. record[t] \in Record
  BY DEF Inv, TypeOK
<1> QED BY <1>1 DEF Record, Stamp, NaN

StampsInt ==
  \A t \in Txns : /\ record[t].begin_req \in Int /\ record[t].end_req \in Int
                  /\ record[t].begin_resp \in Int /\ record[t].end_resp \in Int

(* The same of the next state.                                             *)
LEMMA StampsAreIntsNext == Inv' => StampsInt'
<1>1. Inv => StampsInt
  BY StampsAreInts DEF StampsInt
<1> QED BY <1>1, PTL

LengthsOK ==
  /\ Len(servicing) \in Nat /\ Len(service_queue) \in Nat
  /\ Len(responding) \in Nat /\ Len(response_queue) \in Nat
  /\ Len(servicing) = IF servicing = <<>> THEN 0 ELSE 1
  /\ Len(responding) = IF responding = <<>> THEN 0 ELSE 1

(* The same of the next state.                                             *)
LEMMA LengthsNext == Inv' => LengthsOK'
<1>1. Inv => LengthsOK
  BY Lengths DEF LengthsOK
<1> QED BY <1>1, PTL

-----------------------------------------------------------------------------
(* send_end_responses: END_RESP for the first unanswered response, 1 ns    *)
(* after it came or after the previous one.                                *)
LEMMA AnswerStep ==
  ASSUME Inv, Inv', TimingInv, SendEndResponses
  PROVE  /\ Ordered' /\ StampInv' /\ Kept /\ Responded' = Responded
         /\ \/ responding = <<>> /\ completed_responses' = completed_responses
               /\ UNCHANGED <<now, record>>
            \/ responding # <<>> /\ StampStep(0, 0, 0, 1)
<1>0. /\ CountsOK /\ Ordered /\ StampInv
      /\ waits[Responder] = "ready"
      /\ PopResponse
      /\ UNCHANGED <<opt, target, index, awaiting_end_req, end_req_seen, next_issue_time>>
  BY Counts DEF TimingInv, StampInv, SendEndResponses, CanRun, Responder
<1>1. Issued' = Issued /\ Accepted' = Accepted /\ Responded' = Responded
  BY <1>0 DEF Issued, Accepted, Responded, target
<1>2. response_queue \in Seq(Txns) /\ responding \in Seq(Txns)
  BY DEF Inv, TypeOK
<1>3. responding' # <<>> => responding'[1] = completed_responses + Len(responding) + 1
  BY <1>0, <1>2, Popped DEF PopResponse, Ordered
<1>4. /\ Len(responding') + Len(response_queue') = Len(response_queue)
      /\ \A k \in 1..Len(response_queue') :
           response_queue'[k] = completed_responses + Len(responding) + Len(responding') + k
  <2>1. CASE response_queue = <<>>
    BY <1>0, <2>1 DEF PopResponse
  <2>2. CASE response_queue # <<>>
    <3>1. /\ responding' = <<Head(response_queue)>> /\ response_queue' = Tail(response_queue)
      BY <1>0, <2>2 DEF PopResponse
    <3>2. /\ Len(responding') = 1 /\ Len(response_queue') = Len(response_queue) - 1
          /\ Len(response_queue) \in Nat /\ Len(response_queue) >= 1
          /\ \A k \in 1..Len(response_queue') : response_queue'[k] = response_queue[k + 1]
      BY <1>2, <2>2, <3>1, Popped
    <3>3. \A k \in 1..Len(response_queue') :
            response_queue[k + 1] = completed_responses + Len(responding) + (k + 1)
      BY <1>0, <3>2 DEF Ordered
    <3> QED BY <1>0, <3>2, <3>3, Lengths DEF CountsOK
  <2> QED BY <2>1, <2>2
<1>5. CASE responding = <<>>
  <2>1. UNCHANGED <<record, completed_responses, now>>
    BY <1>0, <1>5 DEF SendEndResponses, Notify
  <2>2. Ordered'
    <3>1. /\ Len(responding) = 0 /\ completed_responses \in Nat /\ Responded' = Responded
          /\ UNCHANGED <<completed_responses, servicing, service_queue>>
          /\ Len(responding') + Len(response_queue') = Len(response_queue)
          /\ Responded = completed_responses + Len(responding) + Len(response_queue)
      BY <1>0, <1>1, <1>4, <1>5, <2>1 DEF target, CountsOK, Ordered
    <3>2. Len(responding') \in Nat /\ Len(response_queue') \in Nat /\ Len(response_queue) \in Nat
      BY Lengths, LengthsNext DEF LengthsOK
    <3>3. Responded' = completed_responses' + Len(responding') + Len(response_queue')
      BY <3>1, <3>2
    <3>4. responding' # <<>> => responding'[1] = completed_responses' + 1
      BY <1>3, <3>1
    <3>5. \A k \in 1..Len(response_queue') :
            response_queue'[k] = completed_responses' + Len(responding') + k
      BY <1>4, <3>1, <3>2
    <3> QED BY <1>0, <3>1, <3>3, <3>4, <3>5 DEF Ordered
  <2>3. StampInv' /\ Kept
    BY <1>0, <1>1, <2>1, <2>2, NoStamp DEF StampInv, SameCounts, target, CountsOK, Kept
  <2> QED BY <1>1, <1>5, <2>1, <2>2, <2>3
<1>6. CASE responding # <<>>
  <2>1. Head(responding) = completed_responses + 1 /\ Len(responding) = 1
    BY <1>0, <1>2, <1>6, Popped, Lengths DEF Ordered
  <2>2. EndResponse(completed_responses + 1)
    BY <1>6, <2>1 DEF SendEndResponses
  <2>3. completed_responses + 1 <= Responded /\ completed_responses + 1 \in Txns
    BY <1>0, <2>1, Lengths DEF Ordered, CountsOK, Txns
  <2>4. now = AnswerStart(completed_responses + 1) + Ns
    <3>1. OnTimer(Responder, AnswerStart(completed_responses + 1) + Ns)
      BY <1>6 DEF TimingInv, ResponderOnTime
    <3> QED BY <1>0, <3>1 DEF OnTimer
  <2>5. StampStep(0, 0, 0, 1)
    <3>1. UNCHANGED <<opt, now, backpressure>> /\ completed_responses' = completed_responses + 1
          /\ record' = [record EXCEPT ![completed_responses + 1].end_resp = now,
                ![completed_responses + 1].status = IF @ = "IN_FLIGHT" THEN "OK" ELSE @]
      BY <1>0, <2>2 DEF EndResponse, Notify, target
    <3>2. ASSUME NEW t \in Txns
          PROVE  /\ record'[t].begin_req = record[t].begin_req
                 /\ record'[t].end_req = record[t].end_req
                 /\ record'[t].begin_resp = record[t].begin_resp
                 /\ record'[t].end_resp =
                      IF t = completed_responses + 1 THEN now ELSE record[t].end_resp
      <4>1. record \in [Txns -> Record]
        BY DEF Inv, TypeOK
      <4> QED BY <2>3, <3>1, <4>1 DEF Record
    <3>3. /\ Issued' = Issued + 0 /\ Accepted' = Accepted + 0 /\ Responded' = Responded + 0
          /\ backpressure \subseteq backpressure'
      BY <1>0, <1>1, <3>1 DEF CountsOK
    <3>4. 0 # 1
      OBVIOUS
    <3>5. completed_responses' = completed_responses + 1 /\ UNCHANGED <<opt, now>>
      BY <3>1
    <3> QED BY <3>2, <3>3, <3>4, <3>5, Zenon DEF StampStep
  <2>6. Ordered'
    <3>1. completed_responses' = completed_responses + 1
      BY <2>5 DEF StampStep
    <3> QED BY <1>0, <1>1, <1>3, <1>4, <2>1, <3>1, Lengths DEF Ordered, target, CountsOK
  <2>7. StampInv' /\ Kept
    BY <1>0, <2>3, <2>4, <2>5, <2>6, StampSet, StampKeeps DEF StampInv
  <2> QED BY <1>1, <1>6, <2>5, <2>6, <2>7
<1> QED BY <1>5, <1>6

(* The next response is answered 1 ns after it came or the last was sent.  *)
LEMMA SendEndResponsesTiming ==
  ASSUME Inv, Inv', TimingInv, SendEndResponses
  PROVE  TimingInv'
<1>0. /\ CountsOK /\ Ordered
      /\ waits[Responder] = "ready"
      /\ PopResponse
      /\ UNCHANGED <<opt, target, index, awaiting_end_req, end_req_seen, next_issue_time>>
      /\ now' = now
      /\ \E events \in SUBSET Events : Notify(events)
  <2>1. {} \in SUBSET Events /\ {"initiator.all_responses_done_event"} \in SUBSET Events
    BY DEF Events
  <2>2. \E events \in SUBSET Events : Notify(events)
    BY <2>1 DEF SendEndResponses, EndResponse
  <2> QED BY Counts, <2>2 DEF TimingInv, StampInv, SendEndResponses, CanRun, Responder, Notify
<1>1. /\ Ordered' /\ StampInv' /\ Kept /\ Responded' = Responded
      /\ \/ responding = <<>> /\ completed_responses' = completed_responses
            /\ UNCHANGED <<now, record>>
         \/ responding # <<>> /\ StampStep(0, 0, 0, 1)
  BY AnswerStep
<1>2. Undisturbed(Issuer) /\ Undisturbed(Acceptor) /\ Undisturbed(Server)
  <2>1. \/ \E e \in Events : WaitEvent(Responder, e)
        \/ \E d \in Nat : WaitTime(Responder, d)
    BY <1>0, Names DEF PopResponse, Responder, CountsOK
  <2> QED BY <1>0, <2>1, Names, OthersUndisturbed
<1>3. IssuerOnTime' /\ AcceptorOnTime' /\ ServerOnTime'
  BY <1>0, <1>1, <1>2, IssuerUndisturbed, AcceptorUndisturbed, ServerUndisturbed DEF target
<1>4. ResponderOnTime'
  <2>0. waits \in [Threads -> Events \cup NotEvents] /\ due \in [Threads -> Nat]
    BY DEF Inv, TypeOK, KernelTypeOK
  <2>1. CASE response_queue = <<>>
    <3>1. responding' = <<>> /\ response_queue' = <<>> /\ waits'[Responder] = "initiator.response_event"
      BY <1>0, <2>0, <2>1, Names DEF PopResponse, WaitEvent, Responder
    <3> QED BY <3>1 DEF ResponderOnTime, Idle
  <2>2. CASE response_queue # <<>>
    <3>1. responding' # <<>> /\ waits'[Responder] = "timed" /\ due'[Responder] = now + Ns
      <4>1. /\ responding' = <<Head(response_queue)>>
            /\ waits' = [waits EXCEPT ![Responder] = "timed"]
            /\ due' = [due EXCEPT ![Responder] = now + Ns]
        BY <1>0, <2>2 DEF PopResponse, WaitTime, Responder
      <4> QED BY <2>0, <4>1, Names
    <3>8. completed_responses' \in Nat /\ completed_responses' + 1 <= Responded
      <4>1. /\ completed_responses' \in Nat /\ Len(responding') = 1
            /\ Responded = completed_responses' + Len(responding') + Len(response_queue')
            /\ Len(response_queue') \in Nat
        BY <1>0, <1>1, <3>1, CountsNext, LengthsNext DEF CountsOK, Ordered, LengthsOK
      <4> QED BY <4>1
    <3>9. Responded \in Nat /\ Responded <= opt.num_transactions /\ opt.num_transactions \in Nat
      BY <1>0 DEF CountsOK
    <3>0. PICK n \in 1..Responded : n = completed_responses' + 1
      <4>1. completed_responses' + 1 \in 1..Responded
        <5>1. ASSUME NEW c \in Nat, c + 1 <= Responded PROVE c + 1 \in 1..Responded
          BY <3>9, <5>1
        <5> QED BY <3>8, <5>1
      <4> QED BY <4>1, Zenon
    <3>2. /\ n \in Nat /\ n >= 1 /\ n <= Responded /\ n \in Txns /\ Txns' = Txns
          /\ n > 1 => n - 1 \in Txns
          /\ completed_responses' \in Nat
      BY <1>0, <3>8, <3>9 DEF Txns
    <3>3. /\ record'[n].begin_resp \in Int /\ record'[n].begin_resp <= now
          /\ n > 1 => record'[n - 1].end_resp \in Int /\ record'[n - 1].end_resp <= now
      BY <1>0, <1>1, <3>2, StampsAreIntsNext DEF StampInv, StampsArePast, StampsInt
    <3>4. record'[n].begin_resp = now \/ (n > 1 /\ record'[n - 1].end_resp = now)
      <4>1. CASE responding = <<>>
        BY <1>1, <2>2, <3>0, <4>1 DEF TimingInv, ResponderOnTime
      <4>2. CASE responding # <<>>
        <5>1. n = completed_responses + 2 /\ completed_responses + 1 \in Txns
          <6>1. completed_responses' = completed_responses + 1 /\ completed_responses \in Nat
            BY <1>0, <1>1, <4>2 DEF StampStep, CountsOK
          <6>2. completed_responses + 1 <= opt.num_transactions
            BY <1>0, <3>0, <3>2, <6>1 DEF CountsOK
          <6> QED BY <1>0, <3>0, <6>1, <6>2 DEF Txns, CountsOK
        <5>2. record'[completed_responses + 1].end_resp = now
          BY <1>1, <4>2, <5>1 DEF StampStep
        <5>3. n - 1 = completed_responses + 1 /\ n > 1
          BY <1>0, <5>1 DEF CountsOK
        <5> QED BY <5>2, <5>3
      <4> QED BY <4>1, <4>2
    <3>5. now \in Nat /\ Ns \in Nat /\ now' = now
      BY <1>0 DEF CountsOK
    <3>6. AnswerStart(n)' = now
      <4>1. n > 1 \/ n = 1
        BY <3>2
      <4> QED BY <3>2, <3>3, <3>4, <3>5, <4>1 DEF AnswerStart, Later
    <3>7. AnswerStart(completed_responses + 1)' = now
      BY <3>0, <3>6 DEF AnswerStart
    <3> QED BY <3>1, <3>5, <3>7 DEF ResponderOnTime, OnTimer
  <2> QED BY <2>1, <2>2
<1> QED BY <1>1, <1>3, <1>4 DEF TimingInv

-----------------------------------------------------------------------------
(* send_end_requests: END_REQ for the awaited request, 1 ns after it found *)
(* its slot.                                                               *)
LEMMA AcceptStep ==
  ASSUME Inv, Inv', TimingInv, SendEndRequests, accepting # <<>>
  PROVE  /\ accepting = <<index>> /\ awaiting_end_req /\ ~end_req_seen /\ end_req_queue = <<>>
         /\ index \in Txns /\ index = Accepted + 1
         /\ StampStep(0, 1, 0, 0) /\ StampInv' /\ Kept
         /\ BackwardEndReq(index) /\ TargetSendEndRequest
<1>0. /\ CountsOK /\ Ordered /\ StampInv
      /\ waits[Acceptor] = "ready"
      /\ UNCHANGED <<opt, index, awaiting_end_req, next_issue_time, response_queue,
                     responding, completed_responses>>
  BY Counts DEF TimingInv, StampInv, SendEndRequests, CanRun, Acceptor
<1>1. /\ accepting = <<index>> /\ awaiting_end_req /\ ~end_req_seen
      /\ end_req_queue = <<>> /\ waiting_accept_queue = <<>>
  BY DEF Inv, OneUpstream
<1>2. /\ index = Issued /\ index = Accepted + 1 /\ index \in Txns
      /\ index - opt.queue_depth <= Responded
  BY <1>0, <1>1, SlotOfAwaited
<1>3. /\ BackwardEndReq(index) /\ TargetSendEndRequest
  BY <1>1 DEF SendEndRequests, EndReqMismatch
<1>4. /\ service_queue' = Append(service_queue, index) /\ servicing' = servicing
      /\ backpressure' = backpressure /\ end_req_seen' = TRUE /\ awaiting_end_req'
      /\ now' = now /\ record' = [record EXCEPT ![index].end_req = now]
  <2>1. service_queue \in Seq(Txns) /\ index \in Txns
    BY <1>2 DEF Inv, TypeOK, TargetTypeOK
  <2>2. service_queue \o <<index>> = Append(service_queue, index)
    BY <2>1
  <2> QED BY <1>0, <1>1, <1>3, <2>2 DEF BackwardEndReq, TargetSendEndRequest, Notify
<1>5. /\ Len(service_queue') = Len(service_queue) + 1
      /\ \A k \in 1..Len(service_queue') :
            service_queue'[k] = IF k <= Len(service_queue) THEN service_queue[k] ELSE index
  <2>1. service_queue \in Seq(Txns)
    BY DEF Inv, TypeOK, TargetTypeOK
  <2> QED BY <1>2, <1>4, <2>1
<1>6. Issued' = Issued /\ Accepted' = index
  BY <1>0, <1>1, <1>4 DEF Issued, Accepted
<1>7. Responded' = Responded
  <2>1. Responded' = Accepted' - Len(servicing) - Len(service_queue')
    BY <1>4 DEF Responded
  <2>2. Responded = Accepted - Len(servicing) - Len(service_queue)
    BY DEF Responded
  <2>3. /\ Len(servicing) \in Nat /\ Len(service_queue) \in Nat
        /\ Accepted \in Nat /\ index \in Nat /\ Accepted' = Accepted + 1
    BY <1>0, <1>2, <1>6, Lengths DEF CountsOK
  <2> QED BY <1>5, <2>1, <2>2, <2>3
<1>8. StampStep(0, 1, 0, 0)
  <2>1. /\ UNCHANGED <<opt, now>> /\ backpressure \subseteq backpressure'
        /\ Issued' = Issued + 0 /\ Accepted' = Accepted + 1 /\ Responded' = Responded + 0
        /\ completed_responses' = completed_responses + 0
    <3>1. Issued + 0 = Issued /\ Responded + 0 = Responded
          /\ completed_responses + 0 = completed_responses
      BY <1>0 DEF CountsOK
    <3> QED BY <1>0, <1>2, <1>4, <1>6, <1>7, <3>1
  <2>2. ASSUME NEW t \in Txns
        PROVE  /\ record'[t].begin_req = record[t].begin_req
               /\ record'[t].end_req = IF t = Accepted + 1 THEN now ELSE record[t].end_req
               /\ record'[t].begin_resp = record[t].begin_resp
               /\ record'[t].end_resp = record[t].end_resp
    <3>1. record \in [Txns -> Record]
      BY DEF Inv, TypeOK
    <3> QED BY <1>2, <1>4, <3>1 DEF Record
  <2>3. 0 # 1
    OBVIOUS
  <2> QED BY <2>1, <2>2, <2>3, Zenon DEF StampStep
<1>9. Ordered'
  <2>1. /\ UNCHANGED <<responding, response_queue, completed_responses, servicing>>
        /\ Responded' = Responded
    BY <1>0, <1>4, <1>7
  <2>2. ASSUME NEW k \in 1..Len(service_queue')
        PROVE  service_queue'[k] = Responded + Len(servicing) + k
    <3>1. Len(service_queue) \in Nat /\ Len(servicing) \in Nat /\ Accepted \in Nat /\ index \in Nat
      BY <1>0, <1>2, Lengths DEF CountsOK
    <3>2. CASE k <= Len(service_queue)
      BY <1>0, <1>5, <3>1, <3>2 DEF Ordered
    <3>3. CASE ~(k <= Len(service_queue))
      <4>1. k = Len(service_queue) + 1
        BY <1>5, <3>1, <3>3
      <4>2. service_queue'[k] = index
        BY <1>5, <3>3
      <4>3. Responded = Accepted - Len(servicing) - Len(service_queue)
        BY DEF Responded
      <4> QED BY <1>2, <3>1, <4>1, <4>2, <4>3
    <3> QED BY <3>2, <3>3
  <2> QED BY <1>0, <2>1, <2>2 DEF Ordered
<1>10. now = Arrival(index) + Ns
  <2>1. OnTimer(Acceptor, Arrival(index) + Ns)
    BY <1>1 DEF TimingInv, AcceptorOnTime
  <2> QED BY <1>0, <2>1 DEF OnTimer
<1>11. index \notin backpressure => Arrival(index) = record[index].begin_req
  BY <1>1 DEF TimingInv, AcceptorOnTime
<1>12. StampInv' /\ Kept
  <2>1. Accepted + 1 <= Issued
    BY <1>0, <1>2 DEF CountsOK
  <2>2. Kept
    BY <1>0, <1>8, StampKeeps
  <2>3. /\ now = Arrival(Accepted + 1) + Ns
        /\ Accepted + 1 - opt.queue_depth <= Responded
        /\ Accepted + 1 \notin backpressure =>
             Arrival(Accepted + 1) = record[Accepted + 1].begin_req
    <3>1. index = Accepted + 1
      BY <1>2
    <3>2. Arrival(index) = Arrival(Accepted + 1) /\ record[index] = record[Accepted + 1]
      BY <3>1, Zenon
    <3>3. index \in backpressure <=> Accepted + 1 \in backpressure
      BY <3>1, Zenon
    <3>4. Accepted + 1 - opt.queue_depth <= Responded
      BY <1>0, <1>2 DEF CountsOK
    <3>5. now = Arrival(Accepted + 1) + Ns
      BY <1>10, <3>2, Zenon
    <3>6. Accepted + 1 \notin backpressure =>
             Arrival(Accepted + 1) = record[Accepted + 1].begin_req
      BY <1>11, <3>2, <3>3, Zenon
    <3> QED BY <3>4, <3>5, <3>6
  <2>4. StampedInOrder' /\ StampsArePast' /\ Timed'
    BY <1>0, <1>8, <1>9, <2>1, <2>3, StampSet
  <2> QED BY <1>9, <2>2, <2>4 DEF StampInv
<1> QED BY <1>1, <1>2, <1>3, <1>8, <1>12

(* send_end_requests is on time after each of its steps.                   *)
LEMMA SendEndRequestsTiming ==
  ASSUME Inv, Inv', TimingInv, SendEndRequests
  PROVE  TimingInv'
<1>0. /\ CountsOK /\ Ordered /\ StampInv
      /\ waits[Acceptor] = "ready"
      /\ UNCHANGED <<opt, index, awaiting_end_req, next_issue_time, response_queue,
                     responding, completed_responses>>
      /\ waits \in [Threads -> Events \cup NotEvents] /\ due \in [Threads -> Nat]
  BY Counts DEF TimingInv, StampInv, SendEndRequests, CanRun, Acceptor, Inv, TypeOK, KernelTypeOK
<1>1. CASE accepting = <<>>
  <2>1. /\ Notify({}) /\ TargetSendEndRequest /\ UNCHANGED <<record, end_req_seen, now>>
        /\ PopEndRequest
        /\ UNCHANGED <<waiting_accept_queue, servicing, backpressure>>
    BY <1>1 DEF SendEndRequests, TargetSendEndRequest, Notify
  <2>2. service_queue' = service_queue
    <3>1. service_queue \in Seq(Txns)
      BY DEF Inv, TypeOK, TargetTypeOK
    <3> QED BY <1>1, <2>1, <3>1 DEF TargetSendEndRequest
  <2>3. SameCounts /\ Ordered' /\ Kept
    BY <1>0, <2>1, <2>2 DEF SameCounts, Issued, Accepted, Responded, Ordered, Kept
  <2>4. StampInv'
    BY <1>0, <2>1, <2>3, NoStamp DEF StampInv, CountsOK
  <2>5. Undisturbed(Issuer) /\ Undisturbed(Server) /\ Undisturbed(Responder)
    <3>1. \/ \E e \in Events : WaitEvent(Acceptor, e)
          \/ \E d \in Nat : WaitTime(Acceptor, d)
      BY <1>0, <2>1, Names DEF PopEndRequest, Acceptor, CountsOK
    <3>2. \E events \in SUBSET Events : Notify(events)
      BY <2>1
    <3> QED BY <3>1, <3>2, Names, OthersUndisturbed
  <2>6. IssuerOnTime' /\ ServerOnTime' /\ ResponderOnTime'
    BY <1>0, <2>1, <2>2, <2>3, <2>5, IssuerUndisturbed, ServerUndisturbed, ResponderUndisturbed
       DEF SameCounts
  <2>7. AcceptorOnTime'
    <3>1. Arrival(index)' = Arrival(index) /\ record'[index].begin_req = record[index].begin_req
      BY <1>0, <2>1 DEF Arrival
    <3>2. CASE end_req_queue = <<>>
      <4>1. /\ accepting' = <<>> /\ end_req_queue' = <<>>
            /\ waits' = [waits EXCEPT ![Acceptor] = "target.end_req_event"]
        BY <2>1, <3>2 DEF PopEndRequest, WaitEvent, Acceptor
      <4>2. waits'[Acceptor] = "target.end_req_event"
        BY <1>0, <4>1, Names
      <4> QED BY <1>0, <2>1, <3>1, <4>1, <4>2 DEF TimingInv, AcceptorOnTime, Idle
    <3>3. CASE end_req_queue # <<>>
      <4>1. end_req_queue = <<index>>
        BY <3>3 DEF Inv, OneUpstream
      <4>2. /\ accepting' = <<index>> /\ end_req_queue' = <<>>
            /\ waits' = [waits EXCEPT ![Acceptor] = "timed"]
            /\ due' = [due EXCEPT ![Acceptor] = now + Ns]
        BY <2>1, <3>3, <4>1 DEF PopEndRequest, WaitTime, Acceptor
      <4>3. waits'[Acceptor] = "timed" /\ due'[Acceptor] = now + Ns
        BY <1>0, <4>2, Names
      <4>4. now = Arrival(index)
        BY <3>3 DEF TimingInv, AcceptorOnTime
      <4>5. OnTimer(Acceptor, Arrival(index) + Ns)'
        BY <1>0, <2>1, <3>1, <4>3, <4>4 DEF OnTimer, CountsOK
      <4>6. accepting' # <<>>
        BY <4>2
      <4> QED BY <1>0, <2>1, <3>1, <4>2, <4>5, <4>6 DEF TimingInv, AcceptorOnTime
    <3> QED BY <3>2, <3>3
  <2> QED BY <2>4, <2>6, <2>7 DEF TimingInv
<1>2. CASE accepting # <<>>
  <2>1. /\ accepting = <<index>> /\ awaiting_end_req /\ ~end_req_seen /\ end_req_queue = <<>>
        /\ index \in Txns /\ index = Accepted + 1
        /\ StampStep(0, 1, 0, 0) /\ StampInv' /\ Kept
        /\ BackwardEndReq(index) /\ TargetSendEndRequest
    BY <1>2, AcceptStep
  <2>2. /\ accepting' = <<>> /\ end_req_queue' = <<>> /\ end_req_seen' = TRUE
        /\ WaitEvent(Acceptor, "target.end_req_event")
        /\ Notify({"target.service_event", "initiator.end_req_event"})
        /\ UNCHANGED <<servicing, now>>
        /\ service_queue' = service_queue \o <<index>>
    BY <1>2, <2>1 DEF TargetSendEndRequest, PopEndRequest, BackwardEndReq, Acceptor, Notify,
       TargetSendEndRequestEvents
  <2>3. waits'[Acceptor] = "target.end_req_event"
    BY <1>0, <2>2, Names DEF WaitEvent
  <2>4. /\ Undisturbed(Issuer) /\ Undisturbed(Server) /\ Undisturbed(Responder)
        /\ "target.service_event" \in notified' /\ "initiator.end_req_event" \in notified'
    <3>1. {"target.service_event", "initiator.end_req_event"} \in SUBSET Events
      BY Names
    <3> QED BY <2>2, <3>1, Names, OthersUndisturbed DEF Notify
  <2>5. ResponderOnTime'
    BY <1>0, <2>1, <2>4, ResponderUndisturbed
  <2>6. AcceptorOnTime'
    BY <2>2, <2>3 DEF AcceptorOnTime, Idle
  <2>7. IssuerOnTime'
    <3>1. record'[index].end_req = now
      BY <2>1 DEF StampStep
    <3>2. Idle(Issuer, "initiator.end_req_event")
      BY <2>1 DEF TimingInv, IssuerOnTime
    <3> QED BY <1>0, <2>1, <2>2, <2>4, <3>1, <3>2 DEF IssuerOnTime, Idle, Prompt, Undisturbed
  <2>8. ServerOnTime'
    <3>1. Responded' = Responded
      BY <1>0, <2>1 DEF StampStep, CountsOK
    <3>2. CASE servicing = <<>> /\ service_queue = <<>>
      <4>1. Responded + 1 = Accepted + 1
        BY <1>0, <3>2, Lengths DEF Responded, CountsOK
      <4>2. record'[Accepted + 1].end_req = now
        BY <2>1 DEF StampStep
      <4>3. Idle(Server, "target.service_event")
        BY <3>2 DEF TimingInv, ServerOnTime
      <4> QED BY <2>2, <2>4, <3>1, <3>2, <4>1, <4>2, <4>3
              DEF ServerOnTime, Idle, Prompt, Undisturbed
    <3>3. CASE servicing # <<>> \/ service_queue # <<>>
      <4>1. /\ ServiceStart(Responded + 1)' = ServiceStart(Responded + 1)
            /\ record'[Responded + 1].end_req = record[Responded + 1].end_req
        BY <1>0, <2>1, <3>1, <3>3, ServiceKept
      <4> QED BY <1>0, <2>2, <2>4, <3>1, <3>3, <4>1
              DEF TimingInv, ServerOnTime, Idle, Prompt, OnTimer, Undisturbed
    <3> QED BY <3>2, <3>3
  <2> QED BY <2>1, <2>5, <2>6, <2>7, <2>8 DEF TimingInv
<1> QED BY <1>1, <1>2

-----------------------------------------------------------------------------
(* The later of two times of which one is now.                             *)
LEMMA LaterIsNow ==
  ASSUME NEW n \in Nat, NEW a \in Int, NEW b \in Int, a <= n, b <= n, a = n \/ b = n
  PROVE  Later(a, b) = n
BY DEF Later

(* What PopService leaves.                                                 *)
LEMMA PoppedService ==
  ASSUME Inv, Inv', TimingInv, PopService, UNCHANGED <<Accepted, opt>>
  PROVE  /\ Responded' = Responded + Len(servicing)
         /\ servicing' # <<>> => servicing'[1] = Responded' + 1
         /\ \A k \in 1..Len(service_queue') : service_queue'[k] = Responded' + Len(servicing') + k
<1>0. /\ CountsOK /\ Ordered
      /\ service_queue \in Seq(Txns)
      /\ Len(servicing) \in Nat /\ Len(service_queue) \in Nat
  BY Counts, Lengths DEF TimingInv, StampInv, Inv, TypeOK, TargetTypeOK
<1>1. /\ Len(servicing') + Len(service_queue') = Len(service_queue)
      /\ Len(servicing') \in Nat /\ Len(service_queue') \in Nat
      /\ \A k \in 1..Len(service_queue') : service_queue'[k] = service_queue[k + Len(servicing')]
      /\ servicing' # <<>> => servicing'[1] = service_queue[1] /\ Len(service_queue) >= 1
  <2>1. CASE service_queue = <<>>
    BY <2>1 DEF PopService
  <2>2. CASE service_queue # <<>>
    <3>1. servicing' = <<Head(service_queue)>> /\ service_queue' = Tail(service_queue)
      BY <2>2 DEF PopService
    <3> QED BY <1>0, <2>2, <3>1, Popped
  <2> QED BY <2>1, <2>2
<1>2. /\ Responded = Accepted - Len(servicing) - Len(service_queue)
      /\ Responded' = Accepted - Len(servicing') - Len(service_queue')
  BY DEF Responded
<1>3. Responded' = Responded + Len(servicing)
  <2>1. ASSUME NEW a \in Nat, NEW l \in Nat, NEW m \in Nat, NEW n \in Nat, NEW q \in Nat,
               m + n = q
        PROVE  a - m - n = (a - l - q) + l
    BY <2>1
  <2>2. Accepted \in Nat
    BY <1>0 DEF CountsOK
  <2>3. /\ Len(servicing) \in Nat /\ Len(service_queue) \in Nat
        /\ Len(servicing') \in Nat /\ Len(service_queue') \in Nat
        /\ Len(servicing') + Len(service_queue') = Len(service_queue)
    BY <1>0, <1>1
  <2>4. Accepted - Len(servicing') - Len(service_queue')
          = (Accepted - Len(servicing) - Len(service_queue)) + Len(servicing)
    BY <2>1, <2>2, <2>3
  <2> QED BY <1>2, <2>4
<1>4. \A k \in 1..Len(service_queue) : service_queue[k] = Responded + Len(servicing) + k
  BY <1>0 DEF Ordered
<1>5. servicing' # <<>> => servicing'[1] = Responded' + 1
  <2>1. ASSUME servicing' # <<>>
        PROVE  servicing'[1] = Responded + Len(servicing) + 1
    <3>1. 1 \in 1..Len(service_queue) /\ servicing'[1] = service_queue[1]
      <4>1. Len(service_queue) >= 1 /\ servicing'[1] = service_queue[1]
        BY <1>1, <2>1, Zenon
      <4> QED BY <1>0, <4>1
    <3> QED BY <1>4, <3>1
  <2> QED BY <1>3, <2>1
<1>6. ASSUME NEW k \in 1..Len(service_queue')
      PROVE  service_queue'[k] = Responded' + Len(servicing') + k
  <2>1. /\ k + Len(servicing') \in 1..Len(service_queue) /\ k \in Nat
        /\ service_queue'[k] = service_queue[k + Len(servicing')]
    <3>1. k \in Nat /\ k >= 1 /\ k <= Len(service_queue')
      BY <1>1
    <3>2. k + Len(servicing') \in 1..Len(service_queue)
      <4>1. ASSUME NEW m \in Nat, NEW n \in Nat, NEW q \in Nat, m + n = q, k <= n
            PROVE  k + m \in 1..q
        BY <3>1, <4>1
      <4> QED BY <1>0, <1>1, <3>1, <4>1
    <3>3. service_queue'[k] = service_queue[k + Len(servicing')]
      BY <1>1, Zenon
    <3> QED BY <3>1, <3>2, <3>3
  <2>2. service_queue'[k] = Responded + Len(servicing) + (k + Len(servicing'))
    BY <1>4, <2>1
  <2> QED BY <1>0, <1>1, <1>3, <2>1, <2>2 DEF CountsOK
<1> QED BY <1>3, <1>5, <1>6

(* BEGIN_RESP for the served request, or only the next one popped.         *)
LEMMA ServeStep ==
  ASSUME Inv, Inv', TimingInv, ServiceRequests
  PROVE  /\ StampInv' /\ Kept /\ PopService
         /\ \/ /\ servicing = <<>> /\ Notify({}) /\ SameCounts
               /\ UNCHANGED <<record, response_queue, occupied_slots, waiting_accept_queue,
                              end_req_queue, backpressure, accepting>>
            \/ /\ servicing # <<>> /\ StampStep(0, 0, 1, 0)
               /\ BackwardBeginResp(Responded + 1) /\ ReleaseSlot /\ accepting' = accepting
<1>0. /\ CountsOK /\ Ordered /\ StampInv
      /\ waits[Server] = "ready"
      /\ UNCHANGED <<opt, index, awaiting_end_req, end_req_seen, next_issue_time, responding,
                     completed_responses>>
      /\ Len(servicing) \in Nat /\ Len(service_queue) \in Nat
  BY Counts, Lengths DEF TimingInv, StampInv, ServiceRequests, CanRun, Server
<1>1. ~OccupancyUnderflow
  BY <1>0, Lengths DEF OccupancyUnderflow, Inv, Counted
<1>2. TargetServiceRequest /\ PopService
  BY <1>1 DEF ServiceRequests, TargetServiceRequest
<1>3. Issued' = Issued /\ Accepted' = Accepted
  BY <1>0 DEF Issued, Accepted
<1>4. /\ Responded' = Responded + Len(servicing)
      /\ servicing' # <<>> => servicing'[1] = Responded' + 1
      /\ \A k \in 1..Len(service_queue') : service_queue'[k] = Responded' + Len(servicing') + k
  BY <1>0, <1>2, <1>3, PoppedService
<1>5. CASE servicing = <<>>
  <2>1. /\ Notify({})
        /\ UNCHANGED <<record, response_queue, occupied_slots, waiting_accept_queue,
                       end_req_queue, backpressure, accepting, now>>
    BY <1>1, <1>2, <1>5 DEF ServiceRequests, TargetServiceRequest, Notify
  <2>2. SameCounts
    BY <1>0, <1>3, <1>4, <1>5 DEF SameCounts, CountsOK
  <2>3. Ordered' /\ Kept
    BY <1>0, <1>4, <2>1, <2>2 DEF Ordered, SameCounts, Kept
  <2>4. StampInv'
    BY <1>0, <2>1, <2>2, <2>3, NoStamp DEF StampInv, CountsOK
  <2> QED BY <1>2, <1>5, <2>1, <2>2, <2>3, <2>4
<1>6. CASE servicing # <<>>
  <2>1. Len(servicing) = 1 /\ Head(servicing) = Responded + 1
    <3>1. servicing \in Seq(Txns)
      BY DEF Inv, TypeOK, TargetTypeOK
    <3> QED BY <1>0, <1>6, <3>1, Lengths, Popped DEF Ordered
  <2>2. BackwardBeginResp(Responded + 1) /\ ReleaseSlot /\ accepting' = accepting
    BY <1>1, <1>2, <1>6, <2>1 DEF ServiceRequests, TargetServiceRequest
  <2>3. Responded + 1 <= Accepted /\ Responded + 1 \in Txns /\ Responded' = Responded + 1
    <3>1. Responded = Accepted - Len(servicing) - Len(service_queue)
      BY DEF Responded
    <3>2. Responded + 1 <= Accepted /\ Responded' = Responded + 1
      BY <1>0, <1>4, <2>1, <3>1 DEF CountsOK
    <3> QED BY <1>0, <3>2 DEF CountsOK, Txns
  <2>4. /\ now' = now /\ record' = [record EXCEPT ![Responded + 1].begin_resp = now]
        /\ response_queue' = Append(response_queue, Responded + 1)
        /\ backpressure \subseteq backpressure'
    BY <2>2 DEF BackwardBeginResp, Notify, ReleaseSlot
  <2>5. StampStep(0, 0, 1, 0)
    <3>1. Issued + 0 = Issued /\ Accepted + 0 = Accepted
          /\ completed_responses + 0 = completed_responses
      BY <1>0 DEF CountsOK
    <3>2. ASSUME NEW t \in Txns
          PROVE  /\ record'[t].begin_req = record[t].begin_req
                 /\ record'[t].end_req = record[t].end_req
                 /\ record'[t].begin_resp =
                      IF t = Responded + 1 THEN now ELSE record[t].begin_resp
                 /\ record'[t].end_resp = record[t].end_resp
      <4>1. record \in [Txns -> Record]
        BY DEF Inv, TypeOK
      <4> QED BY <2>3, <2>4, <4>1 DEF Record
    <3>3. 0 # 1
      OBVIOUS
    <3>4. UNCHANGED <<opt, now>> /\ backpressure \subseteq backpressure'
      BY <1>0, <2>4
    <3>5. Issued' = Issued + 0 /\ Accepted' = Accepted + 0
          /\ completed_responses' = completed_responses + 0
      BY <1>0, <1>3, <3>1
    <3> QED BY <2>3, <3>2, <3>3, <3>4, <3>5, Zenon DEF StampStep
  <2>6. Ordered'
    <3>1. response_queue \in Seq(Txns)
      BY DEF Inv, TypeOK
    <3>2. /\ Len(response_queue') = Len(response_queue) + 1
          /\ \A k \in 1..Len(response_queue') : response_queue'[k] =
               IF k <= Len(response_queue) THEN response_queue[k] ELSE Responded + 1
      BY <2>3, <2>4, <3>1
    <3>3. Len(response_queue) \in Nat /\ Len(responding) \in Nat
          /\ Responded = completed_responses + Len(responding) + Len(response_queue)
      BY <1>0, Lengths DEF Ordered
    <3>4. Responded' = completed_responses + Len(responding) + Len(response_queue')
      BY <1>0, <2>3, <3>2, <3>3 DEF CountsOK
    <3>5. ASSUME NEW k \in 1..Len(response_queue')
          PROVE  response_queue'[k] = completed_responses + Len(responding) + k
      <4>1. CASE k <= Len(response_queue)
        BY <1>0, <3>2, <3>3, <4>1 DEF Ordered
      <4>2. CASE ~(k <= Len(response_queue))
        <5>1. k = Len(response_queue) + 1
          BY <3>2, <3>3, <4>2
        <5>2. response_queue'[k] = Responded + 1
          BY <3>2, <4>2
        <5> QED BY <1>0, <3>3, <5>1, <5>2 DEF CountsOK
      <4> QED BY <4>1, <4>2
    <3> QED BY <1>0, <1>4, <3>4, <3>5 DEF Ordered
  <2>7. now = ServiceStart(Responded + 1) + opt.service_latency
    <3>1. OnTimer(Server, ServiceStart(Responded + 1) + opt.service_latency)
      BY <1>6 DEF TimingInv, ServerOnTime
    <3> QED BY <1>0, <3>1 DEF OnTimer
  <2>8. StampInv' /\ Kept
    BY <1>0, <2>3, <2>5, <2>6, <2>7, StampSet, StampKeeps DEF StampInv
  <2> QED BY <1>2, <1>6, <2>2, <2>5, <2>8
<1> QED BY <1>5, <1>6

(* The release of a slot: the waiting request arrives at its slot now.     *)
LEMMA ReleaseTiming ==
  ASSUME Inv, Inv', TimingInv, StampStep(0, 0, 1, 0), StampInv', Kept, servicing # <<>>,
         ReleaseSlot, Undisturbed(Acceptor),
         Admitted # <<>> => "target.end_req_event" \in notified',
         UNCHANGED <<opt, index, awaiting_end_req, end_req_seen, accepting>>
  PROVE  AcceptorOnTime'
<1>0. CountsOK /\ Ordered /\ Admitted = waiting_accept_queue
  BY Counts, AdmittedIsWaiting DEF TimingInv, StampInv
<1>1. CASE waiting_accept_queue = <<>>
  <2>1. end_req_queue' = end_req_queue
    <3>1. end_req_queue \in Seq(Txns)
      BY DEF Inv, TypeOK, TargetTypeOK
    <3> QED BY <1>0, <1>1, <3>1 DEF ReleaseSlot
  <2>2. waiting_accept_queue' = waiting_accept_queue /\ backpressure \subseteq backpressure'
    <3>1. SubSeq(waiting_accept_queue, Len(Admitted) + 1, Len(waiting_accept_queue)) = <<>>
      BY <1>0, <1>1
    <3> QED BY <1>1, <3>1 DEF ReleaseSlot
  <2> QED BY <2>1, <2>2, AcceptorUndisturbed
<1>2. CASE waiting_accept_queue # <<>>
  <2>1. /\ awaiting_end_req /\ ~end_req_seen /\ waiting_accept_queue = <<index>>
        /\ end_req_queue = <<>> /\ accepting = <<>>
        /\ index - opt.queue_depth = Responded + 1 /\ index \in Txns /\ index = Issued
    BY <1>0, <1>2, SlotOfAwaited
  <2>2. accepting' = <<>> /\ index \in backpressure' /\ index' = index
    <3>1. 1 \in DOMAIN Admitted /\ Admitted[1] = index
      BY <1>0, <2>1
    <3> QED BY <2>1, <3>1 DEF ReleaseSlot
  <2>3. Idle(Acceptor, "target.end_req_event")
    BY <2>1 DEF TimingInv, AcceptorOnTime
  <2>4. /\ Idle(Acceptor, "target.end_req_event")' /\ Prompt(Acceptor, "target.end_req_event")'
        /\ now' = now
    BY <1>0, <1>2, <2>3 DEF Idle, Prompt, Undisturbed
  <2>5. Arrival(index)' = now
    <3>1. /\ index > opt.queue_depth /\ opt' = opt
          /\ index - opt.queue_depth \in Txns /\ index \in Txns /\ now \in Nat
      BY <1>0, <2>1 DEF CountsOK, Txns
    <3>2. record'[index - opt.queue_depth].begin_resp = now
      BY <2>1, <3>1 DEF StampStep
    <3>3. Txns' = Txns
      BY DEF Txns
    <3>4. record'[index].begin_req \in Int /\ record'[index].begin_req <= now
      BY <2>4, <3>1, <3>3, StampsAreIntsNext DEF StampInv, StampsArePast, StampsInt
    <3>5. Later(record'[index].begin_req, now) = now
      BY <3>1, <3>4, LaterIsNow
    <3> QED BY <2>2, <3>1, <3>2, <3>5 DEF Arrival
  <2> QED BY <2>2, <2>4, <2>5 DEF AcceptorOnTime
<1> QED BY <1>1, <1>2

(* service_requests, with what it starts in the three other threads.       *)
LEMMA ServiceRequestsTiming ==
  ASSUME Inv, Inv', TimingInv, ServiceRequests
  PROVE  TimingInv'
<1>0. /\ CountsOK /\ Ordered
      /\ waits[Server] = "ready"
      /\ UNCHANGED <<opt, index, awaiting_end_req, end_req_seen, next_issue_time, responding,
                     completed_responses>>
      /\ waits \in [Threads -> Events \cup NotEvents] /\ due \in [Threads -> Nat]
  BY Counts DEF TimingInv, StampInv, ServiceRequests, CanRun, Server, Inv, TypeOK, KernelTypeOK
<1>1. /\ StampInv' /\ Kept /\ PopService
      /\ \/ /\ servicing = <<>> /\ Notify({}) /\ SameCounts
            /\ UNCHANGED <<record, response_queue, occupied_slots, waiting_accept_queue,
                           end_req_queue, backpressure, accepting>>
         \/ /\ servicing # <<>> /\ StampStep(0, 0, 1, 0)
            /\ BackwardBeginResp(Responded + 1) /\ ReleaseSlot /\ accepting' = accepting
  BY ServeStep
<1>2. Undisturbed(Issuer) /\ Undisturbed(Acceptor) /\ Undisturbed(Responder) /\ now' = now
  <2>1. \/ \E e \in Events : WaitEvent(Server, e)
        \/ \E d \in Nat : WaitTime(Server, d)
    BY <1>0, <1>1, Names DEF PopService, Server, CountsOK
  <2>2. {} \in SUBSET Events
        /\ TargetServiceRequestEvents \cup {"initiator.response_event"} \in SUBSET Events
    BY Names DEF TargetServiceRequestEvents
  <2>3. \E events \in SUBSET Events : Notify(events)
    BY <1>1, <2>2 DEF BackwardBeginResp
  <2> QED BY <2>1, <2>3, Names, OthersUndisturbed DEF Notify
<1>3. IssuerOnTime'
  BY <1>0, <1>1, <1>2, IssuerUndisturbed
<1>4. AcceptorOnTime'
  <2>1. CASE servicing = <<>>
    BY <1>0, <1>1, <1>2, <2>1, AcceptorUndisturbed
  <2>2. CASE servicing # <<>>
    <3>1. Admitted # <<>> => "target.end_req_event" \in notified'
      BY <1>1, <2>2 DEF BackwardBeginResp, TargetServiceRequestEvents, Notify
    <3> QED BY <1>0, <1>1, <1>2, <2>2, <3>1, ReleaseTiming
  <2> QED BY <2>1, <2>2
<1>5. ResponderOnTime'
  <2>1. CASE servicing = <<>>
    BY <1>0, <1>1, <1>2, <2>1, ResponderUndisturbed
  <2>2. CASE servicing # <<>>
    <3>0. "initiator.response_event" \in notified'
      BY <1>1, <2>2 DEF BackwardBeginResp, Notify
    <3>1. CASE responding # <<>> \/ response_queue # <<>>
      <4>1. /\ AnswerStart(completed_responses + 1)' = AnswerStart(completed_responses + 1)
            /\ record'[completed_responses + 1].begin_resp
                 = record[completed_responses + 1].begin_resp
        BY <1>0, <1>1, <3>1, AnswerKept
      <4> QED BY <1>0, <1>2, <3>0, <3>1, <4>1
              DEF TimingInv, ResponderOnTime, Idle, Prompt, OnTimer, Undisturbed
    <3>2. CASE responding = <<>> /\ response_queue = <<>>
      <4>1. completed_responses = Responded
        BY <1>0, <3>2, Lengths DEF Ordered, CountsOK
      <4>2. record'[Responded + 1].begin_resp = now
        <5>1. Responded + 1 \in Txns
          BY <1>0, <2>2, Lengths DEF CountsOK, Txns, Responded
        <5> QED BY <1>1, <2>2, <5>1 DEF StampStep
      <4>3. Idle(Responder, "initiator.response_event")
        BY <3>2 DEF TimingInv, ResponderOnTime
      <4> QED BY <1>0, <1>2, <3>0, <3>2, <4>1, <4>2, <4>3
              DEF ResponderOnTime, Idle, Prompt, Undisturbed
    <3> QED BY <3>1, <3>2
  <2> QED BY <2>1, <2>2
<1>6. ServerOnTime'
  <2>1. CASE service_queue = <<>>
    <3>1. /\ servicing' = <<>> /\ service_queue' = <<>>
          /\ waits' = [waits EXCEPT ![Server] = "target.service_event"]
      BY <1>1, <2>1 DEF PopService, WaitEvent, Server
    <3>2. waits'[Server] = "target.service_event"
      BY <1>0, <3>1, Names
    <3> QED BY <3>1, <3>2 DEF ServerOnTime, Idle
  <2>2. CASE service_queue # <<>>
    <3>1. /\ servicing' # <<>> /\ waits'[Server] = "timed"
          /\ due'[Server] = now + opt.service_latency
      <4>1. /\ servicing' = <<Head(service_queue)>>
            /\ waits' = [waits EXCEPT ![Server] = "timed"]
            /\ due' = [due EXCEPT ![Server] = now + opt.service_latency]
        BY <1>1, <2>2 DEF PopService, WaitTime, Server
      <4> QED BY <1>0, <4>1, Names
    <3>2. /\ Responded' \in Nat /\ Responded' + 1 \in Txns /\ Txns' = Txns
          /\ Responded' >= 1 => Responded' \in Txns
      <4>1. CountsOK' /\ Ordered'
        BY <1>1, CountsNext DEF StampInv
      <4>2. Responded' = Accepted' - Len(servicing') - Len(service_queue')
        BY DEF Responded
      <4>3. Len(servicing') = 1 /\ Len(service_queue') \in Nat
        BY <3>1, LengthsNext DEF LengthsOK
      <4>4. /\ Responded' \in Nat /\ Accepted' \in Nat /\ Accepted' <= opt.num_transactions
            /\ opt.num_transactions \in Nat
        BY <1>0, <4>1 DEF CountsOK
      <4> QED BY <1>0, <4>2, <4>3, <4>4 DEF Txns
    <3>3. ASSUME NEW c \in Nat, c = Responded'
          PROVE  ServiceStart(c + 1)' = now
      <4>1. /\ c + 1 \in Txns /\ Txns' = Txns /\ c + 1 \in Nat /\ c + 1 - 1 = c
            /\ c + 1 > 1 <=> c >= 1
            /\ c >= 1 => c \in Txns
            /\ now \in Nat /\ now' = now
        <5>1. c + 1 \in Txns /\ Txns' = Txns /\ (c >= 1 => c \in Txns)
          BY <3>2, <3>3
        <5>2. c + 1 \in Nat /\ c + 1 - 1 = c /\ (c + 1 > 1 <=> c >= 1)
          OBVIOUS
        <5>3. now \in Nat /\ now' = now
          BY <1>0, <1>2 DEF CountsOK
        <5> QED BY <5>1, <5>2, <5>3
      <4>2. /\ record'[c + 1].end_req \in Int /\ record'[c + 1].end_req <= now
            /\ c >= 1 => record'[c].begin_resp \in Int /\ record'[c].begin_resp <= now
        BY <1>1, <4>1, StampsAreIntsNext DEF StampInv, StampsArePast, StampsInt
      <4>3. record'[c + 1].end_req = now \/ (c >= 1 /\ record'[c].begin_resp = now)
        <5>1. CASE servicing = <<>>
          <6>1. now = record[Responded + 1].end_req
            BY <2>2, <5>1 DEF TimingInv, ServerOnTime
          <6> QED BY <1>1, <3>3, <5>1, <6>1 DEF SameCounts
        <5>2. CASE servicing # <<>>
          <6>1. c = Responded + 1 /\ c >= 1
            BY <1>0, <1>1, <3>3, <5>2 DEF StampStep, CountsOK
          <6> QED BY <1>1, <4>1, <5>2, <6>1 DEF StampStep
        <5> QED BY <5>1, <5>2
      <4>4. ServiceStart(c + 1)' = Later(record'[c + 1].end_req,
                                         IF c >= 1 THEN record'[c].begin_resp ELSE 0)
        BY <4>1 DEF ServiceStart
      <4>5. CASE c >= 1
        BY <4>1, <4>2, <4>3, <4>4, <4>5, LaterIsNow
      <4>6. CASE ~(c >= 1)
        BY <4>1, <4>2, <4>3, <4>4, <4>6, LaterIsNow
      <4> QED BY <4>5, <4>6
    <3>4. ServiceStart(Responded + 1)' = now
      BY <3>2, <3>3 DEF ServiceStart
    <3>5. OnTimer(Server, ServiceStart(Responded + 1) + opt.service_latency)'
      BY <1>0, <1>2, <3>1, <3>4 DEF OnTimer, CountsOK
    <3> QED BY <3>1, <3>5 DEF ServerOnTime
  <2> QED BY <2>1, <2>2
<1> QED BY <1>1, <1>3, <1>4, <1>5, <1>6 DEF TimingInv

-----------------------------------------------------------------------------
(* Every step of the program keeps the timing.                             *)
LEMMA NextTiming == Inv /\ Inv' /\ TimingInv /\ [Next]_vars => TimingInv'
<1> SUFFICES ASSUME Inv, Inv', TimingInv, [Next]_vars PROVE TimingInv'
  OBVIOUS
<1>1. CASE IssueRequests
  BY <1>1, IssueRequestsTiming
<1>2. CASE SendEndResponses
  BY <1>2, SendEndResponsesTiming
<1>3. CASE SendEndRequests
  BY <1>3, SendEndRequestsTiming
<1>4. CASE ServiceRequests
  BY <1>4, ServiceRequestsTiming
<1>5. CASE Scheduler
  BY <1>5, SchedulerTiming
<1>6. CASE UNCHANGED vars
  <2>1. /\ SameCounts /\ Ordered' /\ Kept /\ UNCHANGED <<opt, record, backpressure, now>>
    BY <1>6 DEF vars, target, initiator, kernel, SameCounts, Issued, Accepted, Responded, Kept,
       TimingInv, StampInv, Ordered
  <2>2. StampInv'
    BY <2>1, NoStamp, Counts DEF TimingInv, StampInv, CountsOK
  <2>3. /\ Undisturbed(Issuer) /\ Undisturbed(Acceptor) /\ Undisturbed(Server)
        /\ Undisturbed(Responder)
    BY <1>6 DEF vars, kernel, Undisturbed
  <2> QED
    BY <1>6, <2>1, <2>2, <2>3, IssuerUndisturbed, AcceptorUndisturbed, ServerUndisturbed,
       ResponderUndisturbed DEF vars, target, initiator, SameCounts, TimingInv
<1> QED BY <1>1, <1>2, <1>3, <1>4, <1>5, <1>6 DEF Next, Thread, Exit

(* The threads of AT-1 are on time in every run, with any options.         *)
THEOREM TimingInvariance == Spec => [](Inv /\ TimingInv)
<1>1. Init => TimingInv
  BY InitTiming
<1>2. Inv /\ Inv' /\ TimingInv /\ [Next]_vars => TimingInv'
  BY NextTiming
<1> QED BY Invariance, <1>1, <1>2, PTL DEF Spec

(* The stamps that are set obey the rules of TraceTiming.                  *)
LEMMA TimedTrace == Inv /\ TimingInv => TraceTiming
<1> SUFFICES ASSUME Inv, TimingInv, NEW t \in Txns
    PROVE  LET r == record[t]
               before(field, k) == IF t > k THEN record[t - k][field] ELSE 0
           IN  /\ r.begin_req # NaN =>
                    r.begin_req = Later(before("end_req", 1),
                                        IF t > 1 THEN before("begin_req", 1) + opt.issue_gap
                                                 ELSE 0)
               /\ r.end_req # NaN =>
                    /\ r.end_req = Later(r.begin_req, before("begin_resp", opt.queue_depth)) + Ns
                    /\ t \notin backpressure => r.end_req = r.begin_req + Ns
               /\ r.begin_resp # NaN =>
                    r.begin_resp = Later(r.end_req, before("begin_resp", 1))
                                     + opt.service_latency
               /\ r.end_resp # NaN =>
                    r.end_resp = Later(r.begin_resp, before("end_resp", 1)) + Ns
  BY DEF TraceTiming
<1>1. /\ record[t].begin_req # NaN => t <= Issued
      /\ record[t].end_req # NaN => t <= Accepted
      /\ record[t].begin_resp # NaN => t <= Responded
      /\ record[t].end_resp # NaN => t <= completed_responses
  BY DEF TimingInv, StampInv, StampedInOrder
<1>2. /\ record[t].begin_req # NaN => record[t].begin_req = IssueTime(t)
      /\ record[t].end_req # NaN =>
           /\ record[t].end_req = Arrival(t) + Ns
           /\ t \notin backpressure => Arrival(t) = record[t].begin_req
      /\ record[t].begin_resp # NaN =>
           record[t].begin_resp = ServiceStart(t) + opt.service_latency
      /\ record[t].end_resp # NaN => record[t].end_resp = AnswerStart(t) + Ns
  BY <1>1 DEF TimingInv, StampInv, Timed
<1>3. t \in Nat /\ t >= 1 /\ opt.issue_gap \in Nat
  BY Counts DEF TimingInv, StampInv, CountsOK, Txns
<1>4. Later(0, 0) = 0
  BY DEF Later
<1>5. IssueTime(t) = Later(IF t > 1 THEN record[t - 1].end_req ELSE 0,
                           IF t > 1 THEN record[t - 1].begin_req + opt.issue_gap ELSE 0)
  BY <1>4 DEF IssueTime
<1> QED BY <1>2, <1>3, <1>5 DEF Arrival, ServiceStart, AnswerStart

(* The trace of AT-1 is that of a queue with queue_depth slots and one     *)
(* server, whatever order the kernel runs the four threads in.             *)
THEOREM TimingIsExact == Spec => []TraceTiming
BY TimingInvariance, TimedTrace, PTL

-----------------------------------------------------------------------------
(***************************************************************************)
(* The refinement: the counts tell the phase of every transaction, so each *)
(* count that moves is one action of FourPhaseLink.                        *)
(***************************************************************************)
PhaseByCount(t) ==
  IF t <= completed_responses THEN "end_resp"
  ELSE IF t <= Responded THEN "begin_resp"
  ELSE IF t <= Accepted THEN "end_req"
  ELSE IF t <= Issued THEN "begin_req" ELSE "idle"

PhasesCounted == \A t \in Txns : Phase(t) = PhaseByCount(t)

(* The stamps of a transaction and the counts tell the same phase.         *)
LEMMA PhasesAreCounted == Inv /\ StampInv => PhasesCounted
<1> SUFFICES ASSUME Inv, StampInv, NEW t \in Txns PROVE Phase(t) = PhaseByCount(t)
  BY DEF PhasesCounted
<1>1. /\ record[t].begin_req # NaN <=> t <= Issued
      /\ record[t].end_req # NaN <=> t <= Accepted
      /\ record[t].begin_resp # NaN <=> t <= Responded
      /\ record[t].end_resp # NaN <=> t <= completed_responses
  BY DEF StampInv, StampedInOrder
<1>2. CountsOK /\ t \in Nat
  BY Counts DEF StampInv, Txns, CountsOK
<1>3. /\ t <= completed_responses => t <= Responded
      /\ t <= Responded => t <= Accepted
      /\ t <= Accepted => t <= Issued
  BY <1>2 DEF CountsOK
<1> QED BY <1>1, <1>3 DEF Phase, PhaseByCount

(* The same of the next state.                                             *)
LEMMA PhasesAreCountedNext == (Inv /\ StampInv)' => PhasesCounted'
BY PhasesAreCounted, PTL

LinkPhase    == [t \in Txns |-> Phase(t)]
LinkAccepted == servicing \o service_queue

LinkBeginReq(t) ==
  /\ LinkPhase[t] = "idle" /\ \A u \in Txns : LinkPhase[u] # "begin_req"
  /\ LinkPhase' = [LinkPhase EXCEPT ![t] = "begin_req"]
  /\ LinkAccepted' = LinkAccepted

LinkEndReq(t) ==
  /\ LinkPhase[t] = "begin_req" /\ Len(LinkAccepted) < opt.queue_depth
  /\ LinkPhase' = [LinkPhase EXCEPT ![t] = "end_req"]
  /\ LinkAccepted' = Append(LinkAccepted, t)

LinkBeginResp(t) ==
  /\ LinkAccepted # <<>> /\ t = Head(LinkAccepted)
  /\ LinkPhase' = [LinkPhase EXCEPT ![t] = "begin_resp"]
  /\ LinkAccepted' = Tail(LinkAccepted)

LinkEndResp(t) ==
  /\ LinkPhase[t] = "begin_resp"
  /\ LinkPhase' = [LinkPhase EXCEPT ![t] = "end_resp"]
  /\ LinkAccepted' = LinkAccepted

LinkStep ==
  /\ opt' = opt
  /\ \/ \E t \in Txns : LinkBeginReq(t) \/ LinkEndReq(t) \/ LinkBeginResp(t) \/ LinkEndResp(t)
     \/ UNCHANGED <<LinkPhase, LinkAccepted>>

(* A step of this kind is a step of the abstract link.                     *)
LEMMA LinkStepIsNext == LinkStep => [Link!Next]_(Link!vars)
<1> SUFFICES ASSUME LinkStep PROVE [Link!Next]_(Link!vars)
  OBVIOUS
<1>1. opt' = opt /\ Txns' = Txns
  BY DEF LinkStep, Txns
<1>2. CASE UNCHANGED <<LinkPhase, LinkAccepted>>
  BY <1>1, <1>2 DEF LinkPhase, LinkAccepted, Link!vars
<1>3. ASSUME NEW t \in Txns, LinkBeginReq(t) PROVE Link!BeginReq(t)
  BY <1>1, <1>3 DEF LinkBeginReq, LinkPhase, LinkAccepted, Link!BeginReq, Link!Transactions
<1>4. ASSUME NEW t \in Txns, LinkEndReq(t) PROVE Link!EndReq(t)
  BY <1>1, <1>4 DEF LinkEndReq, LinkPhase, LinkAccepted, Link!EndReq
<1>5. ASSUME NEW t \in Txns, LinkBeginResp(t) PROVE Link!BeginResp(t)
  BY <1>1, <1>5 DEF LinkBeginResp, LinkPhase, LinkAccepted, Link!BeginResp
<1>6. ASSUME NEW t \in Txns, LinkEndResp(t) PROVE Link!EndResp(t)
  BY <1>1, <1>6 DEF LinkEndResp, LinkPhase, LinkAccepted, Link!EndResp
<1>7. Link!Transactions = Txns
  BY DEF Link!Transactions
<1> QED BY <1>2, <1>3, <1>4, <1>5, <1>6, <1>7 DEF LinkStep, Link!Next

(* One count moves: one transaction changes its phase.                     *)
LEMMA CountsLink ==
  ASSUME Inv, Inv', StampInv, StampInv', opt' = opt, NEW n \in Txns, NEW p,
         \A t \in Txns : PhaseByCount(t)' = IF t = n THEN p ELSE PhaseByCount(t)
  PROVE  LinkPhase' = [LinkPhase EXCEPT ![n] = p]
<1>1. Txns' = Txns
  BY DEF Txns
<1>2. \A t \in Txns : Phase(t) = PhaseByCount(t) /\ Phase(t)' = PhaseByCount(t)'
  BY <1>1, PhasesAreCounted, PhasesAreCountedNext DEF PhasesCounted
<1>3. \A t \in Txns : Phase(t)' = IF t = n THEN p ELSE Phase(t)
  BY <1>2
<1> QED BY <1>1, <1>3 DEF LinkPhase

(* No count moves: the link does not see the step.                         *)
LEMMA PhaseStutter ==
  ASSUME Inv, Inv', StampInv, StampInv', SameCounts, opt' = opt
  PROVE  LinkPhase' = LinkPhase
<1>1. Txns' = Txns
  BY DEF Txns
<1>2. \A t \in Txns : Phase(t) = PhaseByCount(t) /\ Phase(t)' = PhaseByCount(t)'
  BY <1>1, PhasesAreCounted, PhasesAreCountedNext DEF PhasesCounted
<1>3. \A t \in Txns : PhaseByCount(t)' = PhaseByCount(t)
  BY DEF PhaseByCount, SameCounts
<1>4. \A t \in Txns : Phase(t)' = Phase(t)
  BY <1>2, <1>3
<1> QED BY <1>1, <1>4 DEF LinkPhase

(* ... and the queue of accepted requests unchanged, it is a stutter.      *)
LEMMA CountsStutter ==
  ASSUME Inv, Inv', StampInv, StampInv', SameCounts,
         opt' = opt, UNCHANGED <<servicing, service_queue>>
  PROVE  LinkStep
BY PhaseStutter DEF LinkStep, LinkAccepted

-----------------------------------------------------------------------------
(* BEGIN_REQ: the next transaction, when no other is before END_REQ.       *)
LEMMA BeginReqLink ==
  ASSUME Inv, Inv', StampInv, StampInv', opt' = opt, UNCHANGED <<servicing, service_queue>>,
         Issued = Accepted, Issued' = Issued + 1, Accepted' = Accepted,
         Responded' = Responded, completed_responses' = completed_responses
  PROVE  LinkStep
<1>0. CountsOK /\ CountsOK'
  BY Counts, CountsNext DEF StampInv
<1>1. Issued + 1 \in Txns
  BY <1>0 DEF CountsOK, Txns
<1>2. \A t \in Txns : t \in Nat
  BY <1>0 DEF Txns, CountsOK
<1>3. \A t \in Txns : PhaseByCount(t)' = IF t = Issued + 1 THEN "begin_req" ELSE PhaseByCount(t)
  BY <1>0, <1>2 DEF PhaseByCount, CountsOK
<1>4. LinkPhase' = [LinkPhase EXCEPT ![Issued + 1] = "begin_req"]
  BY <1>1, <1>3, CountsLink
<1>5. \A t \in Txns : LinkPhase[t] = PhaseByCount(t)
  BY PhasesAreCounted DEF PhasesCounted, LinkPhase
<1>6. PhaseByCount(Issued + 1) = "idle" /\ \A t \in Txns : PhaseByCount(t) # "begin_req"
  BY <1>0, <1>2 DEF PhaseByCount, CountsOK
<1>7. LinkBeginReq(Issued + 1)
  BY <1>1, <1>4, <1>5, <1>6 DEF LinkBeginReq, LinkAccepted
<1> QED BY <1>1, <1>7 DEF LinkStep

(* END_REQ: there is a slot for it, and it joins the accepted requests.    *)
LEMMA EndReqLink ==
  ASSUME Inv, Inv', StampInv, StampInv', opt' = opt,
         servicing' = servicing, service_queue' = Append(service_queue, Accepted + 1),
         Accepted + 1 <= Issued, Accepted + 1 - opt.queue_depth <= Responded,
         Accepted' = Accepted + 1, Issued' = Issued,
         Responded' = Responded, completed_responses' = completed_responses
  PROVE  LinkStep
<1>0. CountsOK /\ CountsOK'
  BY Counts, CountsNext DEF StampInv
<1>1. Accepted + 1 \in Txns
  BY <1>0 DEF CountsOK, Txns
<1>2. \A t \in Txns : t \in Nat
  BY <1>0 DEF Txns, CountsOK
<1>3. \A t \in Txns : PhaseByCount(t)' = IF t = Accepted + 1 THEN "end_req" ELSE PhaseByCount(t)
  BY <1>0, <1>2 DEF PhaseByCount, CountsOK
<1>4. LinkPhase' = [LinkPhase EXCEPT ![Accepted + 1] = "end_req"]
  BY <1>1, <1>3, CountsLink
<1>5. \A t \in Txns : LinkPhase[t] = PhaseByCount(t)
  BY PhasesAreCounted DEF PhasesCounted, LinkPhase
<1>6. PhaseByCount(Accepted + 1) = "begin_req"
  BY <1>0 DEF PhaseByCount, CountsOK
<1>7. servicing \in Seq(Txns) /\ service_queue \in Seq(Txns)
  BY DEF Inv, TypeOK, TargetTypeOK
<1>8. LinkAccepted' = Append(LinkAccepted, Accepted + 1)
  BY <1>1, <1>7 DEF LinkAccepted
<1>9. Len(LinkAccepted) < opt.queue_depth
  <2>1. Len(LinkAccepted) = Len(servicing) + Len(service_queue)
    BY <1>7 DEF LinkAccepted
  <2>2. Responded = Accepted - Len(servicing) - Len(service_queue)
    BY DEF Responded
  <2>3. Accepted \in Nat /\ opt.queue_depth \in Nat
        /\ Len(servicing) \in Nat /\ Len(service_queue) \in Nat
    BY <1>0, Lengths DEF CountsOK
  <2> QED BY <2>1, <2>2, <2>3
<1>10. LinkEndReq(Accepted + 1)
  BY <1>1, <1>4, <1>5, <1>6, <1>8, <1>9 DEF LinkEndReq
<1> QED BY <1>1, <1>10 DEF LinkStep

(* BEGIN_RESP: the first accepted request, popping the next hides nothing. *)
LEMMA BeginRespLink ==
  ASSUME Inv, Inv', StampInv, StampInv', opt' = opt,
         servicing # <<>>, PopService,
         Accepted' = Accepted, Issued' = Issued,
         Responded' = Responded + 1, completed_responses' = completed_responses
  PROVE  LinkStep
<1>0. CountsOK /\ CountsOK'
  BY Counts, CountsNext DEF StampInv
<1>1. Responded + 1 \in Txns /\ Responded + 1 <= Accepted
  BY <1>0 DEF CountsOK, Txns
<1>2. \A t \in Txns : t \in Nat
  BY <1>0 DEF Txns, CountsOK
<1>3. \A t \in Txns :
         PhaseByCount(t)' = IF t = Responded + 1 THEN "begin_resp" ELSE PhaseByCount(t)
  BY <1>0, <1>1, <1>2 DEF PhaseByCount, CountsOK
<1>4. LinkPhase' = [LinkPhase EXCEPT ![Responded + 1] = "begin_resp"]
  BY <1>1, <1>3, CountsLink
<1>5. servicing \in Seq(Txns) /\ service_queue \in Seq(Txns) /\ Len(servicing) = 1
      /\ servicing[1] = Responded + 1
  BY Lengths DEF Inv, TypeOK, TargetTypeOK, StampInv, Ordered
<1>6. LinkAccepted # <<>> /\ Head(LinkAccepted) = Responded + 1
      /\ Tail(LinkAccepted) = service_queue
  <2>1. servicing = <<Responded + 1>>
    BY <1>5
  <2>2. ASSUME NEW x \in Txns, NEW q \in Seq(Txns)
        PROVE  <<x>> \o q # <<>> /\ Head(<<x>> \o q) = x /\ Tail(<<x>> \o q) = q
    OBVIOUS
  <2> QED BY <1>1, <1>5, <2>1, <2>2 DEF LinkAccepted
<1>7. LinkAccepted' = service_queue
  <2>1. CASE service_queue = <<>>
    BY <2>1 DEF PopService, LinkAccepted
  <2>2. CASE service_queue # <<>>
    <3>1. <<Head(service_queue)>> \o Tail(service_queue) = service_queue
      BY <1>5, <2>2
    <3> QED BY <2>2, <3>1 DEF PopService, LinkAccepted
  <2> QED BY <2>1, <2>2
<1>8. LinkBeginResp(Responded + 1)
  BY <1>4, <1>6, <1>7 DEF LinkBeginResp
<1> QED BY <1>1, <1>8 DEF LinkStep

(* END_RESP: the transaction has had its BEGIN_RESP.                       *)
LEMMA EndRespLink ==
  ASSUME Inv, Inv', StampInv, StampInv', opt' = opt, UNCHANGED <<servicing, service_queue>>,
         Issued' = Issued, Accepted' = Accepted,
         Responded' = Responded, completed_responses' = completed_responses + 1
  PROVE  LinkStep
<1>0. CountsOK /\ CountsOK'
  BY Counts, CountsNext DEF StampInv
<1>1. completed_responses + 1 \in Txns /\ completed_responses + 1 <= Responded
  BY <1>0 DEF CountsOK, Txns
<1>2. \A t \in Txns : t \in Nat
  BY <1>0 DEF Txns, CountsOK
<1>3. \A t \in Txns :
         PhaseByCount(t)' = IF t = completed_responses + 1 THEN "end_resp" ELSE PhaseByCount(t)
  BY <1>0, <1>1, <1>2 DEF PhaseByCount, CountsOK
<1>4. LinkPhase' = [LinkPhase EXCEPT ![completed_responses + 1] = "end_resp"]
  BY <1>1, <1>3, CountsLink
<1>5. \A t \in Txns : LinkPhase[t] = PhaseByCount(t)
  BY PhasesAreCounted DEF PhasesCounted, LinkPhase
<1>6. PhaseByCount(completed_responses + 1) = "begin_resp"
  BY <1>0, <1>1 DEF PhaseByCount, CountsOK
<1>7. LinkEndResp(completed_responses + 1)
  BY <1>1, <1>4, <1>5, <1>6 DEF LinkEndResp, LinkAccepted
<1> QED BY <1>1, <1>7 DEF LinkStep

-----------------------------------------------------------------------------
(* issue_requests is BEGIN_REQ or invisible.                               *)
LEMMA IssueRequestsLink ==
  ASSUME Inv, Inv', TimingInv, TimingInv', IssueRequests
  PROVE  LinkStep
<1>0. /\ CountsOK /\ StampInv /\ StampInv'
      /\ UNCHANGED <<opt, completed_responses>> /\ index \in Nat
  BY Counts DEF TimingInv, StampInv, IssueRequests, Inv, TypeOK
<1>1. UNCHANGED <<servicing, service_queue>>
  BY DEF IssueRequests, Continue, Drain, AwaitIssueTime, BeginRequest, AwaitEndReqAgain, target,
     TargetBeginReq
<1>2. Responded = Accepted - Len(servicing) - Len(service_queue)
      /\ Responded' = Accepted' - Len(servicing) - Len(service_queue)
  BY <1>1 DEF Responded
<1>3. CASE awaiting_end_req /\ ~end_req_seen
  <2>1. SameCounts
    BY <1>0, <1>1, <1>3 DEF IssueRequests, AwaitEndReqAgain, SameCounts, Issued, Accepted,
       Responded
  <2> QED BY <1>0, <1>1, <2>1, CountsStutter
<1>4. CASE ~(awaiting_end_req /\ ~end_req_seen)
  <2>1. PICK time : Continue(Issued + 1, time)
    BY <1>0, <1>4 DEF IssueRequests, Issued
  <2>2. Issued = Accepted /\ Issued \in Nat
    BY <1>0, <1>4 DEF Accepted, CountsOK
  <2>3. CASE Drain \/ AwaitIssueTime(Issued + 1, time)
    <3>1. awaiting_end_req' = FALSE /\ index' = Issued + 1
      <4>1. CASE AwaitIssueTime(Issued + 1, time)
        BY <4>1 DEF AwaitIssueTime
      <4>2. CASE ~AwaitIssueTime(Issued + 1, time) /\ Drain /\ Issued + 1 > opt.num_transactions
        BY <1>0, <2>2, <4>2 DEF Drain, CountsOK
      <4>3. CASE ~AwaitIssueTime(Issued + 1, time) /\ ~(Issued + 1 > opt.num_transactions)
        <5>1. BeginRequest(Issued + 1)
          BY <2>1, <4>3 DEF Continue
        <5> QED BY <2>3, <4>3, <5>1 DEF BeginRequest, Drain
      <4> QED BY <2>3, <4>1, <4>2, <4>3
    <3>2. Issued' = Issued /\ Accepted' = Issued'
      BY <2>2, <3>1 DEF Issued, Accepted
    <3>3. SameCounts
      BY <1>0, <1>2, <2>2, <3>2 DEF SameCounts
    <3> QED BY <1>0, <1>1, <3>3, CountsStutter
  <2>4. CASE BeginRequest(Issued + 1)
    <3>1. awaiting_end_req' = TRUE /\ index' = Issued + 1 /\ end_req_seen' = FALSE
      BY <2>4 DEF BeginRequest
    <3>2. Issued' = index' /\ Accepted' = index' - 1
      BY <3>1 DEF Issued, Accepted
    <3>3. Issued' = Issued + 1 /\ Accepted' = Accepted
      BY <2>2, <3>1, <3>2
    <3> QED BY <1>0, <1>1, <1>2, <2>2, <3>3, BeginReqLink
  <2> QED BY <2>1, <2>3, <2>4 DEF Continue
<1> QED BY <1>3, <1>4

(* Every step of the four threads and the kernel is one step of the link.  *)
LEMMA NextLink ==
  ASSUME Inv, Inv', TimingInv, TimingInv', [Next]_vars
  PROVE  LinkStep
<1>0. /\ CountsOK /\ StampInv /\ StampInv'
  BY Counts DEF TimingInv, StampInv
<1>1. CASE IssueRequests
  BY <1>1, IssueRequestsLink
<1>2. CASE SendEndResponses
  <2>1. UNCHANGED <<opt, servicing, service_queue>>
        /\ UNCHANGED <<index, awaiting_end_req, end_req_seen>>
    BY <1>2 DEF SendEndResponses, target
  <2>2. Issued' = Issued /\ Accepted' = Accepted /\ Responded' = Responded
    BY <2>1 DEF Issued, Accepted, Responded
  <2>3. CASE responding = <<>>
    <3>1. completed_responses' = completed_responses
      BY <1>2, <2>3 DEF SendEndResponses
    <3> QED BY <1>0, <2>1, <2>2, <3>1, CountsStutter DEF SameCounts
  <2>4. CASE responding # <<>>
    <3>1. completed_responses' = completed_responses + 1
      BY <1>2, <2>4 DEF SendEndResponses, EndResponse
    <3> QED BY <1>0, <2>1, <2>2, <3>1, EndRespLink
  <2> QED BY <2>3, <2>4
<1>3. CASE SendEndRequests
  <2>1. UNCHANGED <<opt, completed_responses, index, awaiting_end_req>>
    BY <1>3 DEF SendEndRequests
  <2>2. CASE accepting = <<>>
    <3>1. /\ servicing' = servicing /\ end_req_seen' = end_req_seen
          /\ service_queue' = service_queue \o <<>>
      BY <1>3, <2>2 DEF SendEndRequests, TargetSendEndRequest
    <3>2. service_queue' = service_queue
      BY <3>1 DEF Inv, TypeOK, TargetTypeOK
    <3>3. SameCounts
      BY <2>1, <3>1, <3>2 DEF SameCounts, Issued, Accepted, Responded
    <3> QED BY <1>0, <2>1, <3>1, <3>2, <3>3, CountsStutter
  <2>3. CASE accepting # <<>>
    <3>1. /\ accepting = <<index>> /\ awaiting_end_req /\ ~end_req_seen
          /\ index \in Txns /\ index = Accepted + 1
          /\ StampStep(0, 1, 0, 0) /\ TargetSendEndRequest
      BY <1>3, <2>3, AcceptStep
    <3>2. /\ Issued' = Issued /\ Accepted' = Accepted + 1 /\ Responded' = Responded
          /\ completed_responses' = completed_responses
      BY <1>0, <3>1 DEF StampStep, CountsOK
    <3>3. Accepted + 1 <= Issued /\ Accepted + 1 - opt.queue_depth <= Responded
      <4>1. index = Issued /\ index - opt.queue_depth <= Responded
        BY <2>3, <3>1, SlotOfAwaited DEF TimingInv, StampInv
      <4> QED BY <1>0, <3>1, <4>1 DEF CountsOK
    <3>4. servicing' = servicing /\ service_queue' = Append(service_queue, Accepted + 1)
      <4>1. servicing' = servicing /\ service_queue' = service_queue \o <<index>>
        BY <3>1 DEF TargetSendEndRequest
      <4>2. service_queue \o <<index>> = Append(service_queue, index)
        BY <3>1 DEF Inv, TypeOK, TargetTypeOK
      <4> QED BY <3>1, <4>1, <4>2, Zenon
    <3> QED BY <1>0, <2>1, <3>2, <3>3, <3>4, EndReqLink
  <2> QED BY <2>2, <2>3
<1>4. CASE ServiceRequests
  <2>1. /\ PopService /\ UNCHANGED <<opt, completed_responses>>
        /\ \/ servicing = <<>> /\ SameCounts
           \/ servicing # <<>> /\ StampStep(0, 0, 1, 0)
    BY <1>4, ServeStep DEF ServiceRequests
  <2>2. CASE servicing = <<>>
    <3>1. LinkAccepted' = LinkAccepted
      <4>1. service_queue \in Seq(Txns)
        BY DEF Inv, TypeOK, TargetTypeOK
      <4>2. CASE service_queue = <<>>
        BY <2>1, <2>2, <4>2 DEF PopService, LinkAccepted
      <4>3. CASE service_queue # <<>>
        <5>1. <<Head(service_queue)>> \o Tail(service_queue) = service_queue
          BY <4>1, <4>3
        <5>2. <<>> \o service_queue = service_queue
          BY <4>1
        <5> QED BY <2>1, <2>2, <4>3, <5>1, <5>2 DEF PopService, LinkAccepted
      <4> QED BY <4>2, <4>3
    <3> QED BY <1>0, <2>1, <2>2, <3>1, PhaseStutter DEF LinkStep
  <2>3. CASE servicing # <<>>
    <3>1. /\ Issued' = Issued /\ Accepted' = Accepted /\ Responded' = Responded + 1
      BY <1>0, <2>1, <2>3 DEF StampStep, CountsOK
    <3> QED BY <1>0, <2>1, <2>3, <3>1, BeginRespLink
  <2> QED BY <2>2, <2>3
<1>5. CASE Scheduler \/ UNCHANGED vars
  <2>1. UNCHANGED <<opt, target, initiator>>
    BY <1>5 DEF Scheduler, vars
  <2>2. SameCounts /\ UNCHANGED <<servicing, service_queue>>
    BY <2>1 DEF target, initiator, SameCounts, Issued, Accepted, Responded
  <2> QED BY <1>0, <2>1, <2>2, CountsStutter
<1> QED BY <1>1, <1>2, <1>3, <1>4, <1>5 DEF Next, Thread, Exit

(* The program starts where the link starts.                               *)
LEMMA InitLink == Init => Link!Init
<1> SUFFICES ASSUME Init PROVE Link!Init
  OBVIOUS
<1>1. opt.queue_depth \in Nat \ {0}
  BY OptionsAssumption DEF Init
<1>2. \A t \in Txns : Phase(t) = "idle"
  BY DEF Init, NewRecord, Phase
<1>3. servicing \o service_queue = <<>>
  BY DEF Init, TargetInit
<1> QED BY <1>1, <1>2, <1>3 DEF Link!Init, Link!Transactions

(* AT-1 implements FourPhaseLink: phases in order, one request at a time,  *)
(* at most queue_depth accepted requests, responses in order of acceptance. *)
THEOREM MemoryImplementsLink == Spec => ImplementsLink
<1>1. Inv /\ Inv' /\ TimingInv /\ TimingInv' /\ [Next]_vars => [Link!Next]_(Link!vars)
  BY NextLink, LinkStepIsNext
<1> QED BY InitLink, TimingInvariance, <1>1, PTL DEF Spec, ImplementsLink, Link!Spec
=============================================================================
