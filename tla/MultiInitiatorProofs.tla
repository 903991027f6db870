------------------------ MODULE MultiInitiatorProofs ------------------------
(***************************************************************************)
(* The fabric AT-2 and AT-3 share, for every set of options and every      *)
(* arbiter that chooses a pending initiator: one request downstream at a   *)
(* time, the accounting of the target's slots, and no SC_REPORT_FATAL.     *)
(* Then no thread sleeps on its event while there is work for it and no    *)
(* notification is on its way.  Last, the fabric implements FourPhaseLink: *)
(* every step of a thread is one step of the link or none.                 *)
(***************************************************************************)
EXTENDS MultiInitiator, SequenceTheorems, TLAPS

(* The sequences the steps below take elements from and append to.         *)
QueuesOK ==
  /\ TargetTypeOK(Txns)
  /\ next_txn \in [Initiators -> Nat]
  /\ pending \in [Initiators -> Seq(Txns)]
  /\ downstream_pending \in BOOLEAN

(* occupied_slots_ counts the requests of the four stages of the pipeline. *)
Counted ==
  /\ occupied_slots = Len(servicing) + Len(service_queue)
                        + Len(accepting) + Len(end_req_queue)
  /\ occupied_slots <= opt.queue_depth

(* OneDownstream, in lengths.                                              *)
OneUpstream ==
  Len(waiting_accept_queue) + Len(end_req_queue) + Len(accepting)
    = IF downstream_pending THEN 1 ELSE 0

(* What the options of both programs have in common.                       *)
OptOK ==
  /\ opt.num_transactions \in Nat /\ opt.queue_depth \in Nat \ {0}
  /\ opt.service_latency \in Nat

(* The inductive invariant: a release admits the only waiting request, if  *)
(* there is one, because the interconnect sends no second one.             *)
FabricInv ==
  /\ OptOK
  /\ QueuesOK
  /\ Counted
  /\ NoIdleSlot
  /\ OneUpstream
  /\ sim # "aborted"

(* An arbiter that has somebody to choose chooses one of those who wait.   *)
Sound(choice) == HasPending # {} => choice.winner \in HasPending

(* A sequence of at most one element is empty or has one.                  *)
LEMMA AtMostOne ==
  ASSUME NEW S, NEW s \in Seq(S), s # <<>>, Len(s) <= 1
  PROVE  Len(s) = 1
<1>1. Len(s) \in Nat /\ Len(s) # 0
  BY EmptySeq, LenProperties
<1> QED BY <1>1

(* The invariant's parts as the properties of the fabric state them.       *)
LEMMA PropertiesFollow ==
  ASSUME FabricInv
  PROVE  OneDownstream /\ SlotsAccounted /\ NoIdleSlot /\ sim # "aborted"
<1>1. /\ waiting_accept_queue \in Seq(Txns) /\ end_req_queue \in Seq(Txns)
      /\ accepting \in Seq(Txns) /\ service_queue \in Seq(Txns)
      /\ servicing \in Seq(Txns)
  BY DEF FabricInv, QueuesOK, TargetTypeOK
<1>2. OneDownstream
  BY <1>1 DEF FabricInv, OneUpstream, OneDownstream, Upstream
<1>3. SlotsAccounted
  BY <1>1 DEF FabricInv, Counted, SlotsAccounted, Pipeline
<1> QED BY <1>2, <1>3 DEF FabricInv

(* The invariant holds when sc_start is called.                            *)
LEMMA InitFabric == OptOK /\ Init => FabricInv
<1> SUFFICES ASSUME OptOK, Init PROVE FabricInv
  OBVIOUS
<1>1. TargetTypeOK(Txns)
  BY DEF Init, TargetInit, TargetTypeOK
<1>2. QueuesOK /\ sim # "aborted"
  <2>1. sim # "aborted" /\ downstream_pending = FALSE
    BY DEF Init, Elaborate, ElaborateWith
  <2>2. /\ next_txn = [i \in Initiators |-> 0]
        /\ pending = [i \in Initiators |-> <<>>]
    BY DEF Init
  <2>3. <<>> \in Seq(Txns)
    OBVIOUS
  <2> QED BY <1>1, <2>1, <2>2, <2>3 DEF QueuesOK
<1>3. Counted /\ NoIdleSlot /\ OneUpstream
  <2>1. /\ waiting_accept_queue = <<>> /\ end_req_queue = <<>> /\ accepting = <<>>
        /\ service_queue = <<>> /\ servicing = <<>> /\ occupied_slots = 0
        /\ downstream_pending = FALSE /\ opt.queue_depth \in Nat
    BY DEF Init, TargetInit, OptOK
  <2>2. Len(<<>>) = 0
    OBVIOUS
  <2> QED BY <2>1, <2>2 DEF Counted, NoIdleSlot, OneUpstream
<1> QED BY <1>2, <1>3 DEF FabricInv

(* What is left alone by the steps of the initiators, of Top and of the    *)
(* scheduler, which touch neither target nor interconnect.                 *)
LEMMA ElsewhereInv ==
  ASSUME FabricInv, UNCHANGED <<opt, target, downstream_pending>>,
         next_txn' \in [Initiators -> Nat], pending' \in [Initiators -> Seq(Txns)],
         sim' # "aborted"
  PROVE  FabricInv'
BY DEF FabricInv, OptOK, QueuesOK, TargetTypeOK, Counted, NoIdleSlot, OneUpstream,
   target, Txns

(* A segment of an initiator's issue_requests keeps it.                    *)
LEMMA IssueRequestsInv ==
  ASSUME FabricInv, NEW i \in Initiators, NEW gap, IssueRequests(i, gap)
  PROVE  FabricInv'
<1>1. /\ next_txn \in [Initiators -> Nat] /\ pending \in [Initiators -> Seq(Txns)]
      /\ opt.num_transactions \in Nat
  BY DEF FabricInv, QueuesOK, OptOK
<1>2. /\ UNCHANGED <<opt, target, downstream_pending>>
      /\ next_txn' = [next_txn EXCEPT ![i] = next_txn[i] + 1]
  BY DEF IssueRequests
<1>3. next_txn' \in [Initiators -> Nat]
  BY <1>1, <1>2
<1>4. sim' # "aborted"
  BY DEF IssueRequests, CanRun, Notify, BeginRequest, FinishIssuing
<1>5. pending' \in [Initiators -> Seq(Txns)]
  <2>1. CASE next_txn[i] # 0 /\ next_txn[i] <= opt.num_transactions
    <3>1. pending' = [pending EXCEPT ![i] = Append(pending[i], <<i, next_txn[i]>>)]
      BY <2>1 DEF IssueRequests, BeginRequest
    <3>2. <<i, next_txn[i]>> \in Txns /\ pending[i] \in Seq(Txns)
      BY <1>1, <2>1 DEF Txns
    <3>3. Append(pending[i], <<i, next_txn[i]>>) \in Seq(Txns)
      BY <3>2
    <3> QED BY <1>1, <3>1, <3>3
  <2>2. CASE ~(next_txn[i] # 0 /\ next_txn[i] <= opt.num_transactions)
    BY <1>1, <2>2 DEF IssueRequests, FinishIssuing
  <2> QED BY <2>1, <2>2
<1> QED BY <1>2, <1>3, <1>4, <1>5, ElsewhereInv

(* A segment of an initiator's send_end_responses keeps it.                *)
LEMMA SendEndResponsesInv ==
  ASSUME FabricInv, NEW i \in Initiators, SendEndResponses(i)
  PROVE  FabricInv'
<1>1. /\ UNCHANGED <<opt, target, downstream_pending, next_txn, pending>>
      /\ sim' # "aborted"
  BY DEF SendEndResponses, EndResponse, Notify, CanRun, interconnect
<1>2. next_txn' \in [Initiators -> Nat] /\ pending' \in [Initiators -> Seq(Txns)]
  BY <1>1 DEF FabricInv, QueuesOK
<1> QED BY <1>1, <1>2, ElsewhereInv

(* Top, the scheduler and a step that changes nothing keep it.             *)
LEMMA OtherStepsInv ==
  ASSUME FabricInv, StopWhenDone \/ Scheduler \/ UNCHANGED vars
  PROVE  FabricInv'
<1>1. UNCHANGED <<opt, target, downstream_pending, next_txn, pending>>
  BY DEF StopWhenDone, Scheduler, vars, target, issuers, interconnect
<1>2. sim' # "aborted"
  BY DEF StopWhenDone, StopAndNotify, Notify, Scheduler, DeltaCycle, AdvanceTime, vars,
     kernel, FabricInv, CanRun
<1>3. next_txn' \in [Initiators -> Nat] /\ pending' \in [Initiators -> Seq(Txns)]
  BY <1>1 DEF FabricInv, QueuesOK
<1> QED BY <1>1, <1>2, <1>3, ElsewhereInv

(* A grant needs the link free, so nothing is upstream of the target yet.  *)
LEMMA GrantInv ==
  ASSUME FabricInv, ~downstream_pending, NEW choice, choice.winner \in HasPending,
         Grant(choice), UNCHANGED <<opt, next_txn>>
  PROVE  FabricInv'
<1> DEFINE w == choice.winner
           t == Head(pending[w])
<1>1. w \in Initiators /\ pending \in [Initiators -> Seq(Txns)] /\ pending[w] # <<>>
  BY DEF HasPending, FabricInv, QueuesOK
<1>2. t \in Txns /\ Tail(pending[w]) \in Seq(Txns)
  BY <1>1
<1>3. pending' = [pending EXCEPT ![w] = Tail(pending[w])]
  BY DEF Grant
<1>4. pending' \in [Initiators -> Seq(Txns)]
  BY <1>1, <1>2, <1>3
<1>5. TargetBeginReq(t) /\ downstream_pending' = TRUE /\ sim' = sim
  BY DEF Grant, Notify
<1> HIDE DEF t, w
<1>6. /\ TargetTypeOK(Txns) /\ Txns' = Txns
      /\ waiting_accept_queue = <<>> /\ end_req_queue = <<>> /\ accepting = <<>>
  <2>1. /\ TargetTypeOK(Txns) /\ Txns' = Txns
    BY DEF FabricInv, QueuesOK, Txns
  <2>2. /\ Len(waiting_accept_queue) \in Nat /\ Len(end_req_queue) \in Nat
        /\ Len(accepting) \in Nat
    BY <2>1, LenProperties DEF TargetTypeOK
  <2>3. Len(waiting_accept_queue) + Len(end_req_queue) + Len(accepting) = 0
    BY DEF FabricInv, OneUpstream
  <2>4. /\ Len(waiting_accept_queue) = 0 /\ Len(end_req_queue) = 0 /\ Len(accepting) = 0
    BY <2>2, <2>3
  <2> QED BY <2>1, <2>4, EmptySeq DEF TargetTypeOK
<1>7. /\ opt.queue_depth \in Nat /\ occupied_slots \in Nat
      /\ occupied_slots = Len(servicing) + Len(service_queue)
      /\ occupied_slots <= opt.queue_depth
  BY <1>6 DEF FabricInv, OptOK, Counted, TargetTypeOK
<1>8. CASE HasFreeSlot
  <2>1. /\ occupied_slots' = occupied_slots + 1
        /\ end_req_queue' = <<t>>
        /\ UNCHANGED <<waiting_accept_queue, backpressure, accepting, service_queue,
                       servicing>>
    BY <1>5, <1>6, <1>8 DEF TargetBeginReq
  <2>2. TargetTypeOK(Txns)'
    BY <1>2, <1>6, <2>1 DEF TargetTypeOK
  <2>3. Counted'
    BY <1>6, <1>7, <1>8, <2>1 DEF Counted, HasFreeSlot, TargetTypeOK
  <2>4. NoIdleSlot' /\ OneUpstream'
    BY <1>5, <1>6, <2>1 DEF NoIdleSlot, OneUpstream
  <2> QED
    BY <1>4, <1>5, <1>6, <2>2, <2>3, <2>4 DEF FabricInv, QueuesOK, OptOK
<1>9. CASE ~HasFreeSlot
  <2>1. /\ waiting_accept_queue' = <<t>>
        /\ backpressure' = backpressure \cup {t}
        /\ UNCHANGED <<occupied_slots, end_req_queue, accepting, service_queue, servicing>>
    BY <1>5, <1>6, <1>9 DEF TargetBeginReq
  <2>2. TargetTypeOK(Txns)'
    BY <1>2, <1>6, <2>1 DEF TargetTypeOK
  <2>3. Counted' /\ NoIdleSlot'
    BY <1>6, <1>7, <1>9, <2>1 DEF Counted, HasFreeSlot, NoIdleSlot, TargetTypeOK
  <2>4. OneUpstream'
    BY <1>5, <1>6, <2>1 DEF OneUpstream
  <2> QED
    BY <1>4, <1>5, <1>6, <2>2, <2>3, <2>4 DEF FabricInv, QueuesOK, OptOK
<1> QED BY <1>8, <1>9

(* A segment of arbitrate_requests keeps it, if the arbiter chooses a      *)
(* pending initiator.                                                      *)
LEMMA ArbitrateInv ==
  ASSUME FabricInv, NEW choice, Sound(choice), ArbitrateRequests(choice)
  PROVE  FabricInv'
<1>1. UNCHANGED <<opt, next_txn>>
  BY DEF ArbitrateRequests, issuers
<1>2. CASE downstream_pending \/ HasPending = {}
  <2>1. UNCHANGED <<target, downstream_pending, pending>> /\ sim' # "aborted"
    BY <1>2 DEF ArbitrateRequests, interconnect, Notify, CanRun
  <2>2. next_txn' \in [Initiators -> Nat] /\ pending' \in [Initiators -> Seq(Txns)]
    BY <1>1, <2>1 DEF FabricInv, QueuesOK
  <2> QED BY <1>1, <2>1, <2>2, ElsewhereInv
<1>3. CASE ~downstream_pending /\ HasPending # {}
  <2>1. choice.winner \in HasPending /\ choice.winner # None
    BY <1>3 DEF Sound, HasPending, Initiators, None
  <2>2. Grant(choice)
    BY <1>3, <2>1 DEF ArbitrateRequests
  <2> QED BY <1>1, <1>3, <2>1, <2>2, GrantInv
<1> QED BY <1>2, <1>3

(* A segment of the target's send_end_requests keeps it.                   *)
LEMMA SendEndRequestsInv ==
  ASSUME FabricInv, SendEndRequests
  PROVE  FabricInv'
<1>1. /\ UNCHANGED <<opt, next_txn, pending>> /\ sim' # "aborted"
      /\ TargetSendEndRequest /\ TargetTypeOK(Txns) /\ Txns' = Txns
      /\ UNCHANGED <<occupied_slots, waiting_accept_queue, servicing, backpressure>>
  BY DEF SendEndRequests, TargetSendEndRequest, issuers, CanRun, Notify, BackwardEndReq,
     FabricInv, QueuesOK, Txns
<1>2. /\ end_req_queue \in Seq(Txns) /\ accepting \in Seq(Txns)
      /\ service_queue \in Seq(Txns) /\ Len(accepting) <= 1
      /\ Len(waiting_accept_queue) \in Nat /\ Len(end_req_queue) \in Nat
      /\ Len(accepting) \in Nat /\ Len(service_queue) \in Nat /\ Len(servicing) \in Nat
  BY <1>1, LenProperties DEF TargetTypeOK
<1>3. service_queue' = service_queue \o accepting
  BY <1>1 DEF TargetSendEndRequest
<1>4. /\ service_queue' \in Seq(Txns)
      /\ Len(service_queue') = Len(service_queue) + Len(accepting)
  BY <1>2, <1>3
<1>5. /\ accepting' \in Seq(Txns) /\ end_req_queue' \in Seq(Txns)
      /\ Len(accepting') <= 1
      /\ Len(accepting') + Len(end_req_queue') = Len(end_req_queue)
  <2>1. CASE end_req_queue = <<>>
    BY <1>1, <1>2, <2>1 DEF TargetSendEndRequest, PopEndRequest
  <2>2. CASE end_req_queue # <<>>
    <3>1. /\ Head(end_req_queue) \in Txns /\ Tail(end_req_queue) \in Seq(Txns)
          /\ Len(Tail(end_req_queue)) = Len(end_req_queue) - 1
      BY <1>2, <2>2
    <3>2. accepting' = <<Head(end_req_queue)>> /\ end_req_queue' = Tail(end_req_queue)
      BY <1>1, <2>2 DEF TargetSendEndRequest, PopEndRequest
    <3> QED BY <1>2, <3>1, <3>2
  <2> QED BY <2>1, <2>2
<1>6. QueuesOK' /\ OptOK'
  <2>1. TargetTypeOK(Txns)'
    BY <1>1, <1>4, <1>5 DEF TargetTypeOK
  <2>2. downstream_pending' \in BOOLEAN
    BY DEF SendEndRequests, BackwardEndReq, FabricInv, QueuesOK
  <2> QED BY <1>1, <2>1, <2>2 DEF FabricInv, QueuesOK, OptOK
<1>7. Len(accepting') \in Nat /\ Len(end_req_queue') \in Nat
  BY <1>5, LenProperties
<1>8. Counted' /\ NoIdleSlot'
  BY <1>1, <1>2, <1>4, <1>5, <1>7 DEF FabricInv, Counted, NoIdleSlot
<1>9. OneUpstream'
  <2>1. CASE accepting = <<>>
    <3>1. UNCHANGED downstream_pending /\ Len(accepting) = 0
      BY <2>1 DEF SendEndRequests
    <3> QED BY <1>1, <1>2, <1>5, <1>7, <3>1 DEF FabricInv, OneUpstream
  <2>2. CASE accepting # <<>>
    <3>1. downstream_pending' = FALSE
      BY <2>2 DEF SendEndRequests, BackwardEndReq
    <3>2. Len(accepting) = 1
      BY <1>2, <2>2, AtMostOne
    <3> QED BY <1>1, <1>2, <1>5, <1>7, <3>1, <3>2 DEF FabricInv, OneUpstream
  <2> QED BY <2>1, <2>2
<1> QED BY <1>1, <1>6, <1>8, <1>9 DEF FabricInv

(* What a release admits is all there is to admit.                         *)
LEMMA AdmittedIsWaiting ==
  ASSUME FabricInv, servicing # <<>>
  PROVE  Admitted = waiting_accept_queue
<1>1. /\ waiting_accept_queue \in Seq(Txns) /\ Len(waiting_accept_queue) \in Nat
      /\ Len(end_req_queue) \in Nat /\ Len(accepting) \in Nat
      /\ occupied_slots \in Nat /\ opt.queue_depth \in Nat
      /\ occupied_slots <= opt.queue_depth
  BY LenProperties DEF FabricInv, QueuesOK, TargetTypeOK, OptOK, Counted
<1>2. Len(waiting_accept_queue) <= 1
  BY <1>1 DEF FabricInv, OneUpstream
<1>3. CASE waiting_accept_queue = <<>>
  BY <1>3 DEF Admitted
<1>4. CASE waiting_accept_queue # <<>>
  <2>1. Len(waiting_accept_queue) = 1
    BY <1>1, <1>2, <1>4, AtMostOne
  <2>2. CASE DrainAll
    <3>1. Admitted = SubSeq(waiting_accept_queue, 1, 1)
      BY <1>1, <1>4, <2>1, <2>2 DEF Admitted
    <3> QED BY <1>1, <2>1, <3>1
  <2>3. CASE ~DrainAll
    <3>1. Admitted = <<Head(waiting_accept_queue)>>
      BY <1>1, <1>4, <2>3 DEF Admitted
    <3> QED BY <1>1, <2>1, <3>1
  <2> QED BY <2>2, <2>3
<1> QED BY <1>3, <1>4

(* A segment of the target's service_requests keeps it.                    *)
LEMMA ServiceRequestsInv ==
  ASSUME FabricInv, ServiceRequests
  PROVE  FabricInv'
<1>1. /\ UNCHANGED <<opt, next_txn, pending, downstream_pending>>
      /\ TargetTypeOK(Txns) /\ Txns' = Txns
  BY DEF ServiceRequests, issuers, interconnect, FabricInv, QueuesOK, Txns
<1>2. /\ end_req_queue \in Seq(Txns) /\ service_queue \in Seq(Txns)
      /\ waiting_accept_queue \in Seq(Txns) /\ servicing \in Seq(Txns)
      /\ accepting \in Seq(Txns) /\ Len(servicing) <= 1
      /\ Len(waiting_accept_queue) \in Nat /\ Len(end_req_queue) \in Nat
      /\ Len(accepting) \in Nat /\ Len(service_queue) \in Nat /\ Len(servicing) \in Nat
      /\ occupied_slots \in Nat /\ opt.queue_depth \in Nat
  BY <1>1, LenProperties DEF TargetTypeOK, FabricInv, OptOK
<1>3. /\ occupied_slots = Len(servicing) + Len(service_queue)
                            + Len(accepting) + Len(end_req_queue)
      /\ occupied_slots <= opt.queue_depth
  BY DEF FabricInv, Counted
<1>4. ~OccupancyUnderflow
  BY <1>2, <1>3, EmptySeq DEF OccupancyUnderflow
<1>5. TargetServiceRequest /\ sim' # "aborted" /\ UNCHANGED accepting
  BY <1>4 DEF ServiceRequests, TargetServiceRequest, CanRun, Notify, BackwardBeginResp
<1>6. /\ servicing' \in Seq(Txns) /\ service_queue' \in Seq(Txns)
      /\ Len(servicing') <= 1
      /\ Len(servicing') + Len(service_queue') = Len(service_queue)
  <2>1. CASE service_queue = <<>>
    BY <1>2, <1>5, <2>1 DEF TargetServiceRequest, PopService
  <2>2. CASE service_queue # <<>>
    <3>1. /\ Head(service_queue) \in Txns /\ Tail(service_queue) \in Seq(Txns)
          /\ Len(Tail(service_queue)) = Len(service_queue) - 1
      BY <1>2, <2>2
    <3>2. servicing' = <<Head(service_queue)>> /\ service_queue' = Tail(service_queue)
      BY <1>5, <2>2 DEF TargetServiceRequest, PopService
    <3> QED BY <1>2, <3>1, <3>2
  <2> QED BY <2>1, <2>2
<1>7. Len(servicing') \in Nat /\ Len(service_queue') \in Nat
  BY <1>6, LenProperties
<1>8. CASE servicing = <<>>
  <2>1. UNCHANGED <<occupied_slots, waiting_accept_queue, end_req_queue, backpressure>>
    BY <1>5, <1>8 DEF TargetServiceRequest
  <2>2. TargetTypeOK(Txns)'
    BY <1>1, <1>5, <1>6, <2>1 DEF TargetTypeOK
  <2>3. Counted' /\ NoIdleSlot' /\ OneUpstream'
    BY <1>1, <1>2, <1>3, <1>5, <1>6, <1>7, <1>8, <2>1, EmptySeq
    DEF Counted, FabricInv, NoIdleSlot, OneUpstream
  <2> QED BY <1>1, <1>5, <2>2, <2>3 DEF FabricInv, QueuesOK, OptOK
<1>9. CASE servicing # <<>>
  <2>1. /\ Admitted = waiting_accept_queue /\ Len(servicing) = 1
    BY <1>2, <1>9, AdmittedIsWaiting, AtMostOne
  <2>2. /\ occupied_slots' = occupied_slots - 1 + Len(waiting_accept_queue)
        /\ waiting_accept_queue' = SubSeq(waiting_accept_queue,
                                          Len(waiting_accept_queue) + 1,
                                          Len(waiting_accept_queue))
        /\ end_req_queue' = end_req_queue \o waiting_accept_queue
        /\ backpressure' = backpressure \cup {waiting_accept_queue[j] :
                                                 j \in DOMAIN waiting_accept_queue}
    BY <1>5, <1>9, <2>1 DEF TargetServiceRequest, ReleaseSlot
  <2>3. waiting_accept_queue' = <<>>
    BY <1>2, <2>2
  <2>4. /\ end_req_queue' \in Seq(Txns)
        /\ Len(end_req_queue') = Len(end_req_queue) + Len(waiting_accept_queue)
    BY <1>2, <2>2
  <2>5. backpressure' \in SUBSET Txns
    <3>1. backpressure \in SUBSET Txns
      BY <1>1 DEF TargetTypeOK
    <3> QED BY <1>2, <2>2, <3>1
  <2>6. Len(waiting_accept_queue) <= 1 /\ occupied_slots' \in Nat
    <3>1. Len(waiting_accept_queue) + Len(end_req_queue) + Len(accepting) <= 1
      BY <1>2 DEF FabricInv, OneUpstream
    <3>2. occupied_slots >= 1
      BY <1>2, <1>3, <2>1
    <3> QED BY <1>2, <2>2, <3>1, <3>2
  <2>7. TargetTypeOK(Txns)'
    BY <1>1, <1>2, <1>5, <1>6, <2>3, <2>4, <2>5, <2>6 DEF TargetTypeOK
  <2>8. Counted'
    <3>1. occupied_slots' = occupied_slots - 1 + Len(waiting_accept_queue)
      BY <2>2
    <3>2. /\ opt' = opt /\ Len(accepting') = Len(accepting)
          /\ Len(end_req_queue') = Len(end_req_queue) + Len(waiting_accept_queue)
          /\ Len(servicing') + Len(service_queue') = Len(service_queue)
          /\ Len(servicing') \in Nat /\ Len(service_queue') \in Nat
      BY <1>1, <1>5, <1>6, <1>7, <2>4
    <3>3. occupied_slots' <= opt.queue_depth
      BY <1>2, <1>3, <2>6, <3>1
    <3>4. occupied_slots' = Len(servicing') + Len(service_queue')
                              + Len(accepting') + Len(end_req_queue')
      <4>1. occupied_slots = 1 + Len(service_queue) + Len(accepting)
                               + Len(end_req_queue)
        BY <1>3, <2>1
      <4>2. occupied_slots' = Len(service_queue) + Len(accepting) + Len(end_req_queue)
                                + Len(waiting_accept_queue)
        BY <1>2, <3>1, <4>1
      <4>3. Len(servicing') + Len(service_queue') + Len(accepting') + Len(end_req_queue')
              = Len(service_queue) + Len(accepting)
                  + (Len(end_req_queue) + Len(waiting_accept_queue))
        BY <3>2
      <4>4. Len(service_queue) + Len(accepting)
              + (Len(end_req_queue) + Len(waiting_accept_queue))
              = Len(service_queue) + Len(accepting) + Len(end_req_queue)
                  + Len(waiting_accept_queue)
        BY <1>2
      <4> QED BY <4>2, <4>3, <4>4
    <3> QED BY <3>2, <3>3, <3>4 DEF Counted
  <2>9. NoIdleSlot' /\ OneUpstream'
    BY <1>1, <1>2, <1>5, <2>3, <2>4 DEF FabricInv, NoIdleSlot, OneUpstream
  <2> QED BY <1>1, <1>5, <2>7, <2>8, <2>9 DEF FabricInv, QueuesOK, OptOK
<1> QED BY <1>8, <1>9

-----------------------------------------------------------------------------
(* The history both programs keep of the grants an initiator waits through. *)
PassedOK == passed \in [Initiators -> [Initiators -> Nat]]

(* The requests initiator j has issued.                                    *)
Issued(j) ==
  IF next_txn[j] = 0 THEN 0
  ELSE IF next_txn[j] <= opt.num_transactions THEN next_txn[j] - 1
  ELSE opt.num_transactions

(* passed[i] counts from the moment i has something pending.               *)
CountsWhileWaiting ==
  \A i, j \in Initiators : pending[i] = <<>> => passed[i][j] = 0

(* An issued request keeps the counts of the grants that passed it.        *)
LEMMA IssueCounts ==
  ASSUME FabricInv, PassedOK, CountsWhileWaiting,
         NEW i \in Initiators, NEW gap, IssueRequests(i, gap)
  PROVE  PassedOK' /\ CountsWhileWaiting'
<1>1. /\ passed' = passed /\ next_txn \in [Initiators -> Nat]
      /\ pending \in [Initiators -> Seq(Txns)] /\ opt.num_transactions \in Nat
  BY DEF IssueRequests, FabricInv, QueuesOK, OptOK
<1>2. CASE next_txn[i] # 0 /\ next_txn[i] <= opt.num_transactions
  <2> DEFINE t == <<i, next_txn[i]>>
  <2>1. pending' = [pending EXCEPT ![i] = Append(pending[i], t)]
    BY <1>2 DEF IssueRequests, BeginRequest
  <2>2. t \in Txns
    BY <1>1, <1>2 DEF Txns
  <2> HIDE DEF t
  <2>3. Append(pending[i], t) # <<>>
    BY <1>1, <2>2, AppendProperties
  <2>4. \A j \in Initiators : pending'[j] = <<>> => pending[j] = <<>>
    BY <1>1, <2>1, <2>3
  <2> QED BY <1>1, <2>4 DEF PassedOK, CountsWhileWaiting
<1>3. CASE ~(next_txn[i] # 0 /\ next_txn[i] <= opt.num_transactions)
  <2>1. pending' = pending
    BY <1>1, <1>3 DEF IssueRequests, FinishIssuing
  <2> QED BY <1>1, <2>1 DEF PassedOK, CountsWhileWaiting
<1> QED BY <1>2, <1>3

(* A grant to w starts the count of w anew and counts once for every other *)
(* initiator that waits.                                                   *)
LEMMA GrantCounts ==
  ASSUME FabricInv, PassedOK, CountsWhileWaiting, NEW choice, NEW w \in HasPending,
         w = choice.winner, Grant(choice)
  PROVE  /\ PassedOK' /\ CountsWhileWaiting'
         /\ \A j \in Initiators : j # w => pending'[j] = pending[j]
         /\ pending[w] \in Seq(Txns) /\ pending[w] # <<>>
         /\ Len(pending'[w]) = Len(pending[w]) - 1 /\ Len(pending'[w]) \in Nat
         /\ \A i \in Initiators :
              \/ \A j \in Initiators : passed'[i][j] = 0
              \/ /\ i \in HasPending /\ i # w
                 /\ passed'[i][w] = passed[i][w] + 1
                 /\ \A j \in Initiators : j # w => passed'[i][j] = passed[i][j]
<1>1. /\ w \in Initiators /\ pending \in [Initiators -> Seq(Txns)] /\ pending[w] # <<>>
      /\ pending[w] \in Seq(Txns)
      /\ passed \in [Initiators -> [Initiators -> Nat]]
  BY DEF HasPending, PassedOK, FabricInv, QueuesOK
<1>2. pending' = [pending EXCEPT ![w] = Tail(pending[w])] /\ CountPassed(w)
  BY DEF Grant
<1>3. \A j \in Initiators : passed'[w][j] = 0
  BY <1>1, <1>2 DEF CountPassed
<1>4. \A i \in Initiators : (i # w /\ pending[i] = <<>>) => passed'[i] = passed[i]
  BY <1>1, <1>2 DEF CountPassed
<1>5. \A i \in Initiators : (i # w /\ pending[i] # <<>>) =>
        /\ passed'[i][w] = passed[i][w] + 1
        /\ \A j \in Initiators : j # w => passed'[i][j] = passed[i][j]
  BY <1>1, <1>2 DEF CountPassed
<1>6. passed' \in [Initiators -> [Initiators -> Nat]]
  <2> DEFINE counts(i) == IF i = w THEN [j \in Initiators |-> 0]
                          ELSE IF pending[i] = <<>> THEN passed[i]
                          ELSE [passed[i] EXCEPT ![w] = passed[i][w] + 1]
  <2>1. passed' = [i \in Initiators |-> counts(i)]
    BY <1>2 DEF CountPassed
  <2>2. ASSUME NEW i \in Initiators PROVE counts(i) \in [Initiators -> Nat]
    <3>1. passed[i] \in [Initiators -> Nat]
      BY <1>1
    <3>2. passed[i][w] \in Nat
      BY <1>1, <3>1
    <3> QED BY <1>1, <3>1, <3>2
  <2> HIDE DEF counts
  <2> QED BY <2>1, <2>2
<1>7. /\ \A j \in Initiators : j # w => pending'[j] = pending[j]
      /\ Len(pending'[w]) = Len(pending[w]) - 1 /\ Len(pending'[w]) \in Nat
  <2>1. pending'[w] = Tail(pending[w])
    BY <1>1, <1>2
  <2>2. Len(Tail(pending[w])) = Len(pending[w]) - 1 /\ Len(Tail(pending[w])) \in Nat
    BY <1>1, LenProperties
  <2> QED BY <1>1, <1>2, <2>1, <2>2
<1>8. CountsWhileWaiting'
  <2> SUFFICES ASSUME NEW i \in Initiators, NEW j \in Initiators, pending'[i] = <<>>
               PROVE  passed'[i][j] = 0
    BY DEF CountsWhileWaiting
  <2>1. CASE i = w
    BY <1>3, <2>1
  <2>2. CASE i # w
    <3>1. pending[i] = <<>> /\ passed'[i] = passed[i]
      BY <1>4, <1>7, <2>2
    <3> QED BY <3>1 DEF CountsWhileWaiting
  <2> QED BY <2>1, <2>2
<1>9. ASSUME NEW i \in Initiators
      PROVE  \/ \A j \in Initiators : passed'[i][j] = 0
             \/ /\ i \in HasPending /\ i # w
                /\ passed'[i][w] = passed[i][w] + 1
                /\ \A j \in Initiators : j # w => passed'[i][j] = passed[i][j]
  <2>1. CASE i = w
    BY <1>3, <2>1
  <2>2. CASE i # w /\ pending[i] = <<>>
    BY <1>4, <2>2 DEF CountsWhileWaiting
  <2>3. CASE i # w /\ pending[i] # <<>>
    BY <1>5, <2>3 DEF HasPending
  <2> QED BY <2>1, <2>2, <2>3
<1> QED BY <1>1, <1>6, <1>7, <1>8, <1>9 DEF PassedOK
-----------------------------------------------------------------------------
(***************************************************************************)
(* Wakeups.                                                                *)
(***************************************************************************)

(* What the steps below take the waiting threads and their work from.      *)
WorkOK ==
  /\ waits \in [Threads -> Events \cup NotEvents]
  /\ response_queue \in [Initiators -> Seq(Txns)]
  /\ done \in [Initiators -> BOOLEAN]

(* A thread that waits for its event, has work and is not notified.        *)
Missed(p, event, work) == waits[p] = event /\ work /\ event \notin notified

AcceptAwake  == ~Missed("target.send_end_requests", "target.end_req_event",
                        end_req_queue # <<>>)
ServeAwake   == ~Missed("target.service_requests", "target.service_event",
                        service_queue # <<>>)
ArbiterAwake == ~Missed("interconnect.arbitrate_requests", "interconnect.arbiter_event",
                        ~downstream_pending /\ HasPending # {})
RespAwake(i) == ~Missed(RespThread(i), ResponseEvent(i), response_queue[i] # <<>>)
TopAwake(i)  == ~Missed("top.stop_when_done", DoneEvent(i), done[i])

AllAwake ==
  /\ AcceptAwake /\ ServeAwake /\ ArbiterAwake
  /\ \A i \in Initiators : RespAwake(i) /\ TopAwake(i)

(* The inductive invariant: every wakeup is delivered or on its way.       *)
WakeupInv == FabricInv /\ WorkOK /\ AllAwake

(* WakeupInv says of every thread what NoLostWakeup says.                  *)
LEMMA WakeupFollows ==
  ASSUME WakeupInv
  PROVE  NoLostWakeup
BY DEF WakeupInv, AllAwake, AcceptAwake, ServeAwake, ArbiterAwake, RespAwake, TopAwake,
   Missed, NoLostWakeup, NoLostWakeupInTarget

(* Every thread and every event has a name of its own.                     *)
LEMMA ThreadNames ==
  ASSUME NEW i \in Initiators
  PROVE  /\ IssueThread(i) \in Threads /\ RespThread(i) \in Threads
         /\ {"target.send_end_requests", "target.service_requests",
             "interconnect.arbitrate_requests", "top.stop_when_done"} \subseteq Threads
         /\ {IssueThread(i), RespThread(i)}
              \cap {"target.send_end_requests", "target.service_requests",
                    "interconnect.arbitrate_requests", "top.stop_when_done"} = {}
         /\ \A j \in Initiators :
              IssueThread(i) # RespThread(j) /\ (i # j => RespThread(i) # RespThread(j))
<1>1. /\ IssueThread(0) = "cpu0.issue_requests" /\ IssueThread(1) = "dma0.issue_requests"
      /\ IssueThread(2) = "accel0.issue_requests"
      /\ RespThread(0) = "cpu0.send_end_responses"
      /\ RespThread(1) = "dma0.send_end_responses"
      /\ RespThread(2) = "accel0.send_end_responses"
  BY DEF IssueThread, RespThread
<1>2. \A j \in Initiators : j = 0 \/ j = 1 \/ j = 2
  BY DEF Initiators
<1>3. /\ IssueThread(i) \in Threads /\ RespThread(i) \in Threads
      /\ {"target.send_end_requests", "target.service_requests",
          "interconnect.arbitrate_requests", "top.stop_when_done"} \subseteq Threads
  BY DEF Threads, TargetThreads
<1>4. CASE i = 0
  BY <1>1, <1>2, <1>3, <1>4
<1>5. CASE i = 1
  BY <1>1, <1>2, <1>3, <1>5
<1>6. CASE i = 2
  BY <1>1, <1>2, <1>3, <1>6
<1> QED BY <1>2, <1>4, <1>5, <1>6

(* The events of the threads are told apart, and are none of the other     *)
(* things a thread waits for.                                              *)
LEMMA EventNames ==
  ASSUME NEW i \in Initiators
  PROVE  /\ {"target.end_req_event", "target.service_event",
             "interconnect.arbiter_event"} \subseteq Events
         /\ ResponseEvent(i) \in Events /\ DoneEvent(i) \in Events
         /\ ResponseEvent(i) \notin NotEvents /\ DoneEvent(i) \notin NotEvents
         /\ \A j \in Initiators : i # j => DoneEvent(i) # DoneEvent(j)
<1>1. /\ ResponseEvent(0) = "cpu0.response_event" /\ ResponseEvent(1) = "dma0.response_event"
      /\ ResponseEvent(2) = "accel0.response_event"
      /\ DoneEvent(0) = "cpu0.done_event" /\ DoneEvent(1) = "dma0.done_event"
      /\ DoneEvent(2) = "accel0.done_event"
  BY DEF ResponseEvent, DoneEvent
<1>2. \A j \in Initiators : j = 0 \/ j = 1 \/ j = 2
  BY DEF Initiators
<1>3. /\ {"target.end_req_event", "target.service_event",
          "interconnect.arbiter_event"} \subseteq Events
      /\ ResponseEvent(i) \in Events /\ DoneEvent(i) \in Events
  BY DEF Events, TargetEvents
<1>4. CASE i = 0
  BY <1>1, <1>2, <1>3, <1>4 DEF NotEvents
<1>5. CASE i = 1
  BY <1>1, <1>2, <1>3, <1>5 DEF NotEvents
<1>6. CASE i = 2
  BY <1>1, <1>2, <1>3, <1>6 DEF NotEvents
<1> QED BY <1>2, <1>4, <1>5, <1>6

(* The segment of thread p ends in wait w and notifies events: every other *)
(* thread waits for what it waited for, and no notification is taken back. *)
Segment(p, w, events) ==
  /\ waits' = [waits EXCEPT ![p] = w]
  /\ notified' = notified \cup events

(* A segment changes what its own thread waits for, and only adds          *)
(* notifications.                                                          *)
LEMMA SegmentFacts ==
  ASSUME WorkOK, NEW p \in Threads, NEW w \in Events \cup NotEvents, NEW events,
         Segment(p, w, events)
  PROVE  /\ waits' \in [Threads -> Events \cup NotEvents]
         /\ waits'[p] = w
         /\ \A q \in Threads : q # p => waits'[q] = waits[q]
         /\ notified \subseteq notified' /\ events \subseteq notified'
BY DEF WorkOK, Segment

(* At first every thread is ready.                                         *)
LEMMA InitWakeup ==
  ASSUME OptOK, Init
  PROVE  WakeupInv
<1>1. FabricInv
  BY InitFabric
<1>2. /\ waits = [p \in Threads |-> "ready"]
      /\ response_queue = [i \in Initiators |-> <<>>]
      /\ done = [i \in Initiators |-> FALSE]
  BY DEF Init, Elaborate, ElaborateWith
<1>3. WorkOK
  <2>1. <<>> \in Seq(Txns)
    OBVIOUS
  <2> QED BY <1>2, <2>1 DEF WorkOK, NotEvents
<1>4. AllAwake
  <2>1. end_req_queue = <<>> /\ service_queue = <<>> /\ pending = [i \in Initiators |-> <<>>]
    BY DEF Init, TargetInit
  <2>2. HasPending = {}
    BY <2>1 DEF HasPending
  <2> QED
    BY <1>2, <2>1, <2>2
    DEF AllAwake, AcceptAwake, ServeAwake, ArbiterAwake, RespAwake, TopAwake, Missed
<1> QED BY <1>1, <1>3, <1>4 DEF WakeupInv

(* A delta cycle wakes whoever is notified, and time passes only when      *)
(* nobody is.                                                              *)
LEMMA SchedulerWakeup ==
  ASSUME WakeupInv, FabricInv', Scheduler
  PROVE  WakeupInv'
<1>1. /\ UNCHANGED <<opt, end_req_queue, service_queue, downstream_pending, pending,
                     response_queue, done>>
      /\ Txns' = Txns /\ HasPending' = HasPending
  BY DEF Scheduler, target, issuers, responders, interconnect, Txns, HasPending
<1>2. WorkOK'
  <2>1. waits' \in [Threads -> Events \cup NotEvents]
    <3>1. CASE DeltaCycle
      BY <3>1 DEF DeltaCycle, WakeupInv, WorkOK, NotEvents
    <3>2. CASE AdvanceTime
      BY <3>2 DEF AdvanceTime, WakeupInv, WorkOK
    <3> QED BY <3>1, <3>2 DEF Scheduler
  <2> QED BY <1>1, <2>1 DEF WakeupInv, WorkOK
<1>3. ASSUME NEW p \in Threads, NEW e \in Events, e \notin NotEvents, waits'[p] = e
      PROVE  waits[p] = e /\ (e \in notified => e \in notified')
  <2>1. CASE DeltaCycle
    <3>1. p \in DOMAIN waits /\ waits' = [q \in DOMAIN waits |->
                                             IF q \in Woken THEN "ready" ELSE waits[q]]
      BY <2>1 DEF DeltaCycle, WakeupInv, WorkOK
    <3>2. p \notin Woken /\ waits[p] = e
      BY <1>3, <3>1 DEF NotEvents
    <3> QED BY <3>1, <3>2 DEF Woken
  <2>2. CASE AdvanceTime
    BY <1>3, <2>2 DEF AdvanceTime
  <2> QED BY <2>1, <2>2 DEF Scheduler
<1>4. AcceptAwake' /\ ServeAwake' /\ ArbiterAwake'
  <2>1. /\ {"target.send_end_requests", "target.service_requests",
            "interconnect.arbitrate_requests"} \subseteq Threads
        /\ {"target.end_req_event", "target.service_event",
            "interconnect.arbiter_event"} \subseteq Events
        /\ {"target.end_req_event", "target.service_event",
            "interconnect.arbiter_event"} \cap NotEvents = {}
    BY DEF Threads, TargetThreads, Events, TargetEvents, NotEvents
  <2> QED
    BY <1>1, <1>3, <2>1
    DEF WakeupInv, AllAwake, AcceptAwake, ServeAwake, ArbiterAwake, Missed
<1>5. ASSUME NEW i \in Initiators PROVE RespAwake(i)' /\ TopAwake(i)'
  BY <1>1, <1>3, ThreadNames, EventNames DEF WakeupInv, AllAwake, RespAwake, TopAwake, Missed
<1> QED BY <1>2, <1>4, <1>5 DEF WakeupInv, AllAwake

(* done_ rises only together with the event of its initiator.              *)
LEMMA DoneNotified ==
  ASSUME WorkOK, NEW i \in Initiators, NEW issued, NEW completed,
         MarkDone(i, issued, completed)
  PROVE  /\ done' \in [Initiators -> BOOLEAN]
         /\ \A j \in Initiators :
              (done'[j] /\ ~done[j]) => DoneEvent(j) \in DoneEvents(i, issued, completed)
<1>1. done' = [done EXCEPT ![i] = done[i] \/ DoneNow(i, issued, completed)]
  BY DEF MarkDone
<1>2. (done[i] \/ DoneNow(i, issued, completed)) \in BOOLEAN
  BY DEF WorkOK, DoneNow
<1>3. done' \in [Initiators -> BOOLEAN]
  BY <1>1, <1>2 DEF WorkOK
<1>4. ASSUME NEW j \in Initiators, done'[j], ~done[j]
      PROVE  DoneEvent(j) \in DoneEvents(i, issued, completed)
  BY <1>1, <1>4 DEF WorkOK, DoneEvents
<1> QED BY <1>3, <1>4

(* A segment of issue_requests loses no wakeup.                            *)
LEMMA IssueWakeup ==
  ASSUME WakeupInv, FabricInv', NEW i \in Initiators, NEW gap, IssueRequests(i, gap)
  PROVE  WakeupInv'
<1> DEFINE k == next_txn[i]
<1>1. /\ UNCHANGED <<opt, end_req_queue, service_queue, downstream_pending, response_queue>>
      /\ Txns' = Txns
  BY DEF IssueRequests, target, responders, Txns
<1>2. PICK w \in Events \cup NotEvents, E \in SUBSET Events :
        /\ Segment(IssueThread(i), w, E)
        /\ done' \in [Initiators -> BOOLEAN]
        /\ \A j \in Initiators : (done'[j] /\ ~done[j]) => DoneEvent(j) \in E
        /\ pending' # pending => "interconnect.arbiter_event" \in E
  <2>1. CASE k = 0
    <3>1. /\ Segment(IssueThread(i), "timed", {})
          /\ UNCHANGED <<done, pending>>
      BY <2>1 DEF IssueRequests, WaitTime, Notify, Segment
    <3>2. {} \in SUBSET Events /\ "timed" \in Events \cup NotEvents
      BY DEF NotEvents
    <3> QED BY <3>1, <3>2 DEF WakeupInv, WorkOK
  <2>2. CASE k # 0 /\ k <= opt.num_transactions
    <3>1. /\ Segment(IssueThread(i), "timed", {"interconnect.arbiter_event"})
          /\ UNCHANGED done
      BY <2>2 DEF IssueRequests, BeginRequest, WaitTime, Notify, Segment
    <3>2. {"interconnect.arbiter_event"} \in SUBSET Events
      BY EventNames
    <3> QED BY <3>1, <3>2 DEF NotEvents, WakeupInv, WorkOK
  <2>3. CASE k # 0 /\ ~(k <= opt.num_transactions)
    <3> DEFINE E == DoneEvents(i, TRUE, completed_responses[i])
    <3>1. /\ Segment(IssueThread(i), "ended", E) /\ UNCHANGED pending
          /\ MarkDone(i, TRUE, completed_responses[i])
      BY <2>3 DEF IssueRequests, FinishIssuing, EndThread, Notify, Segment
    <3>2. E \in SUBSET Events
      BY EventNames DEF DoneEvents
    <3> QED BY <3>1, <3>2, DoneNotified DEF NotEvents, WakeupInv
  <2> QED BY <2>1, <2>2, <2>3
<1>3. /\ waits' \in [Threads -> Events \cup NotEvents]
      /\ \A q \in Threads : q # IssueThread(i) => waits'[q] = waits[q]
      /\ notified \subseteq notified' /\ E \subseteq notified'
  BY <1>2, SegmentFacts, ThreadNames DEF WakeupInv
<1>4. WorkOK'
  BY <1>1, <1>2, <1>3 DEF WakeupInv, WorkOK
<1>5. AcceptAwake' /\ ServeAwake'
  BY <1>1, <1>3, ThreadNames DEF WakeupInv, AllAwake, AcceptAwake, ServeAwake, Missed
<1>6. ArbiterAwake'
  <2>1. pending' = pending => HasPending' = HasPending
    BY DEF HasPending
  <2> QED
    BY <1>1, <1>2, <1>3, <2>1, ThreadNames DEF WakeupInv, AllAwake, ArbiterAwake, Missed
<1>7. ASSUME NEW j \in Initiators PROVE RespAwake(j)' /\ TopAwake(j)'
  <2>1. IssueThread(i) # RespThread(j) /\ IssueThread(i) # "top.stop_when_done"
    BY ThreadNames
  <2> QED
    BY <1>1, <1>2, <1>3, <2>1, ThreadNames
    DEF WakeupInv, AllAwake, RespAwake, TopAwake, Missed
<1> QED BY <1>4, <1>5, <1>6, <1>7 DEF WakeupInv, AllAwake

(* A segment of send_end_responses loses no wakeup.                        *)
LEMMA ResponseWakeup ==
  ASSUME WakeupInv, FabricInv', NEW i \in Initiators, SendEndResponses(i)
  PROVE  WakeupInv'
<1>1. /\ UNCHANGED <<opt, end_req_queue, service_queue, downstream_pending, pending>>
      /\ Txns' = Txns /\ HasPending' = HasPending
  BY DEF SendEndResponses, target, interconnect, Txns, HasPending
<1>2. PICK E \in SUBSET Events :
        /\ notified' = notified \cup E
        /\ done' \in [Initiators -> BOOLEAN]
        /\ \A j \in Initiators : (done'[j] /\ ~done[j]) => DoneEvent(j) \in E
  <2>1. CASE responding[i] = <<>>
    <3>1. notified' = notified \cup {} /\ UNCHANGED done
      BY <2>1 DEF SendEndResponses, Notify
    <3>2. {} \in SUBSET Events
      OBVIOUS
    <3> QED BY <3>1, <3>2 DEF WakeupInv, WorkOK
  <2>2. CASE responding[i] # <<>>
    <3> DEFINE completed == completed_responses[i] + 1
               E == DoneEvents(i, issued_all[i], completed)
    <3>1. notified' = notified \cup E /\ MarkDone(i, issued_all[i], completed)
      BY <2>2 DEF SendEndResponses, EndResponse, Notify
    <3>2. E \in SUBSET Events
      BY EventNames DEF DoneEvents
    <3> QED BY <3>1, <3>2, DoneNotified DEF WakeupInv
  <2> QED BY <2>1, <2>2
<1>3. PICK w \in Events \cup NotEvents :
        /\ waits' = [waits EXCEPT ![RespThread(i)] = w]
        /\ response_queue' \in [Initiators -> Seq(Txns)]
        /\ \A j \in Initiators : j # i => response_queue'[j] = response_queue[j]
        /\ w = ResponseEvent(i) => response_queue'[i] = <<>>
  <2>1. response_queue \in [Initiators -> Seq(Txns)]
    BY DEF WakeupInv, WorkOK
  <2>2. CASE response_queue[i] # <<>>
    <3>1. /\ waits' = [waits EXCEPT ![RespThread(i)] = "timed"]
          /\ response_queue' = [response_queue EXCEPT ![i] = Tail(response_queue[i])]
      BY <2>2 DEF SendEndResponses, PopResponse, WaitTime
    <3>2. Tail(response_queue[i]) \in Seq(Txns)
      BY <2>1, <2>2
    <3> QED BY <2>1, <3>1, <3>2, EventNames DEF NotEvents
  <2>3. CASE response_queue[i] = <<>>
    <3>1. /\ waits' = [waits EXCEPT ![RespThread(i)] = ResponseEvent(i)]
          /\ response_queue' = response_queue
      BY <2>3 DEF SendEndResponses, PopResponse, WaitEvent
    <3> QED BY <2>1, <2>3, <3>1, EventNames
  <2> QED BY <2>2, <2>3
<1>4. /\ waits' \in [Threads -> Events \cup NotEvents] /\ waits'[RespThread(i)] = w
      /\ \A q \in Threads : q # RespThread(i) => waits'[q] = waits[q]
      /\ notified \subseteq notified' /\ E \subseteq notified'
  BY <1>2, <1>3, SegmentFacts, ThreadNames DEF WakeupInv, Segment
<1>5. WorkOK'
  BY <1>1, <1>2, <1>3, <1>4 DEF WorkOK
<1>6. AcceptAwake' /\ ServeAwake' /\ ArbiterAwake'
  BY <1>1, <1>4, ThreadNames
  DEF WakeupInv, AllAwake, AcceptAwake, ServeAwake, ArbiterAwake, Missed
<1>7. ASSUME NEW j \in Initiators PROVE RespAwake(j)' /\ TopAwake(j)'
  <2>1. TopAwake(j)'
    BY <1>2, <1>4, ThreadNames DEF WakeupInv, AllAwake, TopAwake, Missed
  <2>2. CASE j = i
    BY <1>3, <1>4, <2>1, <2>2 DEF RespAwake, Missed
  <2>3. CASE j # i
    <3>1. RespThread(j) \in Threads /\ RespThread(j) # RespThread(i)
      BY <2>3, ThreadNames
    <3> QED
      BY <1>3, <1>4, <2>1, <2>3, <3>1 DEF WakeupInv, AllAwake, RespAwake, Missed
  <2> QED BY <2>2, <2>3
<1> QED BY <1>5, <1>6, <1>7 DEF WakeupInv, AllAwake

(* Top waits for the first initiator that is not done.                     *)
LEMMA StopWakeup ==
  ASSUME WakeupInv, FabricInv', StopWhenDone
  PROVE  WakeupInv'
<1> DEFINE undone == {i \in Initiators : ~done[i]}
           least == CHOOSE i \in undone : \A j \in undone : i <= j
<1>1. /\ UNCHANGED <<opt, end_req_queue, service_queue, downstream_pending, pending,
                     response_queue, done>>
      /\ Txns' = Txns /\ HasPending' = HasPending
  BY DEF StopWhenDone, target, issuers, responders, interconnect, Txns, HasPending
<1>2. PICK w \in Events \cup NotEvents :
        /\ Segment("top.stop_when_done", w, {})
        /\ \A i \in Initiators : w = DoneEvent(i) => ~done[i]
  <2>1. CASE undone = {}
    <3>1. Segment("top.stop_when_done", "ended", {})
      BY <2>1 DEF StopWhenDone, EndThread, StopAndNotify, Segment
    <3> QED BY <3>1, EventNames DEF NotEvents
  <2>2. CASE undone # {}
    <3>1. least \in undone
      <4>1. \E i \in undone : \A j \in undone : i <= j
        <5>1. PICK x \in undone : TRUE
          BY <2>2
        <5>2. undone \subseteq 0..2
          BY DEF Initiators
        <5> HIDE DEF undone
        <5> QED BY <5>1, <5>2
      <4> HIDE DEF undone
      <4> QED BY <4>1
    <3>2. Segment("top.stop_when_done", DoneEvent(least), {})
      BY <2>2 DEF StopWhenDone, WaitEvent, Notify, Segment
    <3> HIDE DEF least
    <3>3. least \in Initiators /\ ~done[least]
      BY <3>1
    <3> QED BY <3>2, <3>3, EventNames
  <2> QED BY <2>1, <2>2
<1>3. /\ waits' \in [Threads -> Events \cup NotEvents] /\ waits'["top.stop_when_done"] = w
      /\ \A q \in Threads : q # "top.stop_when_done" => waits'[q] = waits[q]
      /\ notified \subseteq notified'
  <2>1. "top.stop_when_done" \in Threads
    BY DEF Threads
  <2> QED BY <1>2, <2>1, SegmentFacts DEF WakeupInv
<1>4. WorkOK'
  BY <1>1, <1>3 DEF WakeupInv, WorkOK
<1>5. AcceptAwake' /\ ServeAwake' /\ ArbiterAwake'
  <2>1. {"target.send_end_requests", "target.service_requests",
         "interconnect.arbitrate_requests"} \subseteq Threads
    BY DEF Threads, TargetThreads
  <2> QED
    BY <1>1, <1>3, <2>1
    DEF WakeupInv, AllAwake, AcceptAwake, ServeAwake, ArbiterAwake, Missed
<1>6. ASSUME NEW j \in Initiators PROVE RespAwake(j)' /\ TopAwake(j)'
  BY <1>1, <1>2, <1>3, ThreadNames DEF WakeupInv, AllAwake, RespAwake, TopAwake, Missed
<1> QED BY <1>4, <1>5, <1>6 DEF WakeupInv, AllAwake

(* The arbiter waits with the link taken or with nothing to grant.         *)
LEMMA ArbitrateWakeup ==
  ASSUME WakeupInv, FabricInv', NEW choice, ArbitrateRequests(choice)
  PROVE  WakeupInv'
<1>1. /\ UNCHANGED <<opt, service_queue, response_queue, done>>
      /\ Txns' = Txns
  BY DEF ArbitrateRequests, Grant, TargetBeginReq, target, issuers, responders, Txns
<1>2. PICK E \in SUBSET Events :
        /\ Segment("interconnect.arbitrate_requests", "interconnect.arbiter_event", E)
        /\ downstream_pending' \/ HasPending' = {}
        /\ end_req_queue' # end_req_queue => "target.end_req_event" \in E
  <2>1. CASE downstream_pending \/ HasPending = {}
    <3>1. /\ Segment("interconnect.arbitrate_requests", "interconnect.arbiter_event", {})
          /\ UNCHANGED <<pending, downstream_pending, end_req_queue>>
      BY <2>1 DEF ArbitrateRequests, Notify, WaitEvent, Segment, interconnect, target
    <3> QED BY <2>1, <3>1 DEF HasPending
  <2>2. CASE ~(downstream_pending \/ HasPending = {})
    <3>1. choice.winner # None
      BY <2>2 DEF ArbitrateRequests, Abort, FabricInv
    <3>2. /\ Grant(choice)
          /\ Segment("interconnect.arbitrate_requests", "interconnect.arbiter_event",
                     TargetBeginReqEvents)
      BY <2>2, <3>1 DEF ArbitrateRequests, Grant, Notify, WaitEvent, Segment
    <3>3. /\ downstream_pending' = TRUE /\ TargetBeginReqEvents \in SUBSET Events
          /\ end_req_queue' # end_req_queue => "target.end_req_event" \in TargetBeginReqEvents
      BY <3>2, EventNames DEF Grant, TargetBeginReq, TargetBeginReqEvents, Events, TargetEvents
    <3> QED BY <3>2, <3>3
  <2> QED BY <2>1, <2>2
<1>3. /\ waits' \in [Threads -> Events \cup NotEvents]
      /\ \A q \in Threads : q # "interconnect.arbitrate_requests" => waits'[q] = waits[q]
      /\ notified \subseteq notified' /\ E \subseteq notified'
  <2>1. /\ "interconnect.arbitrate_requests" \in Threads
        /\ "interconnect.arbiter_event" \in Events
    BY DEF Threads, Events
  <2> QED BY <1>2, <2>1, SegmentFacts DEF WakeupInv
<1>4. WorkOK'
  BY <1>1, <1>3 DEF WakeupInv, WorkOK
<1>5. AcceptAwake' /\ ServeAwake' /\ ArbiterAwake'
  <2>1. {"target.send_end_requests", "target.service_requests"} \subseteq Threads
    BY DEF Threads, TargetThreads
  <2> QED
    BY <1>1, <1>2, <1>3, <2>1
    DEF WakeupInv, AllAwake, AcceptAwake, ServeAwake, ArbiterAwake, Missed
<1>6. ASSUME NEW j \in Initiators PROVE RespAwake(j)' /\ TopAwake(j)'
  BY <1>1, <1>3, ThreadNames DEF WakeupInv, AllAwake, RespAwake, TopAwake, Missed
<1> QED BY <1>4, <1>5, <1>6 DEF WakeupInv, AllAwake

(* END_REQ fills the service queue and frees the link, and wakes both who  *)
(* wait for that.                                                          *)
LEMMA EndRequestWakeup ==
  ASSUME WakeupInv, FabricInv', SendEndRequests
  PROVE  WakeupInv'
<1>1. /\ UNCHANGED <<opt, pending, response_queue, done>>
      /\ Txns' = Txns /\ HasPending' = HasPending
  BY DEF SendEndRequests, issuers, responders, Txns, HasPending
<1>2. PICK E \in SUBSET Events :
        /\ notified' = notified \cup E
        /\ downstream_pending' # downstream_pending => "interconnect.arbiter_event" \in E
        /\ service_queue' # service_queue => "target.service_event" \in E
  <2>1. CASE accepting = <<>>
    <3>1. notified' = notified \cup {} /\ UNCHANGED downstream_pending
      BY <2>1 DEF SendEndRequests, Notify
    <3>2. service_queue' = service_queue
      <4>1. service_queue' = service_queue \o <<>> /\ service_queue \in Seq(Txns)
        BY <2>1 DEF SendEndRequests, TargetSendEndRequest, WakeupInv, FabricInv, QueuesOK,
                    TargetTypeOK
      <4> QED BY <4>1
    <3>3. {} \in SUBSET Events
      OBVIOUS
    <3> QED BY <3>1, <3>2, <3>3
  <2>2. CASE accepting # <<>>
    <3>1. notified' = notified \cup {"target.service_event", "interconnect.arbiter_event"}
      BY <2>2 DEF SendEndRequests, BackwardEndReq, Notify, TargetSendEndRequestEvents
    <3>2. {"target.service_event", "interconnect.arbiter_event"} \in SUBSET Events
      BY DEF Events, TargetEvents
    <3> QED BY <3>1, <3>2
  <2> QED BY <2>1, <2>2
<1>3. PICK w \in Events \cup NotEvents :
        /\ waits' = [waits EXCEPT !["target.send_end_requests"] = w]
        /\ w = "target.end_req_event" => end_req_queue' = <<>>
  <2>1. {"target.end_req_event", "timed"} \subseteq Events \cup NotEvents
    BY DEF Events, TargetEvents, NotEvents
  <2> QED
    BY <2>1 DEF SendEndRequests, TargetSendEndRequest, PopEndRequest, WaitTime, WaitEvent
<1>4. /\ waits' \in [Threads -> Events \cup NotEvents]
      /\ waits'["target.send_end_requests"] = w
      /\ \A q \in Threads : q # "target.send_end_requests" => waits'[q] = waits[q]
      /\ notified \subseteq notified' /\ E \subseteq notified'
  <2>1. "target.send_end_requests" \in Threads
    BY DEF Threads, TargetThreads
  <2> QED BY <1>2, <1>3, <2>1, SegmentFacts DEF WakeupInv, Segment
<1>5. WorkOK'
  BY <1>1, <1>4 DEF WakeupInv, WorkOK
<1>6. AcceptAwake' /\ ServeAwake' /\ ArbiterAwake'
  <2>1. {"target.service_requests", "interconnect.arbitrate_requests"} \subseteq Threads
    BY DEF Threads, TargetThreads
  <2> QED
    BY <1>1, <1>2, <1>3, <1>4, <2>1
    DEF WakeupInv, AllAwake, AcceptAwake, ServeAwake, ArbiterAwake, Missed
<1>7. ASSUME NEW j \in Initiators PROVE RespAwake(j)' /\ TopAwake(j)'
  BY <1>1, <1>4, ThreadNames DEF WakeupInv, AllAwake, RespAwake, TopAwake, Missed
<1> QED BY <1>5, <1>6, <1>7 DEF WakeupInv, AllAwake

(* BEGIN_RESP wakes the initiator it is for, and a released slot that is   *)
(* taken at once wakes send_end_requests.                                  *)
LEMMA ServiceWakeup ==
  ASSUME WakeupInv, FabricInv', ServiceRequests
  PROVE  WakeupInv'
<1>1. /\ UNCHANGED <<opt, pending, downstream_pending, done>>
      /\ Txns' = Txns /\ HasPending' = HasPending
  BY DEF ServiceRequests, issuers, interconnect, Txns, HasPending
<1>2. TargetServiceRequest
  BY DEF ServiceRequests, Abort, FabricInv
<1>3. PICK E \in SUBSET Events :
        /\ notified' = notified \cup E
        /\ response_queue' \in [Initiators -> Seq(Txns)]
        /\ \A j \in Initiators :
             response_queue'[j] # response_queue[j] => ResponseEvent(j) \in E
        /\ end_req_queue' # end_req_queue => "target.end_req_event" \in E
  <2>1. /\ response_queue \in [Initiators -> Seq(Txns)] /\ end_req_queue \in Seq(Txns)
        /\ servicing \in Seq(Txns)
    BY DEF WakeupInv, WorkOK, FabricInv, QueuesOK, TargetTypeOK
  <2>2. CASE servicing = <<>>
    <3>1. notified' = notified \cup {} /\ UNCHANGED <<response_queue, end_req_queue>>
      BY <1>2, <2>2 DEF ServiceRequests, TargetServiceRequest, Notify, OccupancyUnderflow
    <3>2. {} \in SUBSET Events
      OBVIOUS
    <3> QED BY <2>1, <3>1, <3>2
  <2>3. CASE servicing # <<>>
    <3> DEFINE t == Head(servicing)
               E == TargetServiceRequestEvents \cup {ResponseEvent(t[1])}
    <3>1. t \in Txns /\ t[1] \in Initiators
      BY <2>1, <2>3 DEF Txns
    <3>2. /\ response_queue' = [response_queue EXCEPT
                                  ![t[1]] = Append(response_queue[t[1]], t)]
          /\ notified' = notified \cup E
      BY <2>3 DEF ServiceRequests, BackwardBeginResp, Notify, Abort, FabricInv
    <3>3. E \in SUBSET Events
      BY <3>1, EventNames DEF TargetServiceRequestEvents
    <3>4. end_req_queue' # end_req_queue => "target.end_req_event" \in E
      <4>1. end_req_queue' = end_req_queue \o Admitted
        BY <1>2, <2>3 DEF TargetServiceRequest, ReleaseSlot
      <4>2. Admitted = <<>> => end_req_queue' = end_req_queue
        BY <2>1, <4>1
      <4> QED BY <2>3, <4>2 DEF TargetServiceRequestEvents
    <3> HIDE DEF t
    <3>5. response_queue' \in [Initiators -> Seq(Txns)]
      <4>1. Append(response_queue[t[1]], t) \in Seq(Txns)
        BY <2>1, <3>1, AppendProperties
      <4> QED BY <2>1, <3>1, <3>2, <4>1
    <3>6. \A j \in Initiators :
            response_queue'[j] # response_queue[j] => ResponseEvent(j) \in E
      BY <2>1, <3>1, <3>2
    <3> QED BY <3>2, <3>3, <3>4, <3>5, <3>6
  <2> QED BY <2>2, <2>3
<1>4. PICK w \in Events \cup NotEvents :
        /\ waits' = [waits EXCEPT !["target.service_requests"] = w]
        /\ w = "target.service_event" => service_queue' = <<>>
  <2>1. {"target.service_event", "timed"} \subseteq Events \cup NotEvents
    BY DEF Events, TargetEvents, NotEvents
  <2> QED BY <1>2, <2>1 DEF TargetServiceRequest, PopService, WaitTime, WaitEvent
<1>5. /\ waits' \in [Threads -> Events \cup NotEvents]
      /\ waits'["target.service_requests"] = w
      /\ \A q \in Threads : q # "target.service_requests" => waits'[q] = waits[q]
      /\ notified \subseteq notified' /\ E \subseteq notified'
  <2>1. "target.service_requests" \in Threads
    BY DEF Threads, TargetThreads
  <2> QED BY <1>3, <1>4, <2>1, SegmentFacts DEF WakeupInv, Segment
<1>6. WorkOK'
  BY <1>1, <1>3, <1>5 DEF WakeupInv, WorkOK
<1>7. AcceptAwake' /\ ServeAwake' /\ ArbiterAwake'
  <2>1. {"target.send_end_requests", "interconnect.arbitrate_requests"} \subseteq Threads
    BY DEF Threads, TargetThreads
  <2> QED
    BY <1>1, <1>3, <1>4, <1>5, <2>1
    DEF WakeupInv, AllAwake, AcceptAwake, ServeAwake, ArbiterAwake, Missed
<1>8. ASSUME NEW j \in Initiators PROVE RespAwake(j)' /\ TopAwake(j)'
  BY <1>1, <1>3, <1>5, ThreadNames DEF WakeupInv, AllAwake, RespAwake, TopAwake, Missed
<1> QED BY <1>6, <1>7, <1>8 DEF WakeupInv, AllAwake

(* A step that changes nothing loses no wakeup.                            *)
LEMMA UnchangedWakeup ==
  ASSUME WakeupInv, UNCHANGED vars
  PROVE  WakeupInv'
<1>1. FabricInv'
  BY OtherStepsInv DEF WakeupInv
<1>2. /\ UNCHANGED <<waits, notified, opt, end_req_queue, service_queue, downstream_pending,
                     pending, response_queue, done>>
      /\ Txns' = Txns /\ HasPending' = HasPending
  BY DEF vars, kernel, target, issuers, responders, interconnect, Txns, HasPending
<1> QED
  BY <1>1, <1>2
  DEF WakeupInv, WorkOK, AllAwake, AcceptAwake, ServeAwake, ArbiterAwake, RespAwake,
      TopAwake, Missed

-----------------------------------------------------------------------------
(***************************************************************************)
(* The abstract link.                                                      *)
(***************************************************************************)

Own(i) == {t \in Txns : t[1] = i}

Phases == {"idle", "pending", "begin_req", "end_req", "begin_resp", "end_resp"}

Elems(s) == {s[n] : n \in 1..Len(s)}

(* The queue s holds the transactions of S that are in phase p, all of     *)
(* them, each once, those of one initiator in the order of issue; f is     *)
(* phase.                                                                  *)
Queue(S, f, s, p) ==
  /\ s \in Seq(S)
  /\ Elems(s) = {t \in S : f[t] = p}
  /\ \A m, n \in 1..Len(s) : s[m] = s[n] => m = n
  /\ \A m, n \in 1..Len(s) : (m < n /\ s[m][1] = s[n][1]) => s[m][2] < s[n][2]

(* The link's view of the fabric.                                          *)
LinkPhase == [t \in Txns |-> IF phase[t] = "pending" THEN "idle" ELSE phase[t]]
Accepted == servicing \o service_queue

(* The request upstream of the target, and no other, has had BEGIN_REQ and *)
(* waits for END_REQ.                                                      *)
UpstreamBegun ==
  \A t \in Txns :
    phase[t] = "begin_req"
      <=> t \in Elems(waiting_accept_queue) \cup Elems(end_req_queue) \cup Elems(accepting)

NotIssued ==
  \A i \in Initiators : \A k \in 1..opt.num_transactions :
    k > Issued(i) <=> phase[<<i, k>>] = "idle"

(* No transaction is ahead of an earlier one of its initiator.             *)
Ordered ==
  \A i \in Initiators : \A k, l \in 1..opt.num_transactions :
    k < l => Rank(phase[<<i, l>>]) <= Rank(phase[<<i, k>>])

TracksOK ==
  /\ phase \in [Txns -> Phases]
  /\ response_queue \in [Initiators -> Seq(Txns)]
  /\ responding \in [Initiators -> Seq(Txns)]
  /\ \A i \in Initiators : Len(responding[i]) <= 1

(* Every transaction is in the queue of its phase and nowhere else, and    *)
(* none overtakes an earlier one of its initiator.                         *)
LinkInv ==
  /\ TracksOK
  /\ NotIssued
  /\ Ordered
  /\ \A i \in Initiators : Queue(Own(i), phase, pending[i], "pending")
  /\ UpstreamBegun
  /\ Queue(Txns, phase, Accepted, "end_req")
  /\ \A i \in Initiators :
       Queue(Own(i), phase, responding[i] \o response_queue[i], "begin_resp")

-----------------------------------------------------------------------------
(* A queue a transaction is not in does not see the transaction change.    *)
LEMMA QueueKept ==
  ASSUME NEW T, NEW R, NEW f \in [T -> R], NEW S \in SUBSET T, NEW s, NEW p,
         Queue(S, f, s, p), NEW t \in T, NEW x, (f[t] # p /\ x # p) \/ t \notin S
  PROVE  Queue(S, [f EXCEPT ![t] = x], s, p)
<1> DEFINE g == [f EXCEPT ![t] = x]
<1>1. \A u \in S : g[u] = p <=> f[u] = p
  OBVIOUS
<1> HIDE DEF g
<1>2. {u \in S : g[u] = p} = {u \in S : f[u] = p}
  BY <1>1
<1> QED BY <1>2 DEF Queue, g

(* A transaction that comes into the phase of the queue joins it; those of *)
(* its initiator that are there are earlier ones.                          *)
LEMMA QueuePush ==
  ASSUME NEW T, NEW R, NEW f \in [T -> R], NEW S \in SUBSET T, NEW s, NEW p,
         Queue(S, f, s, p), NEW t \in S, f[t] # p,
         \A u \in S : (f[u] = p /\ u[1] = t[1]) => u[2] < t[2]
  PROVE  Queue(S, [f EXCEPT ![t] = p], Append(s, t), p)
<1> DEFINE g == [f EXCEPT ![t] = p]
           a == Append(s, t)
<1>1. /\ s \in Seq(S) /\ Len(s) \in Nat /\ Elems(s) = {u \in S : f[u] = p}
  BY LenProperties DEF Queue
<1>2. \A n \in 1..Len(s) : s[n] \in S /\ f[s[n]] = p /\ s[n] # t
  BY <1>1 DEF Elems
<1>3. /\ a \in Seq(S) /\ Len(a) = Len(s) + 1 /\ a[Len(s) + 1] = t
      /\ \A n \in 1..Len(s) : a[n] = s[n]
  BY <1>1, AppendProperties
<1>4. g[t] = p /\ \A u \in T : u # t => g[u] = f[u]
  OBVIOUS
<1> HIDE DEF a, g
<1>5. \A n \in 1..Len(a) : n \in 1..Len(s) \/ n = Len(s) + 1
  BY <1>1, <1>3
<1>6. Elems(a) = {u \in S : g[u] = p}
  <2>1. Elems(a) = Elems(s) \cup {t}
    <3>1. Elems(a) \subseteq Elems(s) \cup {t}
      BY <1>3, <1>5 DEF Elems
    <3>2. Len(s) + 1 \in 1..Len(a) /\ 1..Len(s) \subseteq 1..Len(a)
      BY <1>1, <1>3
    <3>3. t \in Elems(a)
      BY <1>3, <3>2 DEF Elems
    <3>4. Elems(s) \subseteq Elems(a)
      BY <1>3, <3>2 DEF Elems
    <3> QED BY <3>1, <3>3, <3>4
  <2>2. {u \in S : g[u] = p} = {u \in S : f[u] = p} \cup {t}
    BY <1>4
  <2> QED BY <1>1, <2>1, <2>2
<1>7. ASSUME NEW m \in 1..Len(a), NEW n \in 1..Len(a)
      PROVE  /\ a[m] = a[n] => m = n
             /\ (m < n /\ a[m][1] = a[n][1]) => a[m][2] < a[n][2]
  <2>1. CASE m \in 1..Len(s) /\ n \in 1..Len(s)
    BY <1>3, <2>1 DEF Queue
  <2>2. CASE m = Len(s) + 1 /\ n \in 1..Len(s)
    BY <1>1, <1>2, <1>3, <2>2
  <2>3. CASE n = Len(s) + 1 /\ m \in 1..Len(s)
    BY <1>1, <1>2, <1>3, <2>3
  <2>4. CASE m = Len(s) + 1 /\ n = Len(s) + 1
    BY <1>1, <2>4
  <2> QED BY <1>5, <2>1, <2>2, <2>3, <2>4
<1> QED BY <1>3, <1>6, <1>7 DEF Queue, a, g

(* The elements of the queues the upstream request moves through.          *)
LEMMA ElemsFacts ==
  ASSUME NEW S, NEW s \in Seq(S), NEW r \in Seq(S)
  PROVE  /\ Elems(<<>>) = {}
         /\ \A x : Elems(<<x>>) = {x}
         /\ Elems(s \o r) = Elems(s) \cup Elems(r)
         /\ s # <<>> => Elems(s) = {Head(s)} \cup Elems(Tail(s))
<1>1. Elems(<<>>) = {} /\ \A x : Elems(<<x>>) = {x}
  BY DEF Elems
<1>2. Elems(s \o r) = Elems(s) \cup Elems(r)
  <2>1. /\ Len(s) \in Nat /\ Len(r) \in Nat /\ Len(s \o r) = Len(s) + Len(r)
        /\ \A n \in 1..(Len(s) + Len(r)) :
             (s \o r)[n] = IF n <= Len(s) THEN s[n] ELSE r[n - Len(s)]
    BY ConcatProperties, LenProperties
  <2>2. ASSUME NEW n \in 1..Len(s) PROVE s[n] \in Elems(s \o r)
    BY <2>1 DEF Elems
  <2>3. ASSUME NEW n \in 1..Len(r) PROVE r[n] \in Elems(s \o r)
    <3>1. Len(s) + n \in 1..Len(s \o r) /\ (s \o r)[Len(s) + n] = r[n]
      BY <2>1
    <3> QED BY <3>1 DEF Elems
  <2>4. ASSUME NEW n \in 1..Len(s \o r) PROVE (s \o r)[n] \in Elems(s) \cup Elems(r)
    <3>1. CASE n <= Len(s)
      BY <2>1, <3>1 DEF Elems
    <3>2. CASE ~(n <= Len(s))
      <4>1. n - Len(s) \in 1..Len(r) /\ (s \o r)[n] = r[n - Len(s)]
        BY <2>1, <3>2
      <4> QED BY <4>1 DEF Elems
    <3> QED BY <3>1, <3>2
  <2> QED BY <2>2, <2>3, <2>4 DEF Elems
<1>3. ASSUME s # <<>> PROVE Elems(s) = {Head(s)} \cup Elems(Tail(s))
  <2>1. /\ Len(s) \in Nat /\ Len(s) >= 1 /\ Head(s) = s[1]
        /\ Len(Tail(s)) = Len(s) - 1
        /\ \A n \in 1..Len(Tail(s)) : Tail(s)[n] = s[n + 1]
    BY <1>3, HeadTailProperties, LenProperties, EmptySeq
  <2>2. s[1] \in Elems(s)
    BY <2>1 DEF Elems
  <2>3. ASSUME NEW n \in 1..Len(Tail(s)) PROVE Tail(s)[n] \in Elems(s)
    BY <2>1 DEF Elems
  <2>4. ASSUME NEW n \in 1..Len(s) PROVE s[n] = s[1] \/ s[n] \in Elems(Tail(s))
    <3>1. CASE n = 1
      BY <3>1
    <3>2. CASE n # 1
      <4>1. n - 1 \in 1..Len(Tail(s)) /\ Tail(s)[n - 1] = s[n]
        BY <2>1, <3>2
      <4> QED BY <4>1 DEF Elems
    <3> QED BY <3>1, <3>2
  <2> QED BY <2>1, <2>2, <2>3, <2>4 DEF Elems
<1> QED BY <1>1, <1>2, <1>3

(* Of its initiator, t is the earliest transaction of S in phase p.        *)
Earliest(S, f, p, t) ==
  \A u \in S : (f[u] = p /\ u[1] = t[1] /\ u # t) => t[2] < u[2]

(* The head h leaves the queue s, r is the rest.                           *)
Pops(s, h, r) == s # <<>> /\ h = Head(s) /\ r = Tail(s)

(* The head of the queue is the earliest of its initiator there; when it   *)
(* leaves the queue and the phase (g is phase then), the rest remains.     *)
LEMMA QueuePop ==
  ASSUME NEW S, NEW f, NEW s, NEW p, Queue(S, f, s, p), NEW h, NEW r, Pops(s, h, r)
  PROVE  /\ h \in S /\ f[h] = p /\ Earliest(S, f, p, h)
         /\ \A g : (g[h] # p /\ \A u \in S : u # h => g[u] = f[u]) => Queue(S, g, r, p)
<1>1. /\ s \in Seq(S) /\ Len(s) \in Nat /\ Len(s) >= 1
      /\ Elems(s) = {u \in S : f[u] = p}
  BY LenProperties, EmptySeq DEF Queue, Pops
<1>2. /\ h = s[1] /\ h \in S /\ r \in Seq(S) /\ Len(r) = Len(s) - 1
      /\ \A n \in 1..Len(r) : r[n] = s[n + 1]
  BY <1>1, HeadTailProperties DEF Pops
<1>3. Elems(s) = {h} \cup Elems(r)
  BY <1>1, ElemsFacts DEF Pops
<1>4. ASSUME NEW n \in 1..Len(r)
      PROVE  n + 1 \in 1..Len(s) /\ 1 \in 1..Len(s) /\ r[n] # h /\ r[n] \in S
  BY <1>1, <1>2 DEF Queue
<1>5. f[h] = p
  BY <1>1, <1>3
<1>7. ASSUME NEW g, g[h] # p, \A u \in S : u # h => g[u] = f[u]
      PROVE  Elems(r) = {u \in S : g[u] = p}
  <2>1. h \notin Elems(r)
    BY <1>4 DEF Elems
  <2> QED BY <1>1, <1>3, <1>7, <2>1
<1>8. ASSUME NEW m \in 1..Len(r), NEW n \in 1..Len(r)
      PROVE  /\ r[m] = r[n] => m = n
             /\ (m < n /\ r[m][1] = r[n][1]) => r[m][2] < r[n][2]
  <2>1. /\ r[m] = s[m + 1] /\ r[n] = s[n + 1] /\ m + 1 \in 1..Len(s) /\ n + 1 \in 1..Len(s)
        /\ (m + 1 = n + 1 => m = n) /\ (m < n => m + 1 < n + 1)
    BY <1>2, <1>4
  <2> QED BY <2>1 DEF Queue
<1>9. ASSUME NEW u \in S, f[u] = p, u[1] = h[1], u # h PROVE h[2] < u[2]
  <2>1. PICK n \in 1..Len(r) : u = r[n]
    BY <1>1, <1>3, <1>9 DEF Elems
  <2>2. u = s[n + 1] /\ n + 1 \in 1..Len(s) /\ 1 \in 1..Len(s) /\ 1 < n + 1
    BY <1>2, <1>4, <2>1
  <2> QED BY <1>2, <1>9, <2>2 DEF Queue
<1> QED BY <1>2, <1>5, <1>7, <1>8, <1>9 DEF Queue, Earliest

(* A thread that carries at most one element in front of its queue.        *)
LEMMA CarryAndQueue ==
  ASSUME NEW S, NEW a \in Seq(S), Len(a) <= 1, NEW b \in Seq(S)
  PROVE  /\ a = <<>> => a \o b = b
         /\ a # <<>> => /\ a \o b # <<>> /\ Head(a \o b) = Head(a) /\ Tail(a \o b) = b
                        /\ Head(a) \in S
         /\ <<>> \o b = b
         /\ b # <<>> => <<Head(b)>> \o Tail(b) = b
<1>1. <<>> \o b = b
  OBVIOUS
<1>2. ASSUME a # <<>>
      PROVE  /\ a \o b # <<>> /\ Head(a \o b) = Head(a) /\ Tail(a \o b) = b
             /\ Head(a) \in S
  <2>1. Len(a) = 1 /\ Head(a) = a[1] /\ Head(a) \in S
    BY <1>2, AtMostOne, HeadTailProperties
  <2>2. /\ Len(b) \in Nat /\ Len(a \o b) = 1 + Len(b) /\ a \o b \in Seq(S)
        /\ (a \o b)[1] = a[1]
        /\ \A n \in 1..Len(b) : (a \o b)[n + 1] = b[n]
    <3>1. Len(b) \in Nat
      BY LenProperties
    <3>2. /\ a \o b \in Seq(S) /\ Len(a \o b) = Len(a) + Len(b)
          /\ \A n \in 1..(Len(a) + Len(b)) :
               (a \o b)[n] = IF n <= Len(a) THEN a[n] ELSE b[n - Len(a)]
      BY ConcatProperties
    <3>3. \A n \in 1..Len(b) : (n + 1) \in 1..(1 + Len(b)) /\ ~(n + 1 <= 1) /\ n + 1 - 1 = n
      BY <3>1
    <3> QED BY <2>1, <3>1, <3>2, <3>3
  <2>3. a \o b # <<>>
    BY <2>2, EmptySeq
  <2>4. /\ Head(a \o b) = (a \o b)[1] /\ Tail(a \o b) \in Seq(S)
        /\ Len(Tail(a \o b)) = Len(a \o b) - 1
        /\ \A n \in 1..Len(Tail(a \o b)) : Tail(a \o b)[n] = (a \o b)[n + 1]
    BY <2>2, <2>3, HeadTailProperties
  <2>5. Tail(a \o b) = b
    <3>1. /\ Len(Tail(a \o b)) = Len(b)
          /\ \A n \in 1..Len(b) : Tail(a \o b)[n] = b[n]
      BY <2>2, <2>4
    <3> QED BY <2>4, <3>1, SeqEqual
  <2> QED BY <2>1, <2>2, <2>3, <2>4, <2>5
<1>3. b # <<>> => <<Head(b)>> \o Tail(b) = b
  OBVIOUS
<1> QED BY <1>1, <1>2, <1>3

-----------------------------------------------------------------------------
(* The order of the phases.                                                *)
LEMMA RankFacts ==
  /\ Rank("idle") = 0 /\ Rank("pending") = 1 /\ Rank("begin_req") = 2
  /\ Rank("end_req") = 3 /\ Rank("begin_resp") = 4 /\ Rank("end_resp") = 5
  /\ \A p \in Phases : Rank(p) \in 0..5
  /\ \A p, q \in Phases : Rank(p) = Rank(q) => p = q
<1>1. /\ Rank("idle") = 0 /\ Rank("pending") = 1 /\ Rank("begin_req") = 2
      /\ Rank("end_req") = 3 /\ Rank("begin_resp") = 4 /\ Rank("end_resp") = 5
  BY DEF Rank
<1> QED BY <1>1 DEF Phases

(* Transactions of the initiator of t in a later phase than t are earlier. *)
LEMMA LeadersAreEarlier ==
  ASSUME OptOK, TracksOK, Ordered, NEW t \in Txns, NEW p \in Phases, Rank(phase[t]) < Rank(p)
  PROVE  \A u \in Txns : (phase[u] = p /\ u[1] = t[1]) => u[2] < t[2]
<1> SUFFICES ASSUME NEW u \in Txns, phase[u] = p, u[1] = t[1]
             PROVE  u[2] < t[2]
  OBVIOUS
<1>1. PICK i \in Initiators, k \in 1..opt.num_transactions : t = <<i, k>>
  BY DEF Txns
<1>2. PICK l \in 1..opt.num_transactions : u = <<i, l>>
  BY <1>1 DEF Txns
<1>3. Rank(phase[t]) \in Nat /\ Rank(p) \in Nat
  BY RankFacts DEF TracksOK
<1>4. ~(k < l)
  BY <1>1, <1>2, <1>3 DEF Ordered
<1>5. k # l
  BY <1>1, <1>2, <1>3
<1> QED BY <1>1, <1>2, <1>4, <1>5 DEF OptOK

(* The earliest transaction of its initiator in a phase goes on to the     *)
(* next one.                                                               *)
LEMMA Advance ==
  ASSUME OptOK, TracksOK, Ordered, NEW t \in Txns, NEW x \in Phases, opt' = opt,
         Rank(x) = Rank(phase[t]) + 1, phase' = [phase EXCEPT ![t] = x],
         Earliest(Txns, phase, phase[t], t)
  PROVE  Ordered'
<1>1. phase'[t] = x /\ \A u \in Txns : u # t => phase'[u] = phase[u]
  BY DEF TracksOK
<1>2. ASSUME NEW i \in Initiators, NEW k \in 1..opt.num_transactions,
             NEW l \in 1..opt.num_transactions, k < l
      PROVE  Rank(phase'[<<i, l>>]) <= Rank(phase'[<<i, k>>])
  <2> DEFINE u == <<i, k>>
             v == <<i, l>>
  <2>1. u \in Txns /\ v \in Txns /\ u # v /\ u[1] = i /\ v[1] = i /\ u[2] = k /\ v[2] = l
    BY <1>2 DEF Txns, OptOK
  <2>2. /\ Rank(phase[u]) \in Nat /\ Rank(phase[v]) \in Nat /\ Rank(phase[t]) \in Nat
        /\ Rank(phase[v]) <= Rank(phase[u])
    <3>1. ASSUME NEW r \in Txns PROVE Rank(phase[r]) \in Nat
      <4>1. phase[r] \in Phases
        BY DEF TracksOK
      <4>2. Rank(phase[r]) \in 0..5
        BY <4>1, RankFacts
      <4> QED BY <4>2
    <3> QED BY <1>2, <2>1, <3>1 DEF Ordered
  <2>3. Rank(phase[u]) = Rank(phase[t]) => phase[u] = phase[t]
    BY <2>1, RankFacts DEF TracksOK
  <2>4. ~(l < k)
    BY <1>2 DEF OptOK
  <2> HIDE DEF u, v
  <2>5. ASSUME u = t PROVE Rank(phase'[v]) <= Rank(phase'[u])
    BY <1>1, <2>1, <2>2, <2>5
  <2>6. ASSUME v = t PROVE Rank(phase'[v]) <= Rank(phase'[u])
    <3>1. Rank(phase[u]) # Rank(phase[t])
      BY <2>1, <2>3, <2>4, <2>6 DEF Earliest
    <3> QED BY <1>1, <2>1, <2>2, <2>6, <3>1
  <2>7. ASSUME u # t, v # t PROVE Rank(phase'[v]) <= Rank(phase'[u])
    BY <1>1, <2>1, <2>2, <2>7
  <2> QED BY <2>5, <2>6, <2>7 DEF u, v
<1> QED BY <1>2 DEF Ordered

-----------------------------------------------------------------------------
(* The steps of the link, on the fabric's view of its state.               *)
LinkBeginReq(t) ==
  /\ LinkPhase[t] = "idle" /\ \A u \in Txns : LinkPhase[u] # "begin_req"
  /\ LinkPhase' = [LinkPhase EXCEPT ![t] = "begin_req"]
  /\ Accepted' = Accepted

LinkEndReq(t) ==
  /\ LinkPhase[t] = "begin_req" /\ Len(Accepted) < opt.queue_depth
  /\ LinkPhase' = [LinkPhase EXCEPT ![t] = "end_req"]
  /\ Accepted' = Append(Accepted, t)

LinkBeginResp(t) ==
  /\ Accepted # <<>> /\ t = Head(Accepted)
  /\ LinkPhase' = [LinkPhase EXCEPT ![t] = "begin_resp"]
  /\ Accepted' = Tail(Accepted)

LinkEndResp(t) ==
  /\ LinkPhase[t] = "begin_resp"
  /\ LinkPhase' = [LinkPhase EXCEPT ![t] = "end_resp"]
  /\ Accepted' = Accepted

LinkStep ==
  /\ opt' = opt
  /\ \/ \E t \in Txns : LinkBeginReq(t) \/ LinkEndReq(t) \/ LinkBeginResp(t) \/ LinkEndResp(t)
     \/ UNCHANGED <<LinkPhase, Accepted>>

(* What the steps below do to the phases is a step of the link or none.    *)
LEMMA LinkStepIsNext == LinkStep => [Link!Next]_(Link!vars)
<1> SUFFICES ASSUME LinkStep PROVE [Link!Next]_(Link!vars)
  OBVIOUS
<1>1. opt' = opt /\ Txns' = Txns
  BY DEF LinkStep, Txns
<1>2. CASE UNCHANGED <<LinkPhase, Accepted>>
  BY <1>1, <1>2 DEF LinkPhase, Accepted, Link!vars
<1>3. ASSUME NEW t \in Txns, LinkBeginReq(t) PROVE Link!BeginReq(t)
  BY <1>1, <1>3 DEF LinkBeginReq, LinkPhase, Accepted, Link!BeginReq, Link!Transactions
<1>4. ASSUME NEW t \in Txns, LinkEndReq(t) PROVE Link!EndReq(t)
  BY <1>1, <1>4 DEF LinkEndReq, LinkPhase, Accepted, Link!EndReq
<1>5. ASSUME NEW t \in Txns, LinkBeginResp(t) PROVE Link!BeginResp(t)
  BY <1>1, <1>5 DEF LinkBeginResp, LinkPhase, Accepted, Link!BeginResp
<1>6. ASSUME NEW t \in Txns, LinkEndResp(t) PROVE Link!EndResp(t)
  BY <1>1, <1>6 DEF LinkEndResp, LinkPhase, Accepted, Link!EndResp
<1>7. Link!Transactions = Txns
  BY DEF Link!Transactions
<1> QED BY <1>2, <1>3, <1>4, <1>5, <1>6, <1>7 DEF LinkStep, Link!Next

(* What a phase stamp is for the link.                                     *)
LEMMA Stamp ==
  ASSUME TracksOK, NEW t \in Txns, NEW p \in Phases, opt' = opt,
         phase' = [phase EXCEPT ![t] = p]
  PROVE  /\ phase' \in [Txns -> Phases]
         /\ phase'[t] = p /\ \A u \in Txns : u # t => phase'[u] = phase[u]
         /\ p = "pending" /\ phase[t] = "idle" => LinkPhase' = LinkPhase
         /\ p # "pending" => LinkPhase' = [LinkPhase EXCEPT ![t] = p]
BY DEF TracksOK, LinkPhase, Txns

(* At first no transaction is under way, as in the link.                   *)
LEMMA InitLink == ASSUME OptOK, Init PROVE LinkInv /\ Link!Init
<1>1. /\ phase = [t \in Txns |-> "idle"]
      /\ pending = [i \in Initiators |-> <<>>]
      /\ response_queue = [i \in Initiators |-> <<>>]
      /\ responding = [i \in Initiators |-> <<>>]
      /\ next_txn = [i \in Initiators |-> 0]
      /\ waiting_accept_queue = <<>> /\ end_req_queue = <<>> /\ accepting = <<>>
      /\ servicing = <<>> /\ service_queue = <<>>
  BY DEF Init, TargetInit
<1>2. ASSUME NEW S \in SUBSET Txns, NEW p, p # "idle" PROVE Queue(S, phase, <<>>, p)
  <2>1. {t \in S : phase[t] = p} = {}
    BY <1>1, <1>2
  <2> QED BY <2>1 DEF Queue, Elems
<1>3. <<>> \o <<>> = <<>> /\ Elems(<<>>) = {} /\ Len(<<>>) = 0
  BY DEF Elems
<1>4. TracksOK
  <2>1. \A S : <<>> \in Seq(S)
    OBVIOUS
  <2>2. phase \in [Txns -> Phases]
    BY <1>1 DEF Phases
  <2>3. \A i \in Initiators : Len(responding[i]) <= 1
    BY <1>1, <1>3
  <2>4. /\ response_queue \in [Initiators -> Seq(Txns)]
        /\ responding \in [Initiators -> Seq(Txns)]
    BY <1>1, <2>1
  <2> QED BY <2>2, <2>3, <2>4 DEF TracksOK
<1>5. NotIssued /\ UpstreamBegun /\ Ordered
  <2>1. \A i \in Initiators : Issued(i) = 0
    BY <1>1 DEF Issued
  <2>2. \A i \in Initiators : \A k \in 1..opt.num_transactions :
          phase[<<i, k>>] = "idle" /\ k > 0
    BY <1>1 DEF Txns, OptOK
  <2> QED BY <1>1, <1>3, <2>1, <2>2, RankFacts DEF NotIssued, UpstreamBegun, Ordered
<1>6. Accepted = <<>> /\ \A i \in Initiators : responding[i] \o response_queue[i] = <<>>
  BY <1>1, <1>3 DEF Accepted
<1>7. Link!Init
  BY <1>1, <1>6 DEF Accepted, Link!Init, Link!Transactions, OptOK
<1>8. \A i \in Initiators : Own(i) \in SUBSET Txns
  BY DEF Own
<1> QED BY <1>1, <1>2, <1>4, <1>5, <1>6, <1>7, <1>8 DEF LinkInv

(* The steps of Top and of the scheduler, and stuttering.                  *)
LEMMA ElsewhereLink ==
  ASSUME LinkInv, UNCHANGED <<opt, next_txn, phase, pending, waiting_accept_queue,
           end_req_queue, accepting, service_queue, servicing, response_queue, responding>>
  PROVE  LinkInv' /\ LinkStep
<1>1. Txns' = Txns /\ \A i \in Initiators : Own(i)' = Own(i) /\ Issued(i)' = Issued(i)
  BY DEF Txns, Own, Issued
<1>2. UNCHANGED <<LinkPhase, Accepted>>
  BY <1>1 DEF LinkPhase, Accepted
<1>3. LinkInv'
  BY <1>1, <1>2 DEF LinkInv, TracksOK, NotIssued, Ordered, UpstreamBegun
<1> QED BY <1>2, <1>3 DEF LinkStep

(* A request that is issued joins the queue of its initiator; the link     *)
(* does not see it yet.                                                    *)
LEMMA IssueLink ==
  ASSUME FabricInv, LinkInv, NEW i \in Initiators, NEW gap, IssueRequests(i, gap)
  PROVE  LinkInv' /\ LinkStep
<1> DEFINE k == next_txn[i]
           t == <<i, k>>
<1>1. /\ next_txn \in [Initiators -> Nat] /\ pending \in [Initiators -> Seq(Txns)]
      /\ opt.num_transactions \in Nat /\ TracksOK
  BY DEF FabricInv, QueuesOK, OptOK, LinkInv
<1>2. /\ UNCHANGED <<opt, waiting_accept_queue, end_req_queue, accepting, service_queue,
                     servicing, response_queue, responding>>
      /\ next_txn' = [next_txn EXCEPT ![i] = k + 1]
  BY DEF IssueRequests, target, responders
<1>3. /\ Txns' = Txns /\ Accepted' = Accepted
      /\ \A j \in Initiators : Own(j)' = Own(j)
      /\ \A j \in Initiators : j # i => Issued(j)' = Issued(j)
  BY <1>1, <1>2 DEF Txns, Own, Issued, Accepted
<1>4. CASE k # 0 /\ k <= opt.num_transactions
  <2>1. /\ phase' = [phase EXCEPT ![t] = "pending"]
        /\ pending' = [pending EXCEPT ![i] = Append(pending[i], t)]
    BY <1>4 DEF IssueRequests, BeginRequest
  <2>2. t \in Txns /\ t \in Own(i) /\ \A j \in Initiators : j # i => t \notin Own(j)
    BY <1>1, <1>4 DEF Txns, Own
  <2>3. phase[t] = "idle"
    <3>1. k \in 1..opt.num_transactions /\ k > Issued(i)
      BY <1>1, <1>4 DEF Issued
    <3> QED BY <3>1 DEF LinkInv, NotIssued
  <2> HIDE DEF t
  <2>4. /\ phase' \in [Txns -> Phases] /\ LinkPhase' = LinkPhase
        /\ phase'[t] = "pending" /\ \A u \in Txns : u # t => phase'[u] = phase[u]
    <3>1. opt' = opt /\ "pending" \in Phases
      BY <1>2 DEF Phases
    <3> QED BY <1>1, <2>1, <2>2, <2>3, <3>1, Stamp
  <2>5. NotIssued'
    <3>1. Issued(i) = k - 1 /\ Issued(i)' = k
      BY <1>1, <1>2, <1>4 DEF Issued
    <3> SUFFICES ASSUME NEW j \in Initiators, NEW n \in 1..opt.num_transactions
                 PROVE  n > Issued(j)' <=> phase'[<<j, n>>] = "idle"
      BY <1>2 DEF NotIssued
    <3>2. CASE <<j, n>> = t
      <4>1. j = i /\ n = k /\ ~(k > k)
        BY <1>1, <3>2 DEF t
      <4> QED BY <2>4, <3>1, <3>2, <4>1
    <3>3. CASE <<j, n>> # t
      <4>1. n > Issued(j)' <=> n > Issued(j)
        BY <1>1, <1>3, <3>1, <3>3 DEF t
      <4>2. <<j, n>> \in Txns
        BY DEF Txns
      <4> QED BY <2>4, <3>3, <4>1, <4>2 DEF LinkInv, NotIssued
    <3> QED BY <3>2, <3>3
  <2>10. /\ OptOK /\ Ordered /\ "pending" \in Phases
         /\ Rank("pending") = Rank(phase[t]) + 1 /\ Rank(phase[t]) < Rank("pending")
         /\ \A u \in Txns : (phase[u] = "pending" /\ u[1] = t[1]) => u[2] < t[2]
    <3>1. /\ OptOK /\ Ordered /\ "pending" \in Phases
          /\ Rank("pending") = Rank(phase[t]) + 1 /\ Rank(phase[t]) < Rank("pending")
      BY <2>3, RankFacts DEF FabricInv, LinkInv, Phases
    <3> QED BY <1>1, <2>2, <3>1, LeadersAreEarlier
  <2>11. Ordered'
    <3>1. Earliest(Txns, phase, phase[t], t)
      <4> SUFFICES ASSUME NEW u \in Txns, phase[u] = "idle", u[1] = t[1], u # t
                   PROVE  t[2] < u[2]
        BY <2>3 DEF Earliest
      <4>1. PICK n \in 1..opt.num_transactions : u = <<i, n>>
        BY DEF Txns, t
      <4>2. n > Issued(i)
        BY <4>1 DEF LinkInv, NotIssued
      <4>3. Issued(i) = k - 1 /\ n # k
        BY <1>1, <1>4, <4>1 DEF Issued, t
      <4> QED BY <1>1, <4>1, <4>2, <4>3 DEF t
    <3> QED BY <1>1, <1>2, <2>1, <2>2, <2>10, <3>1, Advance
  <2>6. ASSUME NEW j \in Initiators PROVE Queue(Own(j)', phase', pending'[j], "pending")
    <3>1. Queue(Own(j), phase, pending[j], "pending") /\ Own(j) \in SUBSET Txns
      BY DEF LinkInv, Own
    <3>2. CASE j = i
      <4>1. \A u \in Own(i) : (phase[u] = "pending" /\ u[1] = t[1]) => u[2] < t[2]
        BY <2>10, <3>1, <3>2
      <4> QED BY <1>1, <1>3, <2>1, <2>2, <2>3, <3>1, <3>2, <4>1, QueuePush DEF TracksOK
    <3>3. CASE j # i
      BY <1>1, <1>3, <2>1, <2>2, <3>1, <3>3, QueueKept DEF TracksOK
    <3> QED BY <3>2, <3>3
  <2>7. Queue(Txns', phase', Accepted', "end_req")
    BY <1>1, <1>3, <2>1, <2>2, <2>3, QueueKept DEF LinkInv, TracksOK
  <2>8. ASSUME NEW j \in Initiators
        PROVE  Queue(Own(j)', phase', responding'[j] \o response_queue'[j], "begin_resp")
    <3>1. Own(j) \in SUBSET Txns
      BY DEF Own
    <3> QED BY <1>1, <1>2, <1>3, <2>1, <2>2, <2>3, <3>1, QueueKept DEF LinkInv, TracksOK
  <2>9. UpstreamBegun'
    BY <1>2, <1>3, <2>2, <2>3, <2>4 DEF LinkInv, UpstreamBegun, Elems
  <2> QED
    BY <1>1, <1>2, <1>3, <2>4, <2>5, <2>6, <2>7, <2>8, <2>9, <2>11
    DEF LinkInv, TracksOK, LinkStep
<1>5. CASE ~(k # 0 /\ k <= opt.num_transactions)
  <2>1. UNCHANGED <<phase, pending>>
    BY <1>1, <1>5 DEF IssueRequests, FinishIssuing
  <2>2. Issued(i)' = Issued(i)
    BY <1>1, <1>2, <1>5 DEF Issued
  <2>3. LinkPhase' = LinkPhase
    BY <1>3, <2>1 DEF LinkPhase
  <2>4. LinkInv'
    BY <1>1, <1>2, <1>3, <2>1, <2>2 DEF LinkInv, TracksOK, NotIssued, Ordered, UpstreamBegun
  <2> QED BY <1>2, <1>3, <2>3, <2>4 DEF LinkStep
<1> QED BY <1>4, <1>5

(* A transaction that is issued and stamped leaves the idle ones alone.    *)
LEMMA StampIssued ==
  ASSUME LinkInv, NEW t \in Txns, phase[t] # "idle", NEW p \in Phases, p # "idle",
         UNCHANGED <<opt, next_txn>>, phase' = [phase EXCEPT ![t] = p]
  PROVE  NotIssued'
<1>1. phase'[t] = p /\ \A u \in Txns : u # t => phase'[u] = phase[u]
  BY DEF LinkInv, TracksOK
<1>2. ASSUME NEW i \in Initiators, NEW k \in 1..opt.num_transactions
      PROVE  k > Issued(i) <=> phase'[<<i, k>>] = "idle"
  <2>1. (k > Issued(i) <=> phase[<<i, k>>] = "idle") /\ <<i, k>> \in Txns
    BY <1>2 DEF LinkInv, NotIssued, Txns
  <2> QED BY <1>1, <2>1
<1>3. \A i \in Initiators : Issued(i)' = Issued(i)
  BY DEF Issued
<1> QED BY <1>2, <1>3 DEF NotIssued

(* END_RESP takes the transaction out of the initiator's last queue.       *)
LEMMA ResponseLink ==
  ASSUME FabricInv, LinkInv, NEW i \in Initiators, SendEndResponses(i)
  PROVE  LinkInv' /\ LinkStep
<1> DEFINE q(j) == responding[j] \o response_queue[j]
<1>1. /\ UNCHANGED <<opt, next_txn, waiting_accept_queue, end_req_queue, accepting,
                     service_queue, servicing, pending>>
      /\ Txns' = Txns /\ Accepted' = Accepted
      /\ \A j \in Initiators : Own(j)' = Own(j) /\ Own(j) \in SUBSET Txns
  BY DEF SendEndResponses, target, interconnect, Txns, Accepted, Own
<1>2. /\ TracksOK
      /\ responding[i] \in Seq(Txns) /\ Len(responding[i]) <= 1
      /\ response_queue[i] \in Seq(Txns)
  BY DEF LinkInv, TracksOK
<1>3. /\ response_queue' \in [Initiators -> Seq(Txns)]
      /\ responding' \in [Initiators -> Seq(Txns)]
      /\ Len(responding'[i]) <= 1
      /\ responding'[i] \o response_queue'[i] = response_queue[i]
      /\ \A j \in Initiators : j # i => /\ responding'[j] = responding[j]
                                        /\ response_queue'[j] = response_queue[j]
  <2>1. CASE response_queue[i] # <<>>
    <3>1. /\ Head(response_queue[i]) \in Txns /\ Tail(response_queue[i]) \in Seq(Txns)
          /\ <<Head(response_queue[i])>> \o Tail(response_queue[i]) = response_queue[i]
      BY <1>2, <2>1, HeadTailProperties
    <3>2. /\ responding' = [responding EXCEPT ![i] = <<Head(response_queue[i])>>]
          /\ response_queue' = [response_queue EXCEPT ![i] = Tail(response_queue[i])]
      BY <2>1 DEF SendEndResponses, PopResponse
    <3> QED BY <1>2, <3>1, <3>2 DEF TracksOK
  <2>2. CASE response_queue[i] = <<>>
    <3>1. responding' = [responding EXCEPT ![i] = <<>>] /\ response_queue' = response_queue
      BY <2>2 DEF SendEndResponses, PopResponse
    <3>2. <<>> \in Seq(Txns) /\ <<>> \o <<>> = <<>> /\ Len(<<>>) <= 1
      OBVIOUS
    <3> QED BY <1>2, <2>2, <3>1, <3>2 DEF TracksOK
  <2> QED BY <2>1, <2>2
<1>4. /\ TracksOK' <=> phase' \in [Txns -> Phases]
  BY <1>1, <1>2, <1>3 DEF TracksOK
<1>5. CASE responding[i] = <<>>
  <2>1. phase' = phase
    BY <1>5 DEF SendEndResponses
  <2>2. q(i) = response_queue[i]
    BY <1>2, <1>5, CarryAndQueue
  <2>3. \A j \in Initiators : responding'[j] \o response_queue'[j] = q(j)
    BY <1>3, <2>2
  <2>4. LinkPhase' = LinkPhase
    BY <1>1, <2>1 DEF LinkPhase
  <2>5. LinkInv'
    BY <1>1, <1>2, <1>4, <2>1, <2>3 DEF LinkInv, TracksOK, NotIssued, Ordered, UpstreamBegun,
    Issued
  <2> QED BY <1>1, <2>4, <2>5 DEF LinkStep
<1>6. CASE responding[i] # <<>>
  <2> DEFINE t == Head(responding[i])
  <2>1. phase' = [phase EXCEPT ![t] = "end_resp"]
    BY <1>6 DEF SendEndResponses, EndResponse
  <2>2. q(i) # <<>> /\ Head(q(i)) = t /\ Tail(q(i)) = response_queue[i]
    BY <1>2, <1>6, CarryAndQueue
  <2>3. /\ t \in Own(i) /\ phase[t] = "begin_resp"
        /\ Queue(Own(i), phase', response_queue[i], "begin_resp")
        /\ Earliest(Own(i), phase, "begin_resp", t)
    <3>1. /\ phase \in [Txns -> Phases] /\ Own(i) \in SUBSET Txns
          /\ Queue(Own(i), phase, q(i), "begin_resp")
      BY <1>1 DEF LinkInv, TracksOK
    <3> HIDE DEF t, q
    <3>2. Pops(q(i), t, response_queue[i])
      BY <2>2 DEF Pops
    <3>3. /\ t \in Own(i) /\ phase[t] = "begin_resp"
          /\ Earliest(Own(i), phase, "begin_resp", t)
      BY <3>1, <3>2, QueuePop
    <3>4. phase'[t] # "begin_resp" /\ \A u \in Own(i) : u # t => phase'[u] = phase[u]
      BY <2>1, <3>1, <3>3
    <3> QED BY <3>1, <3>2, <3>3, <3>4, QueuePop
  <2> HIDE DEF t, q
  <2>4. /\ t \in Txns /\ "end_resp" \in Phases
        /\ \A j \in Initiators : j # i => t \notin Own(j)
    BY <1>1, <2>3 DEF Own, Phases
  <2>5. /\ phase' \in [Txns -> Phases] /\ LinkPhase' = [LinkPhase EXCEPT ![t] = "end_resp"]
        /\ phase'[t] = "end_resp" /\ \A u \in Txns : u # t => phase'[u] = phase[u]
    BY <1>1, <1>2, <2>1, <2>4, Stamp
  <2>6. NotIssued'
    BY <1>1, <2>1, <2>3, <2>4, StampIssued
  <2>7. ASSUME NEW j \in Initiators PROVE Queue(Own(j)', phase', pending'[j], "pending")
    BY <1>1, <1>2, <2>1, <2>3, <2>4, QueueKept DEF LinkInv, TracksOK
  <2>8. Queue(Txns', phase', Accepted', "end_req")
    BY <1>1, <1>2, <2>1, <2>3, <2>4, QueueKept DEF LinkInv, TracksOK
  <2>9. ASSUME NEW j \in Initiators
        PROVE  Queue(Own(j)', phase', responding'[j] \o response_queue'[j], "begin_resp")
    <3>1. CASE j = i
      BY <1>1, <1>3, <2>3, <3>1
    <3>2. CASE j # i
      <4>1. Queue(Own(j), phase, q(j), "begin_resp") /\ t \notin Own(j)
        BY <2>4, <3>2 DEF LinkInv, q
      <4>2. Queue(Own(j), phase', q(j), "begin_resp")
        BY <1>1, <1>2, <2>1, <2>4, <4>1, QueueKept DEF TracksOK
      <4> QED BY <1>1, <1>3, <3>2, <4>2 DEF q
    <3> QED BY <3>1, <3>2
  <2>10. UpstreamBegun'
    BY <1>1, <2>3, <2>5 DEF LinkInv, UpstreamBegun
  <2>11. LinkEndResp(t)
    BY <1>1, <2>3, <2>4, <2>5 DEF LinkEndResp, LinkPhase
  <2>12. Ordered'
    <3>1. Rank("end_resp") = Rank(phase[t]) + 1 /\ OptOK /\ Ordered
      BY <2>3, RankFacts DEF FabricInv, LinkInv
    <3>2. Earliest(Txns, phase, phase[t], t)
      BY <2>3 DEF Own, Earliest
    <3> QED BY <1>1, <1>2, <2>1, <2>4, <3>1, <3>2, Advance
  <2> QED
    BY <1>1, <1>4, <2>4, <2>5, <2>6, <2>7, <2>8, <2>9, <2>10, <2>11, <2>12
    DEF LinkInv, LinkStep
<1> QED BY <1>5, <1>6

(* A grant is the link's BEGIN_REQ: the link is free, so nothing is        *)
(* upstream of the target.                                                 *)
LEMMA GrantLink ==
  ASSUME FabricInv, LinkInv, ~downstream_pending, NEW choice, choice.winner \in HasPending,
         Grant(choice), UNCHANGED <<opt, next_txn, response_queue, responding>>
  PROVE  LinkInv' /\ LinkStep
<1> DEFINE w == choice.winner
           t == Head(pending[w])
<1>1. /\ UNCHANGED <<accepting, service_queue, servicing>>
      /\ Txns' = Txns /\ Accepted' = Accepted
      /\ \A j \in Initiators : Own(j)' = Own(j) /\ Own(j) \in SUBSET Txns
      /\ TracksOK
  BY DEF Grant, TargetBeginReq, Txns, Accepted, Own, LinkInv
<1>2. w \in Initiators /\ pending \in [Initiators -> Seq(Txns)] /\ pending[w] # <<>>
  BY DEF HasPending, FabricInv, QueuesOK
<1>3. /\ phase' = [phase EXCEPT ![t] = "begin_req"]
      /\ pending' = [pending EXCEPT ![w] = Tail(pending[w])]
      /\ TargetBeginReq(t)
  BY DEF Grant
<1>4. /\ t \in Own(w) /\ phase[t] = "pending"
      /\ Queue(Own(w), phase', Tail(pending[w]), "pending")
      /\ Earliest(Own(w), phase, "pending", t)
  <2>1. /\ phase \in [Txns -> Phases] /\ Own(w) \in SUBSET Txns
        /\ Queue(Own(w), phase, pending[w], "pending")
    BY <1>1, <1>2 DEF LinkInv, TracksOK
  <2> DEFINE r == Tail(pending[w])
  <2>2. Pops(pending[w], t, r)
    BY <1>2 DEF Pops
  <2> HIDE DEF t, r, w
  <2>3. t \in Own(w) /\ phase[t] = "pending" /\ Earliest(Own(w), phase, "pending", t)
    BY <2>1, <2>2, QueuePop
  <2>4. phase'[t] # "pending" /\ \A u \in Own(w) : u # t => phase'[u] = phase[u]
    BY <1>3, <2>1, <2>3
  <2>5. Queue(Own(w), phase', r, "pending")
    BY <2>1, <2>2, <2>4, QueuePop
  <2> QED BY <2>3, <2>5 DEF r
<1> HIDE DEF t, w
<1>5. /\ t \in Txns /\ "begin_req" \in Phases
      /\ \A j \in Initiators : j # w => t \notin Own(j)
  BY <1>1, <1>2, <1>4 DEF Own, Phases
<1>6. /\ phase' \in [Txns -> Phases] /\ LinkPhase' = [LinkPhase EXCEPT ![t] = "begin_req"]
      /\ phase'[t] = "begin_req" /\ \A u \in Txns : u # t => phase'[u] = phase[u]
  BY <1>1, <1>3, <1>5, Stamp
<1>7. waiting_accept_queue = <<>> /\ end_req_queue = <<>> /\ accepting = <<>>
  <2>1. /\ waiting_accept_queue \in Seq(Txns) /\ end_req_queue \in Seq(Txns)
        /\ accepting \in Seq(Txns)
    BY DEF FabricInv, QueuesOK, TargetTypeOK
  <2>2. /\ Len(waiting_accept_queue) \in Nat /\ Len(end_req_queue) \in Nat
        /\ Len(accepting) \in Nat
    BY <2>1, LenProperties
  <2>3. Len(waiting_accept_queue) + Len(end_req_queue) + Len(accepting) = 0
    BY DEF FabricInv, OneUpstream
  <2>4. /\ Len(waiting_accept_queue) = 0 /\ Len(end_req_queue) = 0 /\ Len(accepting) = 0
    BY <2>2, <2>3
  <2> QED BY <2>1, <2>4, EmptySeq
<1>8. Elems(<<>>) = {} /\ Elems(<<t>>) = {t}
  BY DEF Elems
<1>9. Elems(waiting_accept_queue') \cup Elems(end_req_queue') \cup Elems(accepting') = {t}
  <2>1. CASE HasFreeSlot
    <3>1. /\ waiting_accept_queue' = <<>> /\ end_req_queue' = <<t>> /\ accepting' = <<>>
      BY <1>1, <1>3, <1>7, <2>1 DEF TargetBeginReq
    <3> QED BY <1>8, <3>1
  <2>2. CASE ~HasFreeSlot
    <3>1. /\ waiting_accept_queue' = <<t>> /\ end_req_queue' = <<>> /\ accepting' = <<>>
      BY <1>1, <1>3, <1>7, <2>2 DEF TargetBeginReq
    <3> QED BY <1>8, <3>1
  <2> QED BY <2>1, <2>2
<1>10. \A u \in Txns : phase[u] # "begin_req"
  BY <1>7, <1>8 DEF LinkInv, UpstreamBegun
<1>11. UpstreamBegun'
  BY <1>1, <1>6, <1>9, <1>10 DEF UpstreamBegun
<1>12. NotIssued'
  BY <1>3, <1>4, <1>5, StampIssued
<1>13. ASSUME NEW j \in Initiators PROVE Queue(Own(j)', phase', pending'[j], "pending")
  <2>1. CASE j = w
    BY <1>1, <1>2, <1>3, <1>4, <2>1
  <2>2. CASE j # w
    <3>1. pending'[j] = pending[j] /\ Queue(Own(j), phase, pending[j], "pending")
      BY <1>2, <1>3, <2>2 DEF LinkInv
    <3> QED BY <1>1, <1>3, <1>5, <2>2, <3>1, QueueKept DEF TracksOK
  <2> QED BY <2>1, <2>2
<1>14. Queue(Txns', phase', Accepted', "end_req")
  BY <1>1, <1>3, <1>4, <1>5, QueueKept DEF LinkInv, TracksOK
<1>15. ASSUME NEW j \in Initiators
       PROVE  Queue(Own(j)', phase', responding'[j] \o response_queue'[j], "begin_resp")
  BY <1>1, <1>3, <1>4, <1>5, QueueKept DEF LinkInv, TracksOK
<1>16. TracksOK'
  BY <1>1, <1>6 DEF TracksOK
<1>17. LinkBeginReq(t)
  <2>1. LinkPhase[t] = "idle" /\ \A u \in Txns : LinkPhase[u] # "begin_req"
    BY <1>4, <1>5, <1>10 DEF LinkPhase
  <2> QED BY <1>1, <1>6, <2>1 DEF LinkBeginReq
<1>18. Ordered'
  <2>1. Rank("begin_req") = Rank(phase[t]) + 1 /\ OptOK /\ Ordered
    BY <1>4, RankFacts DEF FabricInv, LinkInv
  <2>2. Earliest(Txns, phase, phase[t], t)
    BY <1>2, <1>4 DEF Own, Earliest
  <2> QED BY <1>1, <1>3, <1>5, <2>1, <2>2, Advance
<1> QED
  BY <1>5, <1>11, <1>12, <1>13, <1>14, <1>15, <1>16, <1>17, <1>18 DEF LinkInv, LinkStep

(* A grant hands the earliest pending transaction of the initiator to the  *)
(* target, or none.                                                        *)
LEMMA ArbitrateLink ==
  ASSUME FabricInv, LinkInv, NEW choice, Sound(choice), ArbitrateRequests(choice)
  PROVE  LinkInv' /\ LinkStep
<1>1. UNCHANGED <<opt, next_txn, response_queue, responding>>
  BY DEF ArbitrateRequests, issuers, responders
<1>2. CASE downstream_pending \/ HasPending = {}
  <2>1. UNCHANGED <<phase, pending, waiting_accept_queue, end_req_queue, accepting,
                    service_queue, servicing>>
    BY <1>2 DEF ArbitrateRequests, interconnect, target
  <2> QED BY <1>1, <2>1, ElsewhereLink
<1>3. CASE ~downstream_pending /\ HasPending # {}
  <2>1. choice.winner \in HasPending /\ choice.winner # None
    BY <1>3 DEF Sound, HasPending, Initiators, None
  <2>2. Grant(choice)
    BY <1>3, <2>1 DEF ArbitrateRequests
  <2> QED BY <1>1, <1>3, <2>1, <2>2, GrantLink
<1> QED BY <1>2, <1>3

(* The sequences of the target, and how many requests they hold.           *)
LEMMA TargetLengths ==
  ASSUME FabricInv
  PROVE  /\ waiting_accept_queue \in Seq(Txns) /\ end_req_queue \in Seq(Txns)
         /\ accepting \in Seq(Txns) /\ Len(accepting) <= 1
         /\ service_queue \in Seq(Txns)
         /\ servicing \in Seq(Txns) /\ Len(servicing) <= 1
         /\ accepting # <<>> => /\ waiting_accept_queue = <<>> /\ end_req_queue = <<>>
                                /\ Len(servicing \o service_queue) < opt.queue_depth
<1>1. /\ waiting_accept_queue \in Seq(Txns) /\ end_req_queue \in Seq(Txns)
      /\ accepting \in Seq(Txns) /\ Len(accepting) <= 1
      /\ service_queue \in Seq(Txns)
      /\ servicing \in Seq(Txns) /\ Len(servicing) <= 1
      /\ occupied_slots \in Nat /\ opt.queue_depth \in Nat
  BY DEF FabricInv, QueuesOK, TargetTypeOK, OptOK
<1>2. /\ Len(waiting_accept_queue) \in Nat /\ Len(end_req_queue) \in Nat
      /\ Len(accepting) \in Nat /\ Len(service_queue) \in Nat /\ Len(servicing) \in Nat
  BY <1>1, LenProperties
<1>3. ASSUME accepting # <<>>
      PROVE  /\ waiting_accept_queue = <<>> /\ end_req_queue = <<>>
             /\ Len(servicing \o service_queue) < opt.queue_depth
  <2>1. Len(accepting) = 1
    BY <1>1, <1>3, AtMostOne
  <2>2. Len(waiting_accept_queue) + Len(end_req_queue) + Len(accepting) <= 1
    BY <1>2 DEF FabricInv, OneUpstream
  <2>3. Len(waiting_accept_queue) = 0 /\ Len(end_req_queue) = 0
    BY <1>2, <2>1, <2>2
  <2>4. waiting_accept_queue = <<>> /\ end_req_queue = <<>>
    BY <1>1, <2>3, EmptySeq
  <2>5. Len(servicing \o service_queue) = Len(servicing) + Len(service_queue)
    BY <1>1, ConcatProperties
  <2>6. Len(servicing) + Len(service_queue) + 1 + 0 <= opt.queue_depth
    BY <2>1, <2>3 DEF FabricInv, Counted
  <2> QED BY <1>1, <1>2, <2>4, <2>5, <2>6
<1> QED BY <1>1, <1>3

(* END_REQ moves the upstream request to the accepted ones.                *)
LEMMA EndRequestLink ==
  ASSUME FabricInv, LinkInv, SendEndRequests
  PROVE  LinkInv' /\ LinkStep
<1>1. /\ UNCHANGED <<opt, next_txn, pending, response_queue, responding, servicing,
                     waiting_accept_queue>>
      /\ service_queue' = service_queue \o accepting
      /\ Txns' = Txns /\ TracksOK
      /\ \A j \in Initiators : Own(j)' = Own(j) /\ Own(j) \in SUBSET Txns
  BY DEF SendEndRequests, TargetSendEndRequest, issuers, responders, Txns, Own, LinkInv
<1>2. /\ waiting_accept_queue \in Seq(Txns) /\ end_req_queue \in Seq(Txns)
      /\ accepting \in Seq(Txns) /\ Len(accepting) <= 1
      /\ service_queue \in Seq(Txns) /\ servicing \in Seq(Txns)
  BY TargetLengths
<1>3. Elems(accepting') \cup Elems(end_req_queue') = Elems(end_req_queue)
  <2>1. CASE end_req_queue = <<>>
    <3>1. accepting' = <<>> /\ end_req_queue' = <<>>
      BY <2>1 DEF SendEndRequests, TargetSendEndRequest, PopEndRequest
    <3> QED BY <2>1, <3>1
  <2>2. CASE end_req_queue # <<>>
    <3> DEFINE h == Head(end_req_queue)
               r == Tail(end_req_queue)
    <3>1. accepting' = <<h>> /\ end_req_queue' = r
      BY <2>2 DEF SendEndRequests, TargetSendEndRequest, PopEndRequest
    <3>2. Elems(end_req_queue) = {h} \cup Elems(r) /\ Elems(<<h>>) = {h}
      BY <1>2, <2>2, ElemsFacts
    <3> HIDE DEF h, r
    <3> QED BY <3>1, <3>2
  <2> QED BY <2>1, <2>2
<1>4. CASE accepting = <<>>
  <2>1. phase' = phase /\ service_queue' = service_queue
    <3>1. service_queue \o <<>> = service_queue
      BY <1>2
    <3> QED BY <1>1, <1>4, <3>1 DEF SendEndRequests
  <2>2. LinkPhase' = LinkPhase /\ Accepted' = Accepted
    BY <1>1, <2>1 DEF LinkPhase, Accepted
  <2>3. UpstreamBegun'
    <3>1. Elems(accepting) = {}
      BY <1>4 DEF Elems
    <3> QED BY <1>1, <1>3, <2>1, <3>1 DEF LinkInv, UpstreamBegun
  <2>4. NotIssued' /\ Ordered' /\ TracksOK'
    BY <1>1, <2>1 DEF LinkInv, NotIssued, Ordered, TracksOK, Issued
  <2>5. LinkInv'
    BY <1>1, <2>1, <2>2, <2>3, <2>4 DEF LinkInv
  <2> QED BY <1>1, <2>2, <2>5 DEF LinkStep
<1>5. CASE accepting # <<>>
  <2> DEFINE t == Head(accepting)
  <2>1. phase' = [phase EXCEPT ![t] = "end_req"]
    BY <1>5 DEF SendEndRequests, BackwardEndReq
  <2>2. accepting = <<t>> /\ t \in Txns
    <3>1. Len(accepting) = 1 /\ t \in Txns
      BY <1>2, <1>5, AtMostOne, HeadTailProperties
    <3> QED BY <1>2, <3>1
  <2>3. /\ waiting_accept_queue = <<>> /\ end_req_queue = <<>>
        /\ Len(Accepted) < opt.queue_depth
    BY <1>5, TargetLengths DEF Accepted
  <2> HIDE DEF t
  <2>4. Elems(<<t>>) = {t} /\ Elems(<<>>) = {}
    BY DEF Elems
  <2>5. \A u \in Txns : phase[u] = "begin_req" <=> u = t
    BY <2>2, <2>3, <2>4 DEF LinkInv, UpstreamBegun
  <2>6. "end_req" \in Phases /\ phase[t] = "begin_req"
    BY <2>2, <2>5 DEF Phases
  <2>7. /\ phase' \in [Txns -> Phases] /\ LinkPhase' = [LinkPhase EXCEPT ![t] = "end_req"]
        /\ phase'[t] = "end_req" /\ \A u \in Txns : u # t => phase'[u] = phase[u]
    BY <1>1, <2>1, <2>2, <2>6, Stamp
  <2>8. Accepted' = Append(Accepted, t)
    <3>1. Accepted' = servicing \o (service_queue \o <<t>>)
      BY <1>1, <2>2 DEF Accepted
    <3>2. <<t>> \in Seq(Txns) /\ servicing \o service_queue \in Seq(Txns)
      BY <1>2, <2>2, ConcatProperties
    <3>3. (servicing \o service_queue) \o <<t>> = servicing \o (service_queue \o <<t>>)
      BY <1>2, <3>2, ConcatAssociative
    <3>4. Append(servicing \o service_queue, t) = (servicing \o service_queue) \o <<t>>
      BY <2>2, <3>2, AppendIsConcat
    <3> QED BY <3>1, <3>3, <3>4 DEF Accepted
  <2>9. UpstreamBegun'
    <3>1. Elems(waiting_accept_queue') \cup Elems(end_req_queue') \cup Elems(accepting') = {}
      BY <1>1, <1>3, <2>3, <2>4
    <3> QED BY <1>1, <2>5, <2>7, <3>1 DEF UpstreamBegun
  <2>10. NotIssued'
    BY <1>1, <2>1, <2>2, <2>6, StampIssued
  <2>11. Queue(Txns', phase', Accepted', "end_req")
    <3>1. Queue(Txns, phase, Accepted, "end_req") /\ Txns \in SUBSET Txns
          /\ phase \in [Txns -> Phases] /\ phase[t] # "end_req"
      BY <1>1, <2>6 DEF LinkInv, TracksOK
    <3>2. \A u \in Txns : (phase[u] = "end_req" /\ u[1] = t[1]) => u[2] < t[2]
      <4>1. OptOK /\ Ordered /\ Rank(phase[t]) < Rank("end_req")
        BY <2>6, RankFacts DEF FabricInv, LinkInv
      <4> QED BY <1>1, <2>2, <2>6, <4>1, LeadersAreEarlier
    <3> QED BY <1>1, <2>1, <2>2, <2>8, <3>1, <3>2, QueuePush
  <2>12. ASSUME NEW j \in Initiators
         PROVE  /\ Queue(Own(j)', phase', pending'[j], "pending")
                /\ Queue(Own(j)', phase', responding'[j] \o response_queue'[j], "begin_resp")
    BY <1>1, <2>1, <2>2, <2>6, QueueKept DEF LinkInv, TracksOK
  <2>13. TracksOK'
    BY <1>1, <2>7 DEF TracksOK
  <2>14. LinkEndReq(t)
    BY <2>2, <2>3, <2>6, <2>7, <2>8 DEF LinkEndReq, LinkPhase
  <2>15. Ordered'
    <3>1. Rank("end_req") = Rank(phase[t]) + 1 /\ OptOK /\ Ordered
      BY <2>6, RankFacts DEF FabricInv, LinkInv
    <3>2. Earliest(Txns, phase, phase[t], t)
      BY <2>5, <2>6 DEF Earliest
    <3> QED BY <1>1, <2>1, <2>2, <2>6, <3>1, <3>2, Advance
  <2> QED
    BY <1>1, <2>2, <2>9, <2>10, <2>11, <2>12, <2>13, <2>14, <2>15 DEF LinkInv, LinkStep
<1> QED BY <1>4, <1>5

(* BEGIN_RESP takes the oldest accepted request to its initiator; the      *)
(* release of its slot moves the waiting request, still upstream.          *)
LEMMA ServiceLink ==
  ASSUME FabricInv, LinkInv, FabricInv', ServiceRequests
  PROVE  LinkInv' /\ LinkStep
<1>1. /\ UNCHANGED <<opt, next_txn, pending, responding, accepting>>
      /\ TargetServiceRequest
      /\ Txns' = Txns /\ TracksOK
      /\ \A j \in Initiators : Own(j)' = Own(j) /\ Own(j) \in SUBSET Txns
  BY DEF ServiceRequests, TargetServiceRequest, issuers, interconnect, Txns, Own, LinkInv,
     FabricInv, Abort
<1>2. /\ waiting_accept_queue \in Seq(Txns) /\ end_req_queue \in Seq(Txns)
      /\ service_queue \in Seq(Txns) /\ servicing \in Seq(Txns) /\ Len(servicing) <= 1
  BY TargetLengths
<1>3. Accepted' = service_queue
  <2>1. CASE service_queue = <<>>
    <3>1. servicing' = <<>> /\ service_queue' = <<>> /\ <<>> \o <<>> = <<>>
      BY <1>1, <2>1 DEF TargetServiceRequest, PopService
    <3> QED BY <2>1, <3>1 DEF Accepted
  <2>2. CASE service_queue # <<>>
    <3>1. servicing' = <<Head(service_queue)>> /\ service_queue' = Tail(service_queue)
      BY <1>1, <2>2 DEF TargetServiceRequest, PopService
    <3>2. <<Head(service_queue)>> \o Tail(service_queue) = service_queue
      BY <1>2, <2>2
    <3> QED BY <3>1, <3>2 DEF Accepted
  <2> QED BY <2>1, <2>2
<1>4. CASE servicing = <<>>
  <2>1. UNCHANGED <<phase, response_queue, waiting_accept_queue, end_req_queue>>
    BY <1>1, <1>4 DEF ServiceRequests, TargetServiceRequest, OccupancyUnderflow
  <2>2. Accepted' = Accepted
    <3>1. <<>> \o service_queue = service_queue
      BY <1>2
    <3> QED BY <1>3, <1>4, <3>1 DEF Accepted
  <2>3. LinkPhase' = LinkPhase
    BY <1>1, <2>1 DEF LinkPhase
  <2>4. LinkInv'
    BY <1>1, <2>1, <2>2
    DEF LinkInv, NotIssued, Ordered, TracksOK, UpstreamBegun, Issued
  <2> QED BY <1>1, <2>2, <2>3, <2>4 DEF LinkStep
<1>5. CASE servicing # <<>>
  <2> DEFINE t == Head(servicing)
             i == t[1]
  <2>1. /\ phase' = [phase EXCEPT ![t] = "begin_resp"]
        /\ response_queue' = [response_queue EXCEPT ![i] = Append(response_queue[i], t)]
    BY <1>5 DEF ServiceRequests, BackwardBeginResp, FabricInv, Abort
  <2>2. Pops(Accepted, t, Accepted')
    BY <1>2, <1>3, <1>5, CarryAndQueue DEF Pops, Accepted
  <2>3. /\ t \in Txns /\ phase[t] = "end_req"
        /\ Queue(Txns, phase', Accepted', "end_req")
        /\ Earliest(Txns, phase, "end_req", t)
    <3> HIDE DEF t
    <3>1. /\ Queue(Txns, phase, Accepted, "end_req") /\ Txns \in SUBSET Txns
          /\ phase \in [Txns -> Phases]
      BY <1>1 DEF LinkInv, TracksOK
    <3>2. t \in Txns /\ phase[t] = "end_req" /\ Earliest(Txns, phase, "end_req", t)
      BY <2>2, <3>1, QueuePop
    <3>3. phase'[t] # "end_req" /\ \A u \in Txns : u # t => phase'[u] = phase[u]
      BY <2>1, <3>1, <3>2
    <3> QED BY <2>2, <3>1, <3>2, <3>3, QueuePop
  <2>4. i \in Initiators /\ t \in Own(i) /\ \A j \in Initiators : j # i => t \notin Own(j)
    BY <2>3 DEF Own, Txns
  <2> HIDE DEF t, i
  <2>5. "begin_resp" \in Phases
    BY DEF Phases
  <2>6. /\ phase' \in [Txns -> Phases] /\ LinkPhase' = [LinkPhase EXCEPT ![t] = "begin_resp"]
        /\ phase'[t] = "begin_resp" /\ \A u \in Txns : u # t => phase'[u] = phase[u]
    BY <1>1, <2>1, <2>3, <2>5, Stamp
  <2>7. NotIssued'
    BY <1>1, <2>1, <2>3, <2>5, StampIssued
  <2>8. UpstreamBegun'
    <3>1. /\ Admitted = waiting_accept_queue
          /\ end_req_queue' = end_req_queue \o Admitted
          /\ waiting_accept_queue' = SubSeq(waiting_accept_queue, Len(Admitted) + 1,
                                            Len(waiting_accept_queue))
      BY <1>1, <1>5, AdmittedIsWaiting DEF TargetServiceRequest, ReleaseSlot
    <3>2. waiting_accept_queue' = <<>>
      BY <1>2, <3>1, LenProperties
    <3>3. Elems(end_req_queue') = Elems(end_req_queue) \cup Elems(waiting_accept_queue)
      BY <1>2, <3>1, ElemsFacts
    <3>4. Elems(waiting_accept_queue') = {}
      BY <3>2 DEF Elems
    <3> QED BY <1>1, <2>3, <2>6, <3>3, <3>4 DEF LinkInv, UpstreamBegun
  <2>9. ASSUME NEW j \in Initiators PROVE Queue(Own(j)', phase', pending'[j], "pending")
    BY <1>1, <2>1, <2>3, QueueKept DEF LinkInv, TracksOK
  <2>10. ASSUME NEW j \in Initiators
         PROVE  Queue(Own(j)', phase', responding'[j] \o response_queue'[j], "begin_resp")
    <3> DEFINE q == responding[j] \o response_queue[j]
    <3>1. /\ Queue(Own(j), phase, q, "begin_resp") /\ phase \in [Txns -> Phases]
          /\ response_queue \in [Initiators -> Seq(Txns)]
          /\ responding[j] \in Seq(Txns) /\ response_queue[j] \in Seq(Txns)
      BY <1>1 DEF LinkInv, TracksOK
    <3>2. CASE j = i
      <4>1. responding'[j] \o response_queue'[j]
              = responding[j] \o Append(response_queue[j], t)
        BY <1>1, <2>1, <2>4, <3>1, <3>2
      <4>2. /\ Append(response_queue[j], t) = response_queue[j] \o <<t>>
            /\ Append(q, t) = q \o <<t>> /\ <<t>> \in Seq(Txns)
            /\ q \o <<t>> = responding[j] \o (response_queue[j] \o <<t>>)
        <5>1. <<t>> \in Seq(Txns) /\ q \in Seq(Txns)
          BY <2>3, <3>1, ConcatProperties
        <5>2. q \o <<t>> = responding[j] \o (response_queue[j] \o <<t>>)
          <6> DEFINE a == responding[j]
                     b == response_queue[j]
                     c == <<t>>
          <6>1. a \in Seq(Txns) /\ b \in Seq(Txns) /\ c \in Seq(Txns)
            BY <3>1, <5>1
          <6> HIDE DEF a, b, c
          <6>2. (a \o b) \o c = a \o (b \o c)
            BY <6>1, ConcatAssociative
          <6> QED BY <6>2 DEF a, b, c
        <5>3. Append(response_queue[j], t) = response_queue[j] \o <<t>>
          BY <2>3, <3>1, AppendIsConcat
        <5> HIDE DEF q
        <5>4. Append(q, t) = q \o <<t>>
          BY <2>3, <5>1, AppendIsConcat
        <5> QED BY <5>1, <5>2, <5>3, <5>4
      <4> HIDE DEF q
      <4>3. Queue(Own(j), phase', Append(q, t), "begin_resp")
        <5>1. OptOK /\ Ordered /\ Rank(phase[t]) < Rank("begin_resp")
          BY <2>3, RankFacts DEF FabricInv, LinkInv
        <5>2. \A u \in Own(j) : (phase[u] = "begin_resp" /\ u[1] = t[1]) => u[2] < t[2]
          BY <1>1, <2>3, <2>5, <5>1, LeadersAreEarlier
        <5> QED BY <1>1, <2>1, <2>3, <2>4, <3>1, <3>2, <5>2, QueuePush
      <4> QED BY <1>1, <4>1, <4>2, <4>3
    <3>3. CASE j # i
      <4>1. responding'[j] \o response_queue'[j] = q
        BY <1>1, <2>1, <3>1, <3>3
      <4> HIDE DEF q
      <4>2. Queue(Own(j), phase', q, "begin_resp")
        BY <1>1, <2>1, <2>3, <2>4, <3>1, <3>3, QueueKept
      <4> QED BY <1>1, <4>1, <4>2
    <3> QED BY <3>2, <3>3
  <2>11. TracksOK'
    <3>1. Append(response_queue[i], t) \in Seq(Txns)
      BY <1>1, <2>3, <2>4, AppendProperties DEF TracksOK
    <3>2. response_queue' \in [Initiators -> Seq(Txns)]
      BY <1>1, <2>1, <2>4, <3>1 DEF TracksOK
    <3> QED BY <1>1, <2>6, <3>2 DEF TracksOK
  <2>12. LinkBeginResp(t)
    <3>1. Accepted # <<>> /\ t = Head(Accepted) /\ Accepted' = Tail(Accepted)
      BY <2>2 DEF Pops
    <3> QED BY <2>6, <3>1 DEF LinkBeginResp
  <2>13. Ordered'
    <3>1. Rank("begin_resp") = Rank(phase[t]) + 1 /\ OptOK /\ Ordered
      BY <2>3, RankFacts DEF FabricInv, LinkInv
    <3>2. Earliest(Txns, phase, phase[t], t)
      BY <2>3
    <3> QED BY <1>1, <2>1, <2>3, <2>5, <3>1, <3>2, Advance
  <2> QED
    BY <1>1, <2>3, <2>7, <2>8, <2>9, <2>10, <2>11, <2>12, <2>13 DEF LinkInv, LinkStep
<1> QED BY <1>4, <1>5

(* Top, the scheduler and a step that changes nothing leave every          *)
(* transaction in its place.                                               *)
LEMMA OtherLink ==
  ASSUME LinkInv, StopWhenDone \/ Scheduler \/ UNCHANGED vars
  PROVE  LinkInv' /\ LinkStep
<1>1. UNCHANGED <<opt, next_txn, phase, pending, waiting_accept_queue, end_req_queue,
                  accepting, service_queue, servicing, response_queue, responding>>
  BY DEF StopWhenDone, Scheduler, vars, target, issuers, responders, interconnect
<1> QED BY <1>1, ElsewhereLink

-----------------------------------------------------------------------------
(* No element of s comes twice.                                            *)
Once(s) == \A m, n \in 1..Len(s) : s[m] = s[n] => m = n

(* The sequence s holds the transactions of the set P, each of them once.  *)
Holds(s, P) == s \in Seq(Txns) /\ Once(s) /\ Elems(s) = P

(* Two queues that have nothing in common, one behind the other.           *)
LEMMA Joined ==
  ASSUME NEW S, NEW s \in Seq(S), NEW r \in Seq(S), Once(s), Once(r),
         Elems(s) \cap Elems(r) = {}
  PROVE  /\ s \o r \in Seq(S) /\ Once(s \o r)
         /\ Elems(s \o r) = Elems(s) \cup Elems(r)
<1> DEFINE a == s \o r
<1>1. /\ a \in Seq(S) /\ Len(s) \in Nat /\ Len(r) \in Nat /\ Len(a) = Len(s) + Len(r)
      /\ \A n \in 1..(Len(s) + Len(r)) : a[n] = IF n <= Len(s) THEN s[n] ELSE r[n - Len(s)]
  BY ConcatProperties, LenProperties
<1>2. Elems(a) = Elems(s) \cup Elems(r)
  BY ElemsFacts
<1> HIDE DEF a
<1>3. ASSUME NEW n \in 1..Len(a)
      PROVE  \/ n \in 1..Len(s) /\ a[n] = s[n] /\ a[n] \in Elems(s)
             \/ n - Len(s) \in 1..Len(r) /\ a[n] = r[n - Len(s)] /\ a[n] \in Elems(r)
  <2>1. CASE n <= Len(s)
    BY <1>1, <2>1 DEF Elems
  <2>2. CASE ~(n <= Len(s))
    <3>1. n - Len(s) \in 1..Len(r) /\ a[n] = r[n - Len(s)]
      BY <1>1, <2>2
    <3> QED BY <3>1 DEF Elems
  <2> QED BY <2>1, <2>2
<1>4. ASSUME NEW m \in 1..Len(a), NEW n \in 1..Len(a), a[m] = a[n] PROVE m = n
  <2>1. CASE m \in 1..Len(s) /\ n \in 1..Len(s) /\ a[m] = s[m] /\ a[n] = s[n]
    BY <1>4, <2>1 DEF Once
  <2>2. CASE /\ m - Len(s) \in 1..Len(r) /\ n - Len(s) \in 1..Len(r)
             /\ a[m] = r[m - Len(s)] /\ a[n] = r[n - Len(s)]
    <3>1. m - Len(s) = n - Len(s)
      BY <1>4, <2>2 DEF Once
    <3> QED BY <1>1, <3>1
  <2>3. ~(a[m] \in Elems(s) /\ a[n] \in Elems(r)) /\ ~(a[m] \in Elems(r) /\ a[n] \in Elems(s))
    BY <1>4
  <2> QED BY <1>3, <2>1, <2>2, <2>3
<1> QED BY <1>1, <1>2, <1>4 DEF Once, a

(* Two queues that hold different transactions hold them all when joined.  *)
LEMMA HoldsJoined ==
  ASSUME NEW s, NEW r, NEW P, NEW Q, Holds(s, P), Holds(r, Q), P \cap Q = {}
  PROVE  Holds(s \o r, P \cup Q)
BY Joined DEF Holds

(* The places of a transaction between BEGIN_REQ and END_RESP, together.   *)
LEMMA PlacesJoined ==
  ASSUME FabricInv, LinkInv
  PROVE  Holds(InTransit, {t \in Txns : phase[t] \notin {"idle", "end_resp"}})
<1> DEFINE P(i) == {t \in Own(i) : phase[t] = "pending"}
           B    == {t \in Txns : phase[t] = "begin_req"}
           E    == {t \in Txns : phase[t] = "end_req"}
           R(i) == {t \in Own(i) : phase[t] = "begin_resp"}
           Back(i) == responding[i] \o response_queue[i]
<1>1. ASSUME NEW i \in Initiators PROVE Holds(pending[i], P(i))
  <2>1. pending[i] \in Seq(Txns) /\ Queue(Own(i), phase, pending[i], "pending")
    BY DEF FabricInv, QueuesOK, LinkInv
  <2> QED BY <2>1 DEF Holds, Queue, Once
<1>2. Holds(Upstream, B)
  <2>1. /\ waiting_accept_queue \in Seq(Txns) /\ end_req_queue \in Seq(Txns)
        /\ accepting \in Seq(Txns)
    BY DEF FabricInv, QueuesOK, TargetTypeOK
  <2>2. Len(Upstream) <= 1
    <3>1. OneDownstream
      BY PropertiesFollow
    <3> QED BY <3>1 DEF OneDownstream
  <2>3. /\ Upstream \in Seq(Txns)
        /\ Elems(Upstream) = Elems(waiting_accept_queue) \cup Elems(end_req_queue)
                               \cup Elems(accepting)
    <3> DEFINE we == waiting_accept_queue \o end_req_queue
    <3>1. /\ we \in Seq(Txns)
          /\ Elems(we) = Elems(waiting_accept_queue) \cup Elems(end_req_queue)
      BY <2>1, ElemsFacts, ConcatProperties
    <3>2. Upstream = we \o accepting
      BY DEF Upstream
    <3> HIDE DEF we
    <3>3. /\ we \o accepting \in Seq(Txns)
          /\ Elems(we \o accepting) = Elems(we) \cup Elems(accepting)
      BY <2>1, <3>1, ElemsFacts, ConcatProperties
    <3> QED BY <3>1, <3>2, <3>3
  <2>4. \A t \in Elems(Upstream) : t \in Txns
    BY <2>3 DEF Elems
  <2>5. Elems(Upstream) = B
    BY <2>3, <2>4 DEF LinkInv, UpstreamBegun
  <2>6. Once(Upstream)
    BY <2>2, <2>3, LenProperties DEF Once
  <2> QED BY <2>3, <2>5, <2>6 DEF Holds
<1>3. Holds(Accepted, E)
  BY DEF Holds, Queue, Once, LinkInv
<1>4. ASSUME NEW i \in Initiators PROVE Holds(Back(i), R(i))
  <2>1. Back(i) \in Seq(Txns) /\ Queue(Own(i), phase, Back(i), "begin_resp")
    BY ConcatProperties DEF LinkInv, TracksOK
  <2> QED BY <2>1 DEF Holds, Queue, Once
<1>5. 0 \in Initiators /\ 1 \in Initiators /\ 2 \in Initiators
  BY DEF Initiators
<1>6. InTransit = pending[0] \o pending[1] \o pending[2] \o Upstream \o Accepted
                    \o Back(0) \o Back(1) \o Back(2)
  BY DEF InTransit, Accepted
<1>7. /\ P(0) \cap P(1) = {} /\ (P(0) \cup P(1)) \cap P(2) = {}
      /\ R(0) \cap R(1) = {} /\ (R(0) \cup R(1)) \cap R(2) = {}
  BY DEF Own
<1>8. P(0) \cup P(1) \cup P(2) = {t \in Txns : phase[t] = "pending"}
  BY DEF Own, Txns, Initiators
<1>9. R(0) \cup R(1) \cup R(2) = {t \in Txns : phase[t] = "begin_resp"}
  BY DEF Own, Txns, Initiators
<1>10. \A i \in Initiators :
         /\ P(i) \subseteq {t \in Txns : phase[t] = "pending"}
         /\ R(i) \subseteq {t \in Txns : phase[t] = "begin_resp"}
  BY DEF Own
<1> HIDE DEF P, B, E, R, Back
<1> DEFINE p2 == pending[0] \o pending[1]
           p3 == p2 \o pending[2]
           u1 == p3 \o Upstream
           a1 == u1 \o Accepted
           r1 == a1 \o Back(0)
           r2 == r1 \o Back(1)
           r3 == r2 \o Back(2)
           Upto(X) == {t \in Txns : phase[t] \in X}
           U1 == Upto({"pending", "begin_req"})
           A1 == Upto({"pending", "begin_req", "end_req"})
<1>11. InTransit = r3
  BY <1>6
<1>12. Holds(p2, P(0) \cup P(1))
  BY <1>1, <1>5, <1>7, HoldsJoined
<1> HIDE DEF p2
<1>13. Holds(p3, P(0) \cup P(1) \cup P(2))
  BY <1>1, <1>5, <1>7, <1>12, HoldsJoined
<1> HIDE DEF p3
<1>14. Holds(u1, U1)
  <2>1. P(0) \cup P(1) \cup P(2) \cup B = U1 /\ (P(0) \cup P(1) \cup P(2)) \cap B = {}
    BY <1>8 DEF B
  <2>2. Holds(u1, P(0) \cup P(1) \cup P(2) \cup B)
    BY <1>2, <1>13, <2>1, HoldsJoined
  <2> QED BY <2>1, <2>2
<1> HIDE DEF u1
<1>15. Holds(a1, A1)
  <2>1. U1 \cup E = A1 /\ U1 \cap E = {}
    BY DEF E
  <2>2. Holds(a1, U1 \cup E)
    BY <1>3, <1>14, <2>1, HoldsJoined
  <2> QED BY <2>1, <2>2
<1> HIDE DEF a1
<1>16. A1 \cap R(0) = {} /\ (A1 \cup R(0)) \cap R(1) = {}
       /\ (A1 \cup R(0) \cup R(1)) \cap R(2) = {}
  <2>1. \A i \in Initiators : A1 \cap R(i) = {}
    BY <1>10
  <2> QED BY <1>5, <1>7, <2>1
<1>17. A1 \cup R(0) \cup R(1) \cup R(2)
         = {t \in Txns : phase[t] \notin {"idle", "end_resp"}}
  <2>1. \A t \in Txns : phase[t] \in Phases
    BY DEF LinkInv, TracksOK
  <2> QED BY <1>9, <2>1 DEF Phases
<1> HIDE DEF U1, A1
<1>18. Holds(r1, A1 \cup R(0))
  BY <1>4, <1>5, <1>15, <1>16, HoldsJoined
<1> HIDE DEF r1
<1>19. Holds(r2, A1 \cup R(0) \cup R(1))
  BY <1>4, <1>5, <1>16, <1>18, HoldsJoined
<1> HIDE DEF r2
<1>20. Holds(r3, A1 \cup R(0) \cup R(1) \cup R(2))
  BY <1>4, <1>5, <1>16, <1>19, HoldsJoined
<1> HIDE DEF r3
<1> QED BY <1>11, <1>17, <1>20

(* What the fabrics promise of every transaction follows.                  *)
LEMMA TrackedFollows == FabricInv /\ LinkInv => TransactionsTracked
<1> SUFFICES ASSUME FabricInv, LinkInv PROVE TransactionsTracked
  OBVIOUS
<1>1. OneDownstream
  BY PropertiesFollow
<1>2. InFlightOnce
  <2> DEFINE flying == {t \in Txns : phase[t] \notin {"idle", "end_resp"}}
  <2>1. InTransit \in Seq(Txns) /\ Once(InTransit) /\ Elems(InTransit) = flying
    BY PlacesJoined DEF Holds
  <2>2. DOMAIN InTransit = 1..Len(InTransit)
    BY <2>1, LenProperties
  <2>3. {InTransit[n] : n \in DOMAIN InTransit} = flying
    BY <2>1, <2>2 DEF Elems
  <2>4. \A m, n \in DOMAIN InTransit : InTransit[m] = InTransit[n] => m = n
    BY <2>1, <2>2 DEF Once
  <2> QED BY <2>3, <2>4 DEF InFlightOnce
<1>3. InitiatorOrder
  <2>1. ASSUME NEW i \in Initiators, NEW k \in 2..opt.num_transactions
        PROVE  Rank(phase[<<i, k - 1>>]) >= Rank(phase[<<i, k>>])
    <3>1. /\ k - 1 \in 1..opt.num_transactions /\ k \in 1..opt.num_transactions
          /\ k - 1 < k
      BY DEF FabricInv, OptOK
    <3>2. Rank(phase[<<i, k>>]) <= Rank(phase[<<i, k - 1>>])
      BY <3>1 DEF LinkInv, Ordered
    <3> QED BY <3>2
  <2> QED BY <2>1 DEF InitiatorOrder
<1> QED BY <1>1, <1>2, <1>3 DEF TransactionsTracked
=============================================================================
