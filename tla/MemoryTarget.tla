---------------------------- MODULE MemoryTarget ----------------------------
(***************************************************************************)
(* class MemoryTarget of the AT labs (AT-1, AT-2 and AT-3 share its code   *)
(* but for the records they fill): a memory with queue_depth slots that    *)
(* answers BEGIN_REQ with END_REQ after kAcceptLatencyNs, serves requests  *)
(* one at a time with BEGIN_RESP, and keeps the requests that find no free *)
(* slot until one is released.                                             *)
(*                                                                         *)
(* A transaction that a thread has popped and carries across its timed     *)
(* wait is kept in a sequence of at most one element, so the requests      *)
(* inside the target, oldest first, are                                    *)
(*   servicing \o service_queue \o accepting \o end_req_queue.             *)
(*                                                                         *)
(* The operators below are the target's half of a step; the module that    *)
(* composes it adds what the caller or the backward call does.             *)
(***************************************************************************)
EXTENDS SystemCKernel, Sequences

CONSTANT Ns   \* ticks per nanosecond: the resolution of the modelled times

ASSUME TargetAssumption == Ns \in Nat \ {0}

VARIABLES
  opt,                   \* the Options of the run, chosen before sc_start
  occupied_slots,
  waiting_accept_queue,
  end_req_queue,
  accepting,             \* popped by send_end_requests, END_REQ not sent yet
  service_queue,
  servicing,             \* popped by service_requests, BEGIN_RESP not sent yet
  backpressure           \* the transactions whose record says backpressure

target == <<occupied_slots, waiting_accept_queue, end_req_queue, accepting,
            service_queue, servicing, backpressure>>

TargetThreads == {"target.send_end_requests", "target.service_requests"}
TargetEvents  == {"target.end_req_event", "target.service_event"}

TargetInit ==
  /\ occupied_slots = 0
  /\ waiting_accept_queue = <<>>
  /\ end_req_queue = <<>>
  /\ accepting = <<>>
  /\ service_queue = <<>>
  /\ servicing = <<>>
  /\ backpressure = {}

(* Mutant: the depth comparison admits one request too many.               *)
HasFreeSlot_OneTooMany == occupied_slots <= opt.queue_depth

HasFreeSlot == occupied_slots < opt.queue_depth

(* Mutant: accept_request does not count the slot it takes.                *)
TargetBeginReq_Uncounted(trans) ==
  /\ IF HasFreeSlot
       THEN /\ end_req_queue' = Append(end_req_queue, trans)
            /\ UNCHANGED <<waiting_accept_queue, backpressure>>
       ELSE /\ waiting_accept_queue' = Append(waiting_accept_queue, trans)
            /\ backpressure' = backpressure \cup {trans}
            /\ UNCHANGED end_req_queue
  /\ UNCHANGED <<occupied_slots, accepting, service_queue, servicing>>

(* nb_transport_fw with BEGIN_REQ, with accept_request inlined.            *)
TargetBeginReq(trans) ==
  /\ IF HasFreeSlot
       THEN /\ occupied_slots' = occupied_slots + 1
            /\ end_req_queue' = Append(end_req_queue, trans)
            /\ UNCHANGED <<waiting_accept_queue, backpressure>>
       ELSE /\ waiting_accept_queue' = Append(waiting_accept_queue, trans)
            /\ backpressure' = backpressure \cup {trans}
            /\ UNCHANGED <<occupied_slots, end_req_queue>>
  /\ UNCHANGED <<accepting, service_queue, servicing>>

TargetBeginReqEvents == IF HasFreeSlot THEN {"target.end_req_event"} ELSE {}

(* Mutant: the accepted request stays in the queue.                        *)
PopEndRequest_Kept ==
  IF end_req_queue # <<>>
    THEN /\ accepting' = <<Head(end_req_queue)>>
         /\ UNCHANGED end_req_queue
         /\ WaitTime("target.send_end_requests", Ns)
    ELSE /\ accepting' = <<>>
         /\ UNCHANGED end_req_queue
         /\ WaitEvent("target.send_end_requests", "target.end_req_event")

(* One iteration of send_end_requests: END_REQ for the popped request, if  *)
(* any, then the next one is popped or the thread waits for the event.     *)
PopEndRequest ==
  IF end_req_queue # <<>>
    THEN /\ accepting' = <<Head(end_req_queue)>>
         /\ end_req_queue' = Tail(end_req_queue)
         /\ WaitTime("target.send_end_requests", Ns)
    ELSE /\ accepting' = <<>>
         /\ UNCHANGED end_req_queue
         /\ WaitEvent("target.send_end_requests", "target.end_req_event")

TargetSendEndRequest ==
  /\ service_queue' = service_queue \o accepting
  /\ PopEndRequest
  /\ UNCHANGED <<occupied_slots, waiting_accept_queue, servicing, backpressure>>

TargetSendEndRequestEvents ==
  IF accepting = <<>> THEN {} ELSE {"target.service_event"}

(* Mutant: the release of a slot forgets the waiting requests.             *)
Admitted_Forgotten == <<>>

(* AT-3, the program whose options are weights, admits waiting requests in *)
(* a loop while there is a free slot; AT-1 and AT-2 admit one per release. *)
DrainAll == "weights" \in DOMAIN opt

(* try_accept_waiting_request(s): what the release of one slot admits.     *)
Admitted ==
  IF waiting_accept_queue = <<>> \/ occupied_slots - 1 >= opt.queue_depth
    THEN <<>>
    ELSE IF DrainAll
           THEN LET room == opt.queue_depth - (occupied_slots - 1)
                IN  SubSeq(waiting_accept_queue, 1,
                           IF room < Len(waiting_accept_queue)
                             THEN room ELSE Len(waiting_accept_queue))
           ELSE <<Head(waiting_accept_queue)>>

ReleaseSlot ==
  /\ occupied_slots' = occupied_slots - 1 + Len(Admitted)
  /\ waiting_accept_queue' = SubSeq(waiting_accept_queue, Len(Admitted) + 1,
                                    Len(waiting_accept_queue))
  /\ end_req_queue' = end_req_queue \o Admitted
  /\ backpressure' = backpressure \cup {Admitted[i] : i \in DOMAIN Admitted}

(* Mutant: the request that was served is not dropped before the next.     *)
PopService_Kept ==
  IF service_queue # <<>>
    THEN /\ servicing' = Append(servicing, Head(service_queue))
         /\ service_queue' = Tail(service_queue)
         /\ WaitTime("target.service_requests", opt.service_latency)
    ELSE /\ servicing' = <<>>
         /\ UNCHANGED service_queue
         /\ WaitEvent("target.service_requests", "target.service_event")

(* One iteration of service_requests: BEGIN_RESP for the served request,   *)
(* if any, the release of its slot, then the next one is popped.           *)
PopService ==
  IF service_queue # <<>>
    THEN /\ servicing' = <<Head(service_queue)>>
         /\ service_queue' = Tail(service_queue)
         /\ WaitTime("target.service_requests", opt.service_latency)
    ELSE /\ servicing' = <<>>
         /\ UNCHANGED service_queue
         /\ WaitEvent("target.service_requests", "target.service_event")

TargetServiceRequest ==
  /\ IF servicing = <<>>
       THEN UNCHANGED <<occupied_slots, waiting_accept_queue, end_req_queue,
                        backpressure>>
       ELSE ReleaseSlot
  /\ PopService
  /\ UNCHANGED accepting

TargetServiceRequestEvents ==
  IF servicing = <<>> \/ Admitted = <<>> THEN {} ELSE {"target.end_req_event"}

(* SC_REPORT_FATAL "target queue occupancy underflow".                     *)
OccupancyUnderflow == servicing # <<>> /\ occupied_slots = 0

Pipeline == servicing \o service_queue \o accepting \o end_req_queue

TargetTypeOK(txns) ==
  /\ occupied_slots \in Nat
  /\ waiting_accept_queue \in Seq(txns)
  /\ end_req_queue \in Seq(txns)
  /\ accepting \in Seq(txns) /\ Len(accepting) <= 1
  /\ service_queue \in Seq(txns)
  /\ servicing \in Seq(txns) /\ Len(servicing) <= 1
  /\ backpressure \in SUBSET txns

(***************************************************************************)
(* Properties of the target, stated for every module that composes it.     *)
(***************************************************************************)

(* Every occupied slot holds exactly one request of the pipeline, and the  *)
(* target never holds more requests than it has slots: the accounting of   *)
(* occupied_slots_ by three functions and two threads never drifts.        *)
SlotsAccounted ==
  /\ occupied_slots = Len(Pipeline)
  /\ occupied_slots <= opt.queue_depth

(* A request waits for acceptance only while every slot is taken: a        *)
(* release never leaves a waiting request behind with a free slot, although *)
(* AT-1 and AT-2 admit at most one request per release.                    *)
NoIdleSlot == waiting_accept_queue # <<>> => occupied_slots = opt.queue_depth

(* A target thread that sleeps on its event with work queued has a         *)
(* notification on its way: no delta-cycle wakeup is ever lost.            *)
NoLostWakeupInTarget ==
  /\ (waits["target.send_end_requests"] = "target.end_req_event"
        /\ end_req_queue # <<>>) => "target.end_req_event" \in notified
  /\ (waits["target.service_requests"] = "target.service_event"
        /\ service_queue # <<>>) => "target.service_event" \in notified
=============================================================================
