-------------------------- MODULE FourPhaseMemory --------------------------
(***************************************************************************)
(* AT-1, examples/at/four_phase_memory_timing/main.cpp: one initiator and  *)
(* one MemoryTarget bound back to back.  The initiator has two threads:    *)
(* issue_requests sends BEGIN_REQ for one transaction after the other and  *)
(* waits for each END_REQ, send_end_responses answers every BEGIN_RESP     *)
(* with END_RESP after kEndRespDelayNs.                                    *)
(*                                                                         *)
(* Transactions are their txn_id, 1..num_transactions.  A phase stamp is   *)
(* the time the phase happened, or NaN before (quiet_NaN in the records).  *)
(***************************************************************************)
EXTENDS MemoryTarget, Integers

CONSTANT Options   \* the option records a run may be started with

ASSUME OptionsAssumption ==
  Options \subseteq [num_transactions : Nat \ {0}, queue_depth : Nat \ {0},
                     service_latency : Nat, issue_gap : Nat]

VARIABLES
  index,                \* the transaction issue_requests is at
  awaiting_end_req,
  end_req_seen,
  next_issue_time,
  response_queue,
  responding,           \* popped by send_end_responses, END_RESP not sent yet
  completed_responses,
  record                \* transaction -> its four phase stamps and its status

initiator == <<index, awaiting_end_req, end_req_seen, next_issue_time,
               response_queue, responding, completed_responses, record>>
vars == <<kernel, opt, target, initiator>>

Threads == TargetThreads \cup
           {"initiator.issue_requests", "initiator.send_end_responses"}
Events  == TargetEvents \cup
           {"initiator.end_req_event", "initiator.response_event",
            "initiator.all_responses_done_event"}

NaN == -1
Txns == 1..opt.num_transactions

NewRecord == [begin_req |-> NaN, end_req |-> NaN, begin_resp |-> NaN,
              end_resp |-> NaN, status |-> "OK"]

Init ==
  /\ opt \in Options
  /\ Elaborate(Threads)
  /\ TargetInit
  /\ index = 1
  /\ awaiting_end_req = FALSE
  /\ end_req_seen = FALSE
  /\ next_issue_time = 0
  /\ response_queue = <<>>
  /\ responding = <<>>
  /\ completed_responses = 0
  /\ record = [t \in Txns |-> NewRecord]

-----------------------------------------------------------------------------
(* issue_requests.                                                         *)

(* The part of the loop body up to wait(end_req_event_), the target's      *)
(* nb_transport_fw included.                                               *)
BeginRequest(t) ==
  /\ index' = t
  /\ awaiting_end_req' = TRUE
  /\ end_req_seen' = FALSE
  /\ record' = [record EXCEPT ![t].begin_req = now, ![t].status = "IN_FLIGHT"]
  /\ TargetBeginReq(t)
  /\ WaitEvent("initiator.issue_requests", "initiator.end_req_event")
  /\ Notify(TargetBeginReqEvents)

(* Sleep until the issue gap is over.                                      *)
AwaitIssueTime(t, issue_time) ==
  /\ index' = t
  /\ awaiting_end_req' = FALSE
  /\ WaitTime("initiator.issue_requests", issue_time - now)
  /\ Notify({})
  /\ UNCHANGED <<target, end_req_seen, record>>

(* After the last request: wait for the last response, then sc_stop().     *)
Drain ==
  /\ index' = opt.num_transactions + 1
  /\ awaiting_end_req' = FALSE
  /\ IF completed_responses < opt.num_transactions
       THEN /\ WaitEvent("initiator.issue_requests",
                         "initiator.all_responses_done_event")
            /\ Notify({})
       ELSE /\ EndThread("initiator.issue_requests")
            /\ StopAndNotify({})
  /\ UNCHANGED <<target, end_req_seen, record>>

(* The loop from the top, at transaction t.                                *)
Continue(t, issue_time) ==
  /\ next_issue_time' = issue_time
  /\ IF t > opt.num_transactions
       THEN Drain
       ELSE IF now < issue_time THEN AwaitIssueTime(t, issue_time)
                                ELSE BeginRequest(t)

(* while (!end_req_seen_) wait(end_req_event_): woken too early.           *)
AwaitEndReqAgain ==
  /\ WaitEvent("initiator.issue_requests", "initiator.end_req_event")
  /\ Notify({})
  /\ UNCHANGED <<target, index, awaiting_end_req, end_req_seen, next_issue_time,
                 record>>

(* Mutant: the issue gap is counted from END_REQ.                          *)
IssueRequests_GapFromEndReq ==
  /\ CanRun("initiator.issue_requests")
  /\ IF awaiting_end_req
       THEN IF end_req_seen
              THEN Continue(index + 1, record[index].end_req + opt.issue_gap)
              ELSE AwaitEndReqAgain
       ELSE Continue(index, next_issue_time)
  /\ UNCHANGED <<opt, response_queue, responding, completed_responses>>

IssueRequests ==
  /\ CanRun("initiator.issue_requests")
  /\ IF awaiting_end_req
       THEN IF end_req_seen
              THEN Continue(index + 1, record[index].begin_req + opt.issue_gap)
              ELSE AwaitEndReqAgain
       ELSE Continue(index, next_issue_time)
  /\ UNCHANGED <<opt, response_queue, responding, completed_responses>>

-----------------------------------------------------------------------------
(* send_end_responses.                                                     *)

PopResponse ==
  IF response_queue # <<>>
    THEN /\ responding' = <<Head(response_queue)>>
         /\ response_queue' = Tail(response_queue)
         /\ WaitTime("initiator.send_end_responses", Ns)
    ELSE /\ responding' = <<>>
         /\ UNCHANGED response_queue
         /\ WaitEvent("initiator.send_end_responses", "initiator.response_event")

(* Mutant: the last response is looked for one too late.                   *)
EndResponse_LateCheck(t) ==
  /\ record' = [record EXCEPT ![t].end_resp = now,
                              ![t].status = IF @ = "IN_FLIGHT" THEN "OK" ELSE @]
  /\ completed_responses' = completed_responses + 1
  /\ Notify(IF completed_responses = opt.num_transactions
              THEN {"initiator.all_responses_done_event"} ELSE {})

EndResponse(t) ==
  /\ record' = [record EXCEPT ![t].end_resp = now,
                              ![t].status = IF @ = "IN_FLIGHT" THEN "OK" ELSE @]
  /\ completed_responses' = completed_responses + 1
  /\ Notify(IF completed_responses + 1 = opt.num_transactions
              THEN {"initiator.all_responses_done_event"} ELSE {})

SendEndResponses ==
  /\ CanRun("initiator.send_end_responses")
  /\ IF responding = <<>>
       THEN /\ Notify({})
            /\ UNCHANGED <<record, completed_responses>>
       ELSE EndResponse(Head(responding))
  /\ PopResponse
  /\ UNCHANGED <<opt, target, index, awaiting_end_req, end_req_seen,
                 next_issue_time>>

-----------------------------------------------------------------------------
(* The target's threads, with the initiator's nb_transport_bw.             *)

(* SC_REPORT_FATAL "END_REQ does not match active request".                *)
EndReqMismatch(t) == ~awaiting_end_req \/ index # t

BackwardEndReq(t) ==
  /\ record' = [record EXCEPT ![t].end_req = now]
  /\ end_req_seen' = TRUE
  /\ Notify(TargetSendEndRequestEvents \cup {"initiator.end_req_event"})

SendEndRequests ==
  /\ CanRun("target.send_end_requests")
  /\ IF accepting # <<>> /\ EndReqMismatch(Head(accepting))
       THEN /\ Abort
            /\ UNCHANGED <<target, record, end_req_seen>>
       ELSE /\ IF accepting = <<>>
                 THEN Notify({}) /\ UNCHANGED <<record, end_req_seen>>
                 ELSE BackwardEndReq(Head(accepting))
            /\ TargetSendEndRequest
  /\ UNCHANGED <<opt, index, awaiting_end_req, next_issue_time, response_queue,
                 responding, completed_responses>>

BackwardBeginResp(t) ==
  /\ record' = [record EXCEPT ![t].begin_resp = now]
  /\ response_queue' = Append(response_queue, t)
  /\ Notify(TargetServiceRequestEvents \cup {"initiator.response_event"})

ServiceRequests ==
  /\ CanRun("target.service_requests")
  /\ IF OccupancyUnderflow
       THEN /\ Abort
            /\ UNCHANGED <<target, record, response_queue>>
       ELSE /\ IF servicing = <<>>
                 THEN Notify({}) /\ UNCHANGED <<record, response_queue>>
                 ELSE BackwardBeginResp(Head(servicing))
            /\ TargetServiceRequest
  /\ UNCHANGED <<opt, index, awaiting_end_req, end_req_seen, next_issue_time,
                 responding, completed_responses>>

-----------------------------------------------------------------------------
Thread ==
  \/ IssueRequests
  \/ SendEndResponses
  \/ SendEndRequests
  \/ ServiceRequests

Scheduler ==
  /\ DeltaCycle \/ AdvanceTime
  /\ UNCHANGED <<opt, target, initiator>>

(* sc_start() has returned: the program writes its trace and exits.        *)
Exit == Ended /\ UNCHANGED vars

Next == Thread \/ Scheduler \/ Exit

Spec == Init /\ [][Next]_vars

(* sc_start() runs the kernel loop until sc_stop(): it never idles while a *)
(* process is ready, an event is notified or a timer is running.           *)
FairSpec == Spec /\ WF_vars(Thread \/ Scheduler)
-----------------------------------------------------------------------------
(***************************************************************************)
(* Properties.                                                             *)
(***************************************************************************)

Stamp == Nat \cup {NaN}
Record == [begin_req : Stamp, end_req : Stamp, begin_resp : Stamp, end_resp : Stamp,
           status : {"IN_FLIGHT", "OK"}]

(* Every variable has the type the source declares for it.                 *)
TypeOK ==
  /\ opt \in Options
  /\ KernelTypeOK(Threads, Events)
  /\ TargetTypeOK(Txns)
  /\ index \in 1..(opt.num_transactions + 1)
  /\ awaiting_end_req \in BOOLEAN
  /\ end_req_seen \in BOOLEAN
  /\ next_issue_time \in Nat
  /\ response_queue \in Seq(Txns)
  /\ responding \in Seq(Txns) /\ Len(responding) <= 1
  /\ completed_responses \in Nat
  /\ record \in [Txns -> Record]

(* None of the SC_REPORT_FATAL calls of AT-1 is reached: END_REQ always    *)
(* answers the transaction issue_requests is waiting for, and service      *)
(* never releases a slot that was not taken.                               *)
NeverAborts == sim # "aborted"

(* The request issue_requests is waiting for is in exactly one place on its *)
(* way to END_REQ - waiting for a slot, queued for END_REQ, or carried     *)
(* across the accept latency - and no other request is: three functions of *)
(* two threads hand it over without losing or duplicating it.              *)
OneUpstream ==
  IF awaiting_end_req /\ ~end_req_seen
    THEN \/ /\ waiting_accept_queue = <<index>>
            /\ end_req_queue = <<>> /\ accepting = <<>>
         \/ /\ end_req_queue = <<index>>
            /\ waiting_accept_queue = <<>> /\ accepting = <<>>
         \/ /\ accepting = <<index>>
            /\ waiting_accept_queue = <<>> /\ end_req_queue = <<>>
    ELSE waiting_accept_queue = <<>> /\ end_req_queue = <<>> /\ accepting = <<>>

Later(a, b) == IF a < b THEN b ELSE a

(* The timing the trace reports is the one of a queue with queue_depth     *)
(* slots and one server, whatever order the kernel runs the four threads   *)
(* in: a request is accepted 1 ns after both its arrival and the release   *)
(* of the slot it takes over, served after its predecessor, answered after *)
(* the previous answer, and the next one issued after END_REQ and the gap. *)
(* write_trace reports no blocked time for a record without the            *)
(* backpressure flag, and such a request was accepted after exactly 1 ns.  *)
TraceTiming ==
  \A t \in Txns :
    LET r == record[t]
        before(field, k) == IF t > k THEN record[t - k][field] ELSE 0
    IN  /\ r.begin_req # NaN =>
             r.begin_req = Later(before("end_req", 1),
                                 IF t > 1 THEN before("begin_req", 1) + opt.issue_gap
                                          ELSE 0)
        /\ r.end_req # NaN =>
             /\ r.end_req = Later(r.begin_req, before("begin_resp", opt.queue_depth)) + Ns
             /\ t \notin backpressure => r.end_req = r.begin_req + Ns
        /\ r.begin_resp # NaN =>
             r.begin_resp = Later(r.end_req, before("begin_resp", 1))
                              + opt.service_latency
        /\ r.end_resp # NaN =>
             r.end_resp = Later(r.begin_resp, before("end_resp", 1)) + Ns

(* The phases of the records, read as the state of an abstract link.       *)
Phase(t) ==
  CASE record[t].end_resp # NaN -> "end_resp"
    [] record[t].end_resp = NaN /\ record[t].begin_resp # NaN -> "begin_resp"
    [] record[t].begin_resp = NaN /\ record[t].end_req # NaN -> "end_req"
    [] record[t].end_req = NaN /\ record[t].begin_req # NaN -> "begin_req"
    [] OTHER -> "idle"

Link == INSTANCE FourPhaseLink WITH
          capacity <- opt.queue_depth,
          phase <- [t \in Txns |-> Phase(t)],
          accepted <- servicing \o service_queue

(* The simulated pair of modules implements the abstract link: phases in   *)
(* order, one request at a time, at most queue_depth accepted requests,    *)
(* responses in the order of acceptance.                                   *)
ImplementsLink == Link!Spec

(* Every request answered, and none left behind in a queue or a slot.      *)
Complete ==
  /\ \A t \in Txns : record[t].status = "OK" /\ record[t].end_resp # NaN
  /\ Pipeline = <<>> /\ waiting_accept_queue = <<>> /\ response_queue = <<>>
  /\ occupied_slots = 0

(* Every run comes to sc_stop(), and only when it is complete: neither the *)
(* last response nor the end of the issue loop is missed, whichever comes  *)
(* second.                                                                 *)
RunStops == <>(sim = "stopped" /\ Complete) /\ [](sim = "stopped" => Complete)
=============================================================================
