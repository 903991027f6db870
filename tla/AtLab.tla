------------------------------- MODULE AtLab -------------------------------
(***************************************************************************)
(* The AT smoke lab, examples/at/systemc/src/at_lab.cpp: two initiators    *)
(* (101 and 102) that each send a WRITE and then a READ of their own word, *)
(* a bus that forwards one request at a time under an arbitration policy,  *)
(* and a target with two words of memory.                                  *)
(*                                                                         *)
(* A transaction is <<initiator, n>>: n = 1 is the WRITE, n = 2 the READ.  *)
(* Its payload lives on the stack of send_transaction, so the modules pass *)
(* a pointer to it around; `reuse' says whether the two calls of one       *)
(* initiator place it at the same address, which the language leaves open. *)
(* request_in_progress_ decides nothing in the code and is left out.       *)
(***************************************************************************)
EXTENDS SystemCKernel, PhaseTraces

VARIABLES
  reuse,
  arbitration_policy,
  calls,                 \* initiator -> calls of send_transaction so far, 0
                         \* before the first wait, one more than calls later
  response_seen,
  done,
  peq,                   \* initiator -> its peq_, backward phases of one delta
  read_data,
  pending_requests,      \* of the bus
  active_request,
  pending_request,       \* of the target
  response_in_progress,
  stage,                 \* the wait process_requests is at
  serving,               \* its local variable trans
  words,
  status,                \* transaction -> its response status
  trace                  \* the rows of phase_trace.csv

payload      == <<reuse, status>>
initiators   == <<calls, response_seen, done, peq, read_data>>
bus          == <<arbitration_policy, pending_requests, active_request, trace>>
target       == <<pending_request, response_in_progress, stage, serving, words>>
vars == <<kernel, payload, initiators, bus, target>>

Txns       == Initiators \X {1, 2}
Null       == <<>>

RunThread(i) == IF i = 101 THEN "initiator101.run" ELSE "initiator102.run"
PeqMethod(i) == IF i = 101 THEN "initiator101.peq" ELSE "initiator102.peq"
PeqEvent(i)  == IF i = 101 THEN "initiator101.peq.event" ELSE "initiator102.peq.event"
ResponseDone(i) ==
  IF i = 101 THEN "initiator101.response_done" ELSE "initiator102.response_done"

Threads == {RunThread(i) : i \in Initiators} \cup
           {"bus.service_requests", "target.process_requests", "top.stop_when_done"}
Methods == {PeqMethod(i) : i \in Initiators}
(* stop_when_done waits for either done_event: one event stands for both.  *)
Events  == {PeqEvent(i) : i \in Initiators} \cup {ResponseDone(i) : i \in Initiators}
             \cup {"bus.service_event", "target.request_event",
                   "target.end_response_event", "done_event"}

WriteData(i) == i      \* 0x1010abcd, 0x1020abcd: all that matters is which
ReadBuffer   == 0      \* the initial value of read_data, and of the words

Init ==
  /\ ElaborateWith([p \in Threads \cup Methods |->
                      IF p \in Threads THEN "ready"
                      ELSE IF p = PeqMethod(101) THEN PeqEvent(101) ELSE PeqEvent(102)])
  /\ reuse \in BOOLEAN
  /\ arbitration_policy \in Policies
  /\ calls = [i \in Initiators |-> 0]
  /\ response_seen = [i \in Initiators |-> FALSE]
  /\ done = [i \in Initiators |-> FALSE]
  /\ peq = [i \in Initiators |-> <<>>]
  /\ read_data = [i \in Initiators |-> ReadBuffer]
  /\ pending_requests = <<>>
  /\ active_request = Null
  /\ pending_request = Null
  /\ response_in_progress = Null
  /\ stage = "start"
  /\ serving = Null
  /\ words = [i \in Initiators |-> 0]
  /\ status = [t \in Txns |-> "TLM_INCOMPLETE_RESPONSE"]
  /\ trace = <<>>

(* &t = &u: the pointers are compared, not the transactions.               *)
SamePayload(t, u) ==
  t # Null /\ u # Null /\ (t = u \/ (reuse /\ t[1] = u[1]))

Log(t, phase) == trace' = Append(trace, [txn |-> t, phase |-> phase, time |-> now])

-----------------------------------------------------------------------------
(* Initiator::run and send_transaction.                                    *)

(* The bus' nb_transport_fw with BEGIN_REQ is part of the step.            *)
SendTransaction(i, n) ==
  /\ response_seen' = [response_seen EXCEPT ![i] = FALSE]
  /\ status' = [status EXCEPT ![<<i, n>>] = "TLM_INCOMPLETE_RESPONSE"]
  /\ Log(<<i, n>>, "BEGIN_REQ")
  /\ pending_requests' = Append(pending_requests, <<i, n>>)
  /\ Notify({"bus.service_event"})
  /\ WaitEvent(RunThread(i), ResponseDone(i))

(* The data the READ returned is the data the WRITE carried.               *)
Finish(i) ==
  IF read_data[i] # WriteData(i)
    THEN Abort /\ UNCHANGED done
    ELSE /\ done' = [done EXCEPT ![i] = TRUE]
         /\ Notify({"done_event"})
         /\ EndThread(RunThread(i))

Run(i) ==
  /\ CanRun(RunThread(i))
  /\ calls' = [calls EXCEPT ![i] = @ + 1]
  /\ \/ /\ calls[i] = 0
        /\ WaitTime(RunThread(i), 0)
        /\ Notify({})
        /\ UNCHANGED <<response_seen, done, status, pending_requests, trace>>
     \/ /\ calls[i] \in {1, 2}
        /\ SendTransaction(i, calls[i])
        /\ UNCHANGED done
     \/ /\ calls[i] = 3
        /\ Finish(i)
        /\ UNCHANGED <<response_seen, status, pending_requests, trace>>
  /\ UNCHANGED <<reuse, peq, read_data, arbitration_policy, active_request, target>>

-----------------------------------------------------------------------------
(* Initiator::handle_bw_phase, with the END_RESP it sends.                 *)

(* SC_REPORT_FATAL of check_response, of the bus and of the target.        *)
EndRespRefused(t) ==
  \/ status[t] # "TLM_OK_RESPONSE"
  \/ ~SamePayload(t, active_request)
  \/ ~SamePayload(t, response_in_progress)

(* Mutant: the bus keeps its active request when END_RESP passes.          *)
ForwardEndResp_StillActive ==
  /\ response_in_progress' = Null
  /\ pending_request' = Null
  /\ UNCHANGED active_request

(* END_RESP through the bus and at the target.                             *)
ForwardEndResp ==
  /\ response_in_progress' = Null
  /\ pending_request' = Null
  /\ active_request' = Null

(* Mutant: the bus does not look for the next request after END_RESP.      *)
EndRespEvents_NoService(i) == {"target.end_response_event", ResponseDone(i)}

EndRespEvents(i) ==
  {"target.end_response_event", "bus.service_event", ResponseDone(i)}

PopPhase(i) == peq' = [peq EXCEPT ![i] = Tail(@)]

HandleBwPhase(i) ==
  LET t == Head(peq[i]).txn
  IN  /\ CanRun(PeqMethod(i))
      /\ PopPhase(i)
      /\ \/ /\ Head(peq[i]).phase = "END_REQ"
            /\ Notify({})
            /\ WaitEvent(PeqMethod(i), PeqEvent(i))
            /\ UNCHANGED <<response_seen, active_request, pending_request,
                           response_in_progress, trace>>
         \/ /\ Head(peq[i]).phase = "BEGIN_RESP"
            /\ IF EndRespRefused(t)
                 THEN Abort /\ UNCHANGED <<response_seen, active_request, pending_request,
                                           response_in_progress, trace>>
                 ELSE /\ Log(t, "END_RESP")
                      /\ ForwardEndResp
                      /\ response_seen' = [response_seen EXCEPT ![i] = TRUE]
                      /\ Notify(EndRespEvents(i))
                      /\ WaitEvent(PeqMethod(i), PeqEvent(i))
      /\ UNCHANGED <<payload, calls, done, read_data, arbitration_policy,
                     pending_requests, stage, serving, words>>

-----------------------------------------------------------------------------
(* SimpleAtBus::service_requests.                                          *)

Without(queue, k) == SubSeq(queue, 1, k - 1) \o SubSeq(queue, k + 1, Len(queue))

Preferred == IF arbitration_policy = "priority_101" THEN 101 ELSE 102

(* Mutant: the policy prefers the other initiator.                         *)
NextRequest_Unpreferred ==
  LET other == {k \in DOMAIN pending_requests : pending_requests[k][1] # Preferred}
  IN  IF arbitration_policy = "fifo" \/ other = {}
        THEN 1
        ELSE CHOOSE k \in other : \A q \in other : k <= q

(* pop_next_request: the first one of the preferred initiator, else the    *)
(* oldest one.                                                             *)
NextRequest ==
  LET preferred == {k \in DOMAIN pending_requests : pending_requests[k][1] = Preferred}
  IN  IF arbitration_policy = "fifo" \/ preferred = {}
        THEN 1
        ELSE CHOOSE k \in preferred : \A q \in preferred : k <= q

(* The target takes the BEGIN_REQ, or completes it with an error (FATAL).  *)
Forward(t) ==
  IF pending_request # Null
    THEN Abort /\ UNCHANGED <<active_request, pending_request>>
    ELSE /\ active_request' = t
         /\ pending_request' = t
         /\ Notify({"target.request_event"})
         /\ WaitEvent("bus.service_requests", "bus.service_event")

(* The first segment, before the first wait, finds nothing pending.        *)
ServiceRequests ==
  /\ CanRun("bus.service_requests")
  /\ IF active_request # Null \/ pending_requests = <<>>
       THEN /\ WaitEvent("bus.service_requests", "bus.service_event")
            /\ Notify({})
            /\ UNCHANGED <<active_request, pending_request, pending_requests>>
       ELSE /\ Forward(pending_requests[NextRequest])
            /\ pending_requests' = Without(pending_requests, NextRequest)
  /\ UNCHANGED <<payload, initiators, arbitration_policy, trace,
                 response_in_progress, stage, serving, words>>

-----------------------------------------------------------------------------
(* Target::process_requests, with the backward path to the initiator's peq. *)

Wait(next_stage, event) ==
  /\ stage' = next_stage
  /\ WaitEvent("target.process_requests", event)

Backward(phase) ==
  /\ Log(serving, phase)
  /\ peq' = [peq EXCEPT ![serving[1]] = Append(@, [txn |-> serving, phase |-> phase])]
  /\ Notify({PeqEvent(serving[1])})

AwaitRequest ==
  /\ stage \in {"start", "response"}
  /\ Wait("request", "target.request_event")
  /\ Notify({})
  /\ UNCHANGED <<serving, words, response_in_progress, read_data, status, peq, trace>>

TakeRequest ==
  /\ stage = "request"
  /\ stage' = "accept"
  /\ serving' = pending_request
  /\ WaitTime("target.process_requests", 1)
  /\ Notify({})
  /\ UNCHANGED <<words, response_in_progress, read_data, status, peq, trace>>

(* SC_REPORT_FATAL of the bus: a backward phase of an unknown transaction. *)
Unknown == ~SamePayload(serving, active_request)

SendEndReq ==
  /\ stage = "accept"
  /\ IF Unknown
       THEN Abort /\ UNCHANGED <<stage, peq, trace>>
       ELSE /\ Backward("END_REQ")
            /\ stage' = "execute"
            /\ WaitTime("target.process_requests", 4)
  /\ UNCHANGED <<serving, words, response_in_progress, read_data, status>>

(* Mutant: a READ is answered with the word of the other initiator.        *)
Execute_WrongWord ==
  /\ IF serving[2] = 1
       THEN /\ words' = [words EXCEPT ![serving[1]] = WriteData(serving[1])]
            /\ UNCHANGED read_data
       ELSE /\ read_data' = [read_data EXCEPT ![serving[1]] = words[203 - serving[1]]]
            /\ UNCHANGED words
  /\ status' = [status EXCEPT ![serving] = "TLM_OK_RESPONSE"]

(* execute: both addresses are aligned and in range, so it never refuses.  *)
Execute ==
  /\ IF serving[2] = 1
       THEN /\ words' = [words EXCEPT ![serving[1]] = WriteData(serving[1])]
            /\ UNCHANGED read_data
       ELSE /\ read_data' = [read_data EXCEPT ![serving[1]] = words[serving[1]]]
            /\ UNCHANGED words
  /\ status' = [status EXCEPT ![serving] = "TLM_OK_RESPONSE"]

SendBeginResp ==
  /\ stage = "execute"
  /\ IF Unknown
       THEN Abort /\ UNCHANGED <<stage, words, response_in_progress, read_data, status,
                                 peq, trace>>
       ELSE /\ Execute
            /\ response_in_progress' = serving
            /\ Backward("BEGIN_RESP")
            /\ Wait("response", "target.end_response_event")
  /\ UNCHANGED serving

ProcessRequests ==
  /\ CanRun("target.process_requests")
  /\ AwaitRequest \/ TakeRequest \/ SendEndReq \/ SendBeginResp
  /\ UNCHANGED <<reuse, calls, response_seen, done, arbitration_policy,
                 pending_requests, active_request, pending_request>>

-----------------------------------------------------------------------------
StopWhenDone ==
  /\ CanRun("top.stop_when_done")
  /\ IF \A i \in Initiators : done[i]
       THEN EndThread("top.stop_when_done") /\ StopAndNotify({})
       ELSE WaitEvent("top.stop_when_done", "done_event") /\ Notify({})
  /\ UNCHANGED <<payload, initiators, bus, target>>

Thread ==
  \/ \E i \in Initiators : Run(i) \/ HandleBwPhase(i)
  \/ ServiceRequests
  \/ ProcessRequests
  \/ StopWhenDone

Scheduler ==
  /\ DeltaCycle \/ AdvanceTime
  /\ UNCHANGED <<payload, initiators, bus, target>>

(* sc_start() has returned.                                                *)
Exit == Ended /\ UNCHANGED vars

Next == Thread \/ Scheduler \/ Exit

Spec == Init /\ [][Next]_vars

(* sc_start() runs the kernel loop until sc_stop() or starvation.          *)
FairSpec == Spec /\ WF_vars(Thread \/ Scheduler)
-----------------------------------------------------------------------------
(***************************************************************************)
(* Properties.                                                             *)
(***************************************************************************)

(* None of the SC_REPORT_FATAL calls is reached: pointers match at the bus *)
(* and at the target, the target is free when the bus forwards, and every  *)
(* READ returns what the WRITE of the same initiator carried.              *)
NeverAborts == sim # "aborted"

(* The payload of t exists while send_transaction(t) has not returned.     *)
Alive(t) == calls[t[1]] = t[2] + 1

(* No module holds a pointer to a payload whose send_transaction returned: *)
(* the initiator is only woken when bus, target and peq have let go of it. *)
NoDanglingPayload ==
  /\ \A k \in DOMAIN pending_requests : Alive(pending_requests[k])
  /\ \A t \in {active_request, pending_request, response_in_progress} \ {Null} : Alive(t)
  /\ \A i \in Initiators : \A k \in DOMAIN peq[i] : Alive(peq[i][k].txn)
  /\ stage \in {"accept", "execute"} => Alive(serving)

(* "The next queued request is released after the current transaction's    *)
(* END_RESP reaches the target": bus and target always agree on the one    *)
(* active transaction, whatever order their threads run in.                *)
BusAgreesWithTarget ==
  /\ pending_request = active_request
  /\ response_in_progress # Null => response_in_progress = active_request
  /\ stage \in {"accept", "execute"} => serving = active_request

(* Bus, target and initiator hold the same, live payload.                  *)
PayloadShared == NoDanglingPayload /\ BusAgreesWithTarget

Rows(phase) == SelectSeq(trace, LAMBDA row : row.phase = phase)

RowOf(t, phase) == CHOOSE k \in DOMAIN trace : trace[k].txn = t /\ trace[k].phase = phase

Logged(t, phase) == \E k \in DOMAIN trace : trace[k].txn = t /\ trace[k].phase = phase

(* What the phase-trace analyzer asks of a finished trace: every           *)
(* transaction has its four phases once and in order.                      *)
TraceComplete ==
  \A t \in Txns : LET rows == SelectSeq(trace, LAMBDA row : row.txn = t)
                  IN  [k \in DOMAIN rows |-> rows[k].phase]
                        = <<"BEGIN_REQ", "END_REQ", "BEGIN_RESP", "END_RESP">>

AcceptLatency(t) == trace[RowOf(t, "END_REQ")].time - trace[RowOf(t, "BEGIN_REQ")].time

(* What the policies are for, in every order of the threads.  fifo accepts  *)
(* the requests as they arrived at the bus.  A request waits for one other *)
(* transaction (5 ns), or for two if the other initiator is preferred; and *)
(* over a run the preferred initiator is accepted faster.  What remains of *)
(* the order of the threads in a finished trace is in Traces.              *)
PolicyEffect ==
  /\ arbitration_policy = "fifo" =>
       \A k \in DOMAIN Rows("END_REQ") : Rows("END_REQ")[k].txn = Rows("BEGIN_REQ")[k].txn
  /\ \A t \in Txns : Logged(t, "END_REQ") =>
       AcceptLatency(t) \in {1, 6} \cup
         (IF arbitration_policy # "fifo" /\ t[1] # Preferred THEN {11} ELSE {})
  /\ (sim = "stopped" /\ arbitration_policy # "fifo") =>
       LET waited(i) == AcceptLatency(<<i, 1>>) + AcceptLatency(<<i, 2>>)
       IN  \A i \in Initiators : i # Preferred => waited(Preferred) < waited(i)
  /\ sim = "stopped" => trace \in Traces(arbitration_policy)

(* Every run comes to sc_stop(), with a complete trace: Top does not stop  *)
(* after the first done event, nor miss the second.                        *)
RunStops == <>(sim = "stopped" /\ TraceComplete) /\ [](sim = "stopped" => TraceComplete)
=============================================================================
