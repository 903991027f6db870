--------------------------- MODULE MultiInitiator ---------------------------
(***************************************************************************)
(* The three-initiator fabric of AT-2 (multi_initiator_arbitration) and    *)
(* AT-3 (qos_sensitivity_sla): Initiators that issue without waiting for   *)
(* END_REQ, an interconnect with one request queue per initiator and one   *)
(* request at a time on its downstream link, and a MemoryTarget.           *)
(*                                                                         *)
(* The two programs differ in how the interconnect chooses and in the gaps *)
(* between requests.  The modules AT2Arbitration and AT3QosSla define      *)
(* those two and compose the steps below.                                  *)
(*                                                                         *)
(* A transaction is <<initiator, k>>, the k-th request of the initiator.   *)
(***************************************************************************)
EXTENDS MemoryTarget, Integers

VARIABLES
  next_txn,            \* initiator -> 0 before its first wait, then the request
                       \* it issues next; one more than the last at the end
  issued_all,          \* initiator -> issue_requests has set issued_all_
  done,
  completed_responses,
  response_queue,
  responding,          \* initiator -> popped, END_RESP not sent yet
  pending,             \* initiator -> queue of requests in the interconnect
  downstream_pending,
  last_rr_index,
  weighted_cursor,
  phase,               \* transaction -> the last phase its record is stamped with
  passed               \* history: how often j was granted since i is waiting

issuers      == <<next_txn, issued_all, done>>
responders   == <<completed_responses, response_queue, responding>>
interconnect == <<pending, downstream_pending, last_rr_index, weighted_cursor>>
vars == <<kernel, opt, target, issuers, responders, interconnect, phase, passed>>

Initiators == 0..2     \* kInitiatorCount: cpu0, dma0 and accel0

IssueThread(i)   == <<"cpu0.issue_requests", "dma0.issue_requests",
                      "accel0.issue_requests">>[i + 1]
RespThread(i)    == <<"cpu0.send_end_responses", "dma0.send_end_responses",
                      "accel0.send_end_responses">>[i + 1]
ResponseEvent(i) == <<"cpu0.response_event", "dma0.response_event",
                      "accel0.response_event">>[i + 1]
DoneEvent(i)     == <<"cpu0.done_event", "dma0.done_event", "accel0.done_event">>[i + 1]

Threads ==
  TargetThreads \cup {IssueThread(i) : i \in Initiators}
    \cup {RespThread(i) : i \in Initiators}
    \cup {"interconnect.arbitrate_requests", "top.stop_when_done"}
Events ==
  TargetEvents \cup {ResponseEvent(i) : i \in Initiators}
    \cup {DoneEvent(i) : i \in Initiators} \cup {"interconnect.arbiter_event"}

Txns == Initiators \X (1..opt.num_transactions)

HasPending == {i \in Initiators : pending[i] # <<>>}

Init ==
  /\ Elaborate(Threads)
  /\ TargetInit
  /\ next_txn = [i \in Initiators |-> 0]
  /\ issued_all = [i \in Initiators |-> FALSE]
  /\ done = [i \in Initiators |-> FALSE]
  /\ completed_responses = [i \in Initiators |-> 0]
  /\ response_queue = [i \in Initiators |-> <<>>]
  /\ responding = [i \in Initiators |-> <<>>]
  /\ pending = [i \in Initiators |-> <<>>]
  /\ downstream_pending = FALSE
  /\ last_rr_index = 2
  /\ weighted_cursor = 0
  /\ phase = [t \in Txns |-> "idle"]
  /\ passed = [i \in Initiators |-> [j \in Initiators |-> 0]]

-----------------------------------------------------------------------------
(* choose_next_initiator, as a function of the set of initiators with a    *)
(* pending request and of the arbiter's two cursors.                       *)

(* The result of one call: the winner and the cursors it leaves behind.    *)
Choice(winner, rr, cursor) ==
  [winner |-> winner, last_rr_index |-> rr, weighted_cursor |-> cursor]

None == -1             \* no winner: SC_REPORT_FATAL

(* Mutant: the cursor stays on the winner's slot.                          *)
WeightedScan_StuckCursor(order, requesters, rr, cursor) ==
  LET slot(count) == order[((cursor + count) % Len(order)) + 1]
      hits == {c \in 0..(Len(order) - 1) : slot(c) \in requesters}
      first == CHOOSE c \in hits : \A d \in hits : c <= d
  IN  IF hits = {} THEN Choice(None, rr, cursor)
      ELSE Choice(slot(first), rr, (cursor + first) % Len(order))

(* One round of the cursor over the weighted order; the cursor stops after *)
(* the slot of the winner, and is back where it was when there is none.    *)
WeightedScan(order, requesters, rr, cursor) ==
  LET slot(count) == order[((cursor + count) % Len(order)) + 1]
      hits == {c \in 0..(Len(order) - 1) : slot(c) \in requesters}
      first == CHOOSE c \in hits : \A d \in hits : c <= d
  IN  IF hits = {} THEN Choice(None, rr, cursor)
      ELSE Choice(slot(first), rr, (cursor + first + 1) % Len(order))

-----------------------------------------------------------------------------
(* Initiator.                                                              *)

(* Mutant: an initiator is done when it has issued everything.             *)
DoneNow_IssuedOnly(i, issued, completed) == ~done[i] /\ issued

(* maybe_mark_done, for the values it sees when it is called.              *)
DoneNow(i, issued, completed) ==
  ~done[i] /\ issued /\ completed = opt.num_transactions

MarkDone(i, issued, completed) ==
  done' = [done EXCEPT ![i] = @ \/ DoneNow(i, issued, completed)]

DoneEvents(i, issued, completed) ==
  IF DoneNow(i, issued, completed) THEN {DoneEvent(i)} ELSE {}

(* The request k of initiator i enters the interconnect.                   *)
BeginRequest(i, k) ==
  /\ phase' = [phase EXCEPT ![<<i, k>>] = "pending"]
  /\ pending' = [pending EXCEPT ![i] = Append(@, <<i, k>>)]
  /\ Notify({"interconnect.arbiter_event"})
  /\ UNCHANGED <<issued_all, done>>

FinishIssuing(i) ==
  /\ issued_all' = [issued_all EXCEPT ![i] = TRUE]
  /\ MarkDone(i, TRUE, completed_responses[i])
  /\ Notify(DoneEvents(i, TRUE, completed_responses[i]))
  /\ UNCHANGED <<phase, pending>>

(* One segment of issue_requests; gap is the wait after the request.       *)
IssueRequests(i, gap) ==
  LET k == next_txn[i]
  IN  /\ CanRun(IssueThread(i))
      /\ IF k = 0
           THEN /\ WaitTime(IssueThread(i), 0)
                /\ Notify({})
                /\ UNCHANGED <<phase, pending, issued_all, done>>
           ELSE IF k <= opt.num_transactions
                  THEN BeginRequest(i, k) /\ WaitTime(IssueThread(i), gap)
                  ELSE FinishIssuing(i) /\ EndThread(IssueThread(i))
      /\ next_txn' = [next_txn EXCEPT ![i] = k + 1]
      /\ UNCHANGED <<opt, target, responders, downstream_pending, last_rr_index,
                     weighted_cursor, passed>>

PopResponse(i) ==
  IF response_queue[i] # <<>>
    THEN /\ responding' = [responding EXCEPT ![i] = <<Head(response_queue[i])>>]
         /\ response_queue' = [response_queue EXCEPT ![i] = Tail(@)]
         /\ WaitTime(RespThread(i), Ns)
    ELSE /\ responding' = [responding EXCEPT ![i] = <<>>]
         /\ UNCHANGED response_queue
         /\ WaitEvent(RespThread(i), ResponseEvent(i))

EndResponse(i, t) ==
  LET completed == completed_responses[i] + 1
  IN  /\ phase' = [phase EXCEPT ![t] = "end_resp"]
      /\ completed_responses' = [completed_responses EXCEPT ![i] = completed]
      /\ MarkDone(i, issued_all[i], completed)
      /\ Notify(DoneEvents(i, issued_all[i], completed))

SendEndResponses(i) ==
  /\ CanRun(RespThread(i))
  /\ IF responding[i] = <<>>
       THEN /\ Notify({})
            /\ UNCHANGED <<phase, completed_responses, done>>
       ELSE EndResponse(i, Head(responding[i]))
  /\ PopResponse(i)
  /\ UNCHANGED <<opt, target, next_txn, issued_all, interconnect, passed>>

-----------------------------------------------------------------------------
(* Interconnect.                                                           *)

(* Whoever waits counts the grants of the others; the winner starts anew.  *)
CountPassed(w) ==
  passed' = [i \in Initiators |->
               IF i = w THEN [j \in Initiators |-> 0]
               ELSE IF pending[i] = <<>> THEN passed[i]
               ELSE [passed[i] EXCEPT ![w] = @ + 1]]

(* Mutant: the latest request of the winner is granted, not the first.     *)
Grant_Newest(choice) ==
  LET w == choice.winner
      t == pending[w][Len(pending[w])]
  IN  /\ pending' = [pending EXCEPT ![w] = SubSeq(@, 1, Len(@) - 1)]
      /\ last_rr_index' = choice.last_rr_index
      /\ weighted_cursor' = choice.weighted_cursor
      /\ downstream_pending' = TRUE
      /\ phase' = [phase EXCEPT ![t] = "begin_req"]
      /\ TargetBeginReq(t)
      /\ Notify(TargetBeginReqEvents)
      /\ CountPassed(w)

(* Mutant: downstream_pending_ is not raised.                              *)
Grant_Unguarded(choice) ==
  LET w == choice.winner
      t == Head(pending[w])
  IN  /\ pending' = [pending EXCEPT ![w] = Tail(@)]
      /\ last_rr_index' = choice.last_rr_index
      /\ weighted_cursor' = choice.weighted_cursor
      /\ phase' = [phase EXCEPT ![t] = "begin_req"]
      /\ TargetBeginReq(t)
      /\ Notify(TargetBeginReqEvents)
      /\ CountPassed(w)
      /\ UNCHANGED downstream_pending

(* Mutant: the granted request stays in its queue.                         *)
Grant_Kept(choice) ==
  LET t == Head(pending[choice.winner])
  IN  /\ last_rr_index' = choice.last_rr_index
      /\ weighted_cursor' = choice.weighted_cursor
      /\ downstream_pending' = TRUE
      /\ phase' = [phase EXCEPT ![t] = "begin_req"]
      /\ TargetBeginReq(t)
      /\ Notify(TargetBeginReqEvents)
      /\ CountPassed(choice.winner)
      /\ UNCHANGED pending

Grant(choice) ==
  LET w == choice.winner
      t == Head(pending[w])
  IN  /\ pending' = [pending EXCEPT ![w] = Tail(@)]
      /\ last_rr_index' = choice.last_rr_index
      /\ weighted_cursor' = choice.weighted_cursor
      /\ downstream_pending' = TRUE
      /\ phase' = [phase EXCEPT ![t] = "begin_req"]
      /\ TargetBeginReq(t)
      /\ Notify(TargetBeginReqEvents)
      /\ CountPassed(w)

(* arbitrate_requests with the choice choose_next_initiator makes: a grant *)
(* makes downstream_pending_ true, so one segment grants at most once.     *)
ArbitrateRequests(choice) ==
  /\ CanRun("interconnect.arbitrate_requests")
  /\ IF downstream_pending \/ HasPending = {}
       THEN /\ Notify({})
            /\ WaitEvent("interconnect.arbitrate_requests",
                         "interconnect.arbiter_event")
            /\ UNCHANGED <<interconnect, target, phase, passed>>
       ELSE IF choice.winner = None
              THEN Abort /\ UNCHANGED <<interconnect, target, phase, passed>>
              ELSE /\ Grant(choice)
                   /\ WaitEvent("interconnect.arbitrate_requests",
                                "interconnect.arbiter_event")
  /\ UNCHANGED <<opt, issuers, responders>>

-----------------------------------------------------------------------------
(* The target's threads, with nb_transport_bw of interconnect and initiator. *)

(* Mutant: END_REQ frees the link but does not wake the arbiter.           *)
BackwardEndReq_Silent(t) ==
  /\ downstream_pending' = FALSE
  /\ phase' = [phase EXCEPT ![t] = "end_req"]
  /\ Notify(TargetSendEndRequestEvents)

BackwardEndReq(t) ==
  /\ downstream_pending' = FALSE
  /\ phase' = [phase EXCEPT ![t] = "end_req"]
  /\ Notify(TargetSendEndRequestEvents \cup {"interconnect.arbiter_event"})

SendEndRequests ==
  /\ CanRun("target.send_end_requests")
  /\ TargetSendEndRequest
  /\ IF accepting = <<>>
       THEN Notify({}) /\ UNCHANGED <<downstream_pending, phase>>
       ELSE BackwardEndReq(Head(accepting))
  /\ UNCHANGED <<opt, issuers, responders, pending, last_rr_index, weighted_cursor,
                 passed>>

BackwardBeginResp(t) ==
  /\ phase' = [phase EXCEPT ![t] = "begin_resp"]
  /\ response_queue' = [response_queue EXCEPT ![t[1]] = Append(@, t)]
  /\ Notify(TargetServiceRequestEvents \cup {ResponseEvent(t[1])})

ServiceRequests ==
  /\ CanRun("target.service_requests")
  /\ IF OccupancyUnderflow
       THEN Abort /\ UNCHANGED <<target, phase, response_queue>>
       ELSE /\ TargetServiceRequest
            /\ IF servicing = <<>>
                 THEN Notify({}) /\ UNCHANGED <<phase, response_queue>>
                 ELSE BackwardBeginResp(Head(servicing))
  /\ UNCHANGED <<opt, issuers, completed_responses, responding, interconnect, passed>>

-----------------------------------------------------------------------------
(* Top.                                                                    *)

(* stop_when_done waits for cpu0, then dma0, then accel0; done flags never *)
(* fall, so it is at the first initiator that is not done.                 *)
StopWhenDone ==
  LET undone == {i \in Initiators : ~done[i]}
  IN  /\ CanRun("top.stop_when_done")
      /\ IF undone = {}
           THEN EndThread("top.stop_when_done") /\ StopAndNotify({})
           ELSE /\ WaitEvent("top.stop_when_done",
                             DoneEvent(CHOOSE i \in undone : \A j \in undone : i <= j))
                /\ Notify({})
      /\ UNCHANGED <<opt, target, issuers, responders, interconnect, phase, passed>>

Scheduler ==
  /\ DeltaCycle \/ AdvanceTime
  /\ UNCHANGED <<opt, target, issuers, responders, interconnect, phase, passed>>

(* sc_start() has returned: the program writes its trace and exits.        *)
Exit == Ended /\ UNCHANGED vars

-----------------------------------------------------------------------------
(***************************************************************************)
(* Properties of both programs.                                            *)
(***************************************************************************)

Upstream == waiting_accept_queue \o end_req_queue \o accepting

(* downstream_pending_ is set exactly while one granted request has not    *)
(* had its END_REQ: the interconnect never has two requests outstanding,   *)
(* and never blocks on one that is already accepted.  (This is also why    *)
(* at most one request waits for a slot, so that admitting one per release, *)
(* as AT-2 does, and admitting all, as AT-3 does, are the same.)           *)
OneDownstream == Len(Upstream) = IF downstream_pending THEN 1 ELSE 0

(* All the places a transaction can be in between BEGIN_REQ and END_RESP.  *)
InTransit ==
  pending[0] \o pending[1] \o pending[2] \o Upstream \o (servicing \o service_queue)
    \o (responding[0] \o response_queue[0]) \o (responding[1] \o response_queue[1])
    \o (responding[2] \o response_queue[2])

(* A transaction that was issued and not completed is in exactly one queue *)
(* or thread, any other one is in none: payload pointers are neither lost  *)
(* nor duplicated on their way through three modules and seven queues.     *)
InFlightOnce ==
  /\ {InTransit[n] : n \in DOMAIN InTransit}
       = {t \in Txns : phase[t] \notin {"idle", "end_resp"}}
  /\ \A m, n \in DOMAIN InTransit : InTransit[m] = InTransit[n] => m = n

Rank(p) ==
  CASE p = "idle" -> 0 [] p = "pending" -> 1 [] p = "begin_req" -> 2
    [] p = "end_req" -> 3 [] p = "begin_resp" -> 4 [] p = "end_resp" -> 5

(* The transactions of one initiator keep the order they were issued in,   *)
(* in every phase: an initiator may have several in flight and the arbiter *)
(* interleaves three of them, but none overtakes its predecessor.          *)
InitiatorOrder ==
  \A i \in Initiators : \A k \in 2..opt.num_transactions :
    Rank(phase[<<i, k - 1>>]) >= Rank(phase[<<i, k>>])

(* What the fabric promises of every transaction: at most one downstream,  *)
(* each in one place, and the order of each initiator kept.                *)
TransactionsTracked == OneDownstream /\ InFlightOnce /\ InitiatorOrder

(* No thread sleeps on its event while there is work for it and no         *)
(* notification is on its way.                                             *)
NoLostWakeup ==
  /\ NoLostWakeupInTarget
  /\ (waits["interconnect.arbitrate_requests"] = "interconnect.arbiter_event"
        /\ ~downstream_pending /\ HasPending # {})
       => "interconnect.arbiter_event" \in notified
  /\ \A i \in Initiators :
       /\ (waits[RespThread(i)] = ResponseEvent(i) /\ response_queue[i] # <<>>)
            => ResponseEvent(i) \in notified
       /\ (waits["top.stop_when_done"] = DoneEvent(i) /\ done[i])
            => DoneEvent(i) \in notified

(* Every request answered, and none left behind in the fabric.             *)
Complete ==
  /\ \A t \in Txns : phase[t] = "end_resp"
  /\ occupied_slots = 0 /\ ~downstream_pending

(* Every run comes to sc_stop(), and only when it is complete: Top does    *)
(* not miss a done event that comes before it waits for it.                *)
RunStops == <>(sim = "stopped" /\ Complete) /\ [](sim = "stopped" => Complete)

(* The interconnect and the target implement the abstract link: one        *)
(* request at a time, at most queue_depth accepted, responses in order.    *)
Link == INSTANCE FourPhaseLink WITH
          capacity <- opt.queue_depth,
          phase <- [t \in Txns |-> IF phase[t] = "pending" THEN "idle" ELSE phase[t]],
          accepted <- servicing \o service_queue

ImplementsLink == Link!Spec
=============================================================================
