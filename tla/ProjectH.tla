------------------------------ MODULE ProjectH ------------------------------
(***************************************************************************)
(* Project H, sim/main.cpp: the same requests go through the Verilated RTL *)
(* (run_rtl) and through the C++ golden model (run_aligned_model), and the *)
(* summaries of their rows are correlated.  The program runs one after the *)
(* other; here they run in lock step, which changes neither, as they share *)
(* only the trace.  A workload has at most one request per cycle.          *)
(***************************************************************************)
EXTENDS BankedMemoryController, SequencesExt

VARIABLES
  busy_until_cycle,    \* BankModelState of the golden model
  completion_cycles,
  rows                 \* the last row of each: [rtl, model], or NoRows

golden == <<busy_until_cycle, completion_cycles>>
vars   == <<registers, golden, rows>>

Rejected == [accepted |-> FALSE, done_cycle |-> 0, latency_cycles |-> 0]

AcceptedRow(at, completion) ==
  [accepted |-> TRUE, done_cycle |-> completion, latency_cycles |-> completion - at]

NoRows == [rtl |-> Rejected, model |-> Rejected]

GoldenInit ==
  /\ busy_until_cycle = [b \in Banks |-> 0]
  /\ completion_cycles = [b \in Banks |-> <<>>]
  /\ rows = NoRows

HInit == Init /\ GoldenInit

-----------------------------------------------------------------------------
(* run_rtl: the outputs sampled before the posedge.                        *)
RtlRow(b) ==
  IF ready(b) THEN AcceptedRow(cycle_counter, cycle_counter + latency_cycles(b))
  ELSE Rejected

(* The queue from its first completion after `cycle' on.                   *)
From(queue, cycle) ==
  LET left == {k \in DOMAIN queue : queue[k] > cycle}
  IN  IF left = {} THEN <<>> ELSE SubSeq(queue, Min(left), Len(queue))

(* Mutant: a request that completes in the issue cycle still counts.       *)
Drained_Strict(b, issue_cycle) == From(completion_cycles[b], issue_cycle - 1)

(* The while loop pops what is completed, from the front.                  *)
Drained(b, issue_cycle) == From(completion_cycles[b], issue_cycle)

Enqueued(queue, completion) == Append(queue, completion)

ServiceStart(b, issue_cycle) ==
  IF issue_cycle < busy_until_cycle[b] THEN busy_until_cycle[b] ELSE issue_cycle

(* run_aligned_model, for one request.                                     *)
GoldenRequest(b, issue_cycle) ==
  LET drained == Drained(b, issue_cycle)
      completion == ServiceStart(b, issue_cycle) + SERVICE_LATENCY_CYCLES
      accepts == Len(drained) < QUEUE_DEPTH
  IN  /\ completion_cycles' = [completion_cycles EXCEPT
           ![b] = IF accepts THEN Enqueued(drained, completion) ELSE drained]
      /\ busy_until_cycle' = [busy_until_cycle EXCEPT
           ![b] = IF accepts THEN completion ELSE @]
      /\ rows' = [rtl |-> RtlRow(b),
                  model |-> IF accepts THEN AcceptedRow(issue_cycle, completion)
                            ELSE Rejected]

(* The cycles between two requests of the trace.                           *)
IdleCycle == Idle /\ UNCHANGED <<golden, rows>>

TraceRequest(addr) ==
  /\ Request(addr)
  /\ GoldenRequest(bank_id(addr), cycle_counter)

(* The next workload starts with a fresh RTL and fresh banks.              *)
NextWorkload ==
  /\ Reset
  /\ busy_until_cycle' = [b \in Banks |-> 0]
  /\ completion_cycles' = [b \in Banks |-> <<>>]
  /\ rows' = NoRows

HNext == IdleCycle \/ (\E addr \in Addresses : TraceRequest(addr)) \/ NextWorkload

HSpec == HInit /\ [][HNext]_vars
-----------------------------------------------------------------------------
(* For every request both accept or both reject, with the same completion  *)
(* cycle and latency: this is why the two summaries can be expected to be  *)
(* equal, and not only close.                                              *)
RowsAgree == rows.rtl = rows.model
=============================================================================
