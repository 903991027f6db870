--------------------------- MODULE AT2Arbitration ---------------------------
(***************************************************************************)
(* AT-2, examples/at/multi_initiator_arbitration/main.cpp: the fabric with *)
(* a round-robin, fixed-priority or weighted arbitration policy.           *)
(***************************************************************************)
EXTENDS MultiInitiator

CONSTANT PolicyOptions   \* the option records a run of AT-2 may be started with

Policies == {"round_robin", "fixed_priority", "weighted_priority"}

(* What parse_options lets through.                                        *)
ASSUME PolicyOptionsAssumption ==
  PolicyOptions \subseteq
    [num_transactions : Nat \ {0}, queue_depth : Nat \ {0}, service_latency : Nat,
     issue_gap : [Initiators -> Nat], policy : Policies]

(* Mutant: the search starts at the last winner.                           *)
RoundRobin_SelfFirst(requesters, rr, cursor) ==
  LET hit(offset)  == ((rr + offset) % 3) \in requesters
      first == CHOOSE o \in 0..2 : hit(o) /\ \A p \in 0..(o - 1) : ~hit(p)
  IN  IF requesters = {} THEN Choice(None, rr, cursor)
      ELSE Choice((rr + first) % 3, (rr + first) % 3, cursor)

(* RoundRobin: the first pending initiator after the last winner.          *)
RoundRobin(requesters, rr, cursor) ==
  LET hit(offset)  == ((rr + offset) % 3) \in requesters
      first == CHOOSE o \in 1..3 : hit(o) /\ \A p \in 1..(o - 1) : ~hit(p)
  IN  IF requesters = {} THEN Choice(None, rr, cursor)
      ELSE Choice((rr + first) % 3, (rr + first) % 3, cursor)

(* FixedPriority: dma0 before cpu0 before accel0.                          *)
FixedOrder == <<1, 0, 2>>

FixedPriority(requesters, rr, cursor) ==
  LET first == CHOOSE p \in 1..3 : /\ FixedOrder[p] \in requesters
                                   /\ \A q \in 1..(p - 1) : FixedOrder[q] \notin requesters
  IN  IF requesters = {} THEN Choice(None, rr, cursor)
      ELSE Choice(FixedOrder[first], rr, cursor)

(* WeightedPriority of AT-2: three slots for accel0, one for each other.   *)
AT2WeightedOrder == <<2, 2, 2, 0, 1>>

(* choose_next_initiator of AT-2.                                          *)
ChooseNextInitiator(policy, requesters, rr, cursor) ==
  CASE policy = "round_robin"       -> RoundRobin(requesters, rr, cursor)
    [] policy = "fixed_priority"    -> FixedPriority(requesters, rr, cursor)
    [] policy = "weighted_priority" -> WeightedScan(AT2WeightedOrder, requesters, rr, cursor)

AT2Init == opt \in PolicyOptions /\ Init

AT2Issue(i) == IssueRequests(i, opt.issue_gap[i])

AT2Arbitrate ==
  ArbitrateRequests(ChooseNextInitiator(opt.policy, HasPending, last_rr_index,
                                        weighted_cursor))

AT2Thread ==
  \/ \E i \in Initiators : AT2Issue(i)
  \/ \E i \in Initiators : SendEndResponses(i)
  \/ AT2Arbitrate
  \/ SendEndRequests
  \/ ServiceRequests
  \/ StopWhenDone

(* How often initiator j may be granted while i waits, for each policy:    *)
(* once per round, never if i is ahead in the fixed order, or once for     *)
(* each of the slots j has in the weighted order.                          *)
OvertakingBound(i, j) ==
  CASE opt.policy = "round_robin" -> 1
    [] opt.policy = "fixed_priority" ->
         IF \E p, q \in 1..3 : p < q /\ FixedOrder[p] = i /\ FixedOrder[q] = j
           THEN 0 ELSE opt.num_transactions
    [] opt.policy = "weighted_priority" -> IF j = 2 THEN 3 ELSE 1

(* A waiting initiator is not overtaken more often than its policy allows, *)
(* whatever the order in which the threads of a delta cycle run.           *)
BoundedOvertaking ==
  \A i, j \in Initiators : i # j => passed[i][j] <= OvertakingBound(i, j)
=============================================================================
