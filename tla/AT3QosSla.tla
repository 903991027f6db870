----------------------------- MODULE AT3QosSla -----------------------------
(***************************************************************************)
(* AT-3, examples/at/qos_sensitivity_sla/main.cpp: the fabric with an      *)
(* arbiter that gives every initiator `weights' slots per round, initiators *)
(* that issue in bursts, and a target that admits every waiting request a  *)
(* free slot allows.                                                       *)
(***************************************************************************)
EXTENDS MultiInitiator

CONSTANT WeightOptions   \* the option records a run of AT-3 may be started with

(* What parse_options lets through; it rejects a weight of zero.           *)
ASSUME WeightOptionsAssumption ==
  WeightOptions \subseteq
    [num_transactions : Nat \ {0}, queue_depth : Nat \ {0}, service_latency : Nat,
     issue_gap : [Initiators -> Nat], burstiness : [Initiators -> Nat \ {0}],
     weights : [Initiators -> Nat \ {0}]]

AT3Init == opt \in WeightOptions /\ Init

(* issue_gap_after: none inside a burst, twice the burst's gaps after it.  *)
IssueGapAfter(i, k) ==
  LET burst == opt.burstiness[i]
  IN  IF burst <= 1 THEN opt.issue_gap[i]
      ELSE IF k % burst = 0 THEN opt.issue_gap[i] * burst * 2
      ELSE 0

AT3Issue(i) == IssueRequests(i, IssueGapAfter(i, next_txn[i]))

(* build_weighted_order of AT-3: weights[0] slots for cpu0, and so on.     *)
WeightedOrder(weights) ==
  [s \in 1..(weights[0] + weights[1] + weights[2]) |->
     IF s <= weights[0] THEN 0 ELSE IF s <= weights[0] + weights[1] THEN 1 ELSE 2]

(* choose_next_initiator of AT-3: the scan, then the first pending one.    *)
ChooseByWeight(weights, requesters, cursor) ==
  LET scan == WeightedScan(WeightedOrder(weights), requesters, 0, cursor)
  IN  IF scan.winner # None \/ requesters = {} THEN scan
      ELSE Choice(CHOOSE i \in requesters : \A j \in requesters : i <= j, 0, cursor)

AT3Arbitrate == ArbitrateRequests(ChooseByWeight(opt.weights, HasPending, weighted_cursor))

(* The program has its own copy of the other classes; they take the steps  *)
(* of their namesakes in AT-2.                                             *)
InitiatorResponses == \E i \in Initiators : SendEndResponses(i)
TargetAccepts == SendEndRequests
TargetServes == ServiceRequests
TopStops == StopWhenDone

AT3Thread ==
  \/ \E i \in Initiators : AT3Issue(i)
  \/ InitiatorResponses
  \/ AT3Arbitrate
  \/ TargetAccepts
  \/ TargetServes
  \/ TopStops

(* While initiator i waits, j is granted at most weights[j] times: the QoS *)
(* guarantee the weights stand for, although the cursor skips the slots of *)
(* initiators that have nothing pending.                                   *)
WeightedShare ==
  \A i, j \in Initiators : i # j => passed[i][j] <= opt.weights[j]
=============================================================================
