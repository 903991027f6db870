------------------------------ MODULE MCFabrics ------------------------------
(***************************************************************************)
(* AT-2 and AT-3 for TLC: small sets of options for both programs.         *)
(***************************************************************************)
EXTENDS Fabrics

CONSTANTS N, Depths, Latencies, Gaps, WeightGaps, Bursts, Weights

(* AT-2: every policy, each initiator with and without gaps.               *)
MCPolicyOptions ==
  [num_transactions : {N}, queue_depth : Depths, service_latency : Latencies,
   issue_gap : [Initiators -> Gaps], policy : Policies]

(* AT-3: one gap for all three initiators; cpu0 does not issue in bursts   *)
(* and dma0 has one slot.                                                  *)
MCWeightOptions ==
  [num_transactions : {N}, queue_depth : Depths, service_latency : Latencies,
   issue_gap : {[i \in Initiators |-> g] : g \in WeightGaps},
   burstiness : {b \in [Initiators -> Bursts] : b[0] = 1},
   weights : {w \in [Initiators -> Weights] : w[1] = 1}]
=============================================================================
