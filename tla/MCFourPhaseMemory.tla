------------------------- MODULE MCFourPhaseMemory -------------------------
(* AT-1 for TLC: every combination of small options.                       *)
EXTENDS FourPhaseMemory

CONSTANTS MaxTransactions, MaxDepth, MaxLatency, MaxGap

MCOptions == [num_transactions : 1..MaxTransactions, queue_depth : 1..MaxDepth,
              service_latency : 0..MaxLatency, issue_gap : 0..MaxGap]
=============================================================================
