---------------------------- MODULE BankedMemory ----------------------------
(***************************************************************************)
(* What Project H promises of a banked memory: every bank serves one       *)
(* request after the other, SERVICE_LATENCY_CYCLES each, and takes a       *)
(* request only while fewer than QUEUE_DEPTH are unfinished.  The RTL and  *)
(* its C++ golden model are both shown to implement it.                    *)
(***************************************************************************)
EXTENDS Integers, FiniteSets

CONSTANTS Banks, SERVICE_LATENCY_CYCLES, QUEUE_DEPTH

VARIABLES
  cycle,
  inflight   \* bank -> the cycles in which its unfinished requests complete

Init == cycle = 0 /\ inflight = [b \in Banks |-> {}]

(* The requests that are still unfinished when this cycle is over.         *)
Remaining(b) == {c \in inflight[b] : c > cycle}

Completion(b) ==
  SERVICE_LATENCY_CYCLES +
    (IF Remaining(b) = {} THEN cycle
     ELSE CHOOSE c \in Remaining(b) : \A d \in Remaining(b) : d <= c)

Idle ==
  /\ inflight' = [b \in Banks |-> Remaining(b)]
  /\ cycle' = cycle + 1

Accept(b) ==
  /\ Cardinality(Remaining(b)) < QUEUE_DEPTH
  /\ inflight' = [c \in Banks |-> IF c = b THEN Remaining(b) \cup {Completion(b)}
                                  ELSE Remaining(c)]
  /\ cycle' = cycle + 1

Reset == cycle' = 0 /\ inflight' = [b \in Banks |-> {}]

Next == Idle \/ (\E b \in Banks : Accept(b)) \/ Reset

Spec == Init /\ [][Next]_<<cycle, inflight>>
=============================================================================
