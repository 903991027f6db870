----------------------- MODULE BankedMemoryController -----------------------
(***************************************************************************)
(* Project H, rtl/banked_memory_controller.sv: per bank a ring buffer of   *)
(* the cycles in which its requests complete.  One step is one posedge of  *)
(* clk with `valid' and `addr' applied; the registers keep their names.    *)
(* Slots and banks count from 0.  The counters are 32 and 64 bits wide and *)
(* far from their limits within LastCycle cycles.                          *)
(***************************************************************************)
EXTENDS Integers

CONSTANTS
  BANK_COUNT, INTERLEAVE_BYTES, SERVICE_LATENCY_CYCLES, QUEUE_DEPTH,
  Addresses,   \* the addresses a trace may ask for
  LastCycle    \* the last cycle a workload of the trace uses

(* validate_config of the harness.                                         *)
ASSUME ParametersAssumption ==
  /\ BANK_COUNT \in Nat \ {0}
  /\ INTERLEAVE_BYTES \in Nat \ {0}
  /\ SERVICE_LATENCY_CYCLES \in Nat \ {0}
  /\ QUEUE_DEPTH \in Nat \ {0}
  /\ Addresses \subseteq Nat
  /\ LastCycle \in Nat

VARIABLES
  cycle_counter, outstanding_count, head_index, tail_index, completion_cycle,
  bank_next_available_cycle, accepted, done

registers == <<cycle_counter, outstanding_count, head_index, tail_index,
               completion_cycle, bank_next_available_cycle, accepted, done>>

Banks == 0..(BANK_COUNT - 1)
Slots == 0..(QUEUE_DEPTH - 1)

(* The state after the posedges with reset high.                           *)
Init ==
  /\ cycle_counter = 0
  /\ outstanding_count = [b \in Banks |-> 0]
  /\ head_index = [b \in Banks |-> 0]
  /\ tail_index = [b \in Banks |-> 0]
  /\ completion_cycle = [b \in Banks |-> [s \in Slots |-> 0]]
  /\ bank_next_available_cycle = [b \in Banks |-> 0]
  /\ accepted = FALSE
  /\ done = FALSE

next_queue_index(index) == IF index + 1 >= QUEUE_DEPTH THEN 0 ELSE index + 1

-----------------------------------------------------------------------------
(* always_comb.                                                            *)

bank_id(addr) == (addr \div INTERLEAVE_BYTES) % BANK_COUNT

(* The oldest request of bank b completes in this cycle.                   *)
Completes(b) ==
  outstanding_count[b] > 0 /\ completion_cycle[b][head_index[b]] <= cycle_counter

effective_outstanding(b) ==
  IF Completes(b) THEN outstanding_count[b] - 1 ELSE outstanding_count[b]

(* Mutant: one request more than there are slots.                          *)
ready_OneTooMany(b) == effective_outstanding(b) <= QUEUE_DEPTH

ready(b) == effective_outstanding(b) < QUEUE_DEPTH

(* Mutant: service starts at once, whatever the bank is still busy with.   *)
accepted_done_cycle_Parallel(b) == SERVICE_LATENCY_CYCLES + cycle_counter

accepted_done_cycle(b) ==
  SERVICE_LATENCY_CYCLES + (IF bank_next_available_cycle[b] > cycle_counter
                              THEN bank_next_available_cycle[b] ELSE cycle_counter)

latency_cycles(b) == IF ready(b) THEN accepted_done_cycle(b) - cycle_counter ELSE 0

-----------------------------------------------------------------------------
(* always_ff.  The assignments of the valid branch come after those of the *)
(* loop, so the count of the accepting bank is the combinational one.      *)

(* Mutant: the count is the registered one, without the completion.        *)
NextCount_Registered(b, accepts) ==
  IF accepts THEN outstanding_count[b] + 1 ELSE effective_outstanding(b)

NextCount(b, accepts) ==
  IF accepts THEN effective_outstanding(b) + 1 ELSE effective_outstanding(b)

Clock(accepting) ==
  /\ outstanding_count' = [b \in Banks |-> NextCount(b, b \in accepting)]
  /\ head_index' = [b \in Banks |-> IF Completes(b) THEN next_queue_index(head_index[b])
                                    ELSE head_index[b]]
  /\ tail_index' = [b \in Banks |-> IF b \in accepting THEN next_queue_index(tail_index[b])
                                    ELSE tail_index[b]]
  /\ completion_cycle' = [b \in Banks |->
       IF b \in accepting
         THEN [completion_cycle[b] EXCEPT ![tail_index[b]] = accepted_done_cycle(b)]
         ELSE completion_cycle[b]]
  /\ bank_next_available_cycle' = [b \in Banks |->
       IF b \in accepting THEN accepted_done_cycle(b) ELSE bank_next_available_cycle[b]]
  /\ accepted' = (accepting # {})
  /\ done' = \E b \in Banks : Completes(b)
  /\ cycle_counter' = cycle_counter + 1

(* A posedge without and one with a valid request.                         *)
Idle == cycle_counter < LastCycle /\ Clock({})

Request(addr) ==
  /\ cycle_counter < LastCycle
  /\ Clock(IF ready(bank_id(addr)) THEN {bank_id(addr)} ELSE {})

Reset ==
  /\ cycle_counter' = 0
  /\ outstanding_count' = [b \in Banks |-> 0]
  /\ head_index' = [b \in Banks |-> 0]
  /\ tail_index' = [b \in Banks |-> 0]
  /\ completion_cycle' = [b \in Banks |-> [s \in Slots |-> 0]]
  /\ bank_next_available_cycle' = [b \in Banks |-> 0]
  /\ accepted' = FALSE
  /\ done' = FALSE

Next == Idle \/ (\E addr \in Addresses : Request(addr)) \/ Reset

Spec == Init /\ [][Next]_registers
-----------------------------------------------------------------------------
(***************************************************************************)
(* Properties.                                                             *)
(***************************************************************************)

(* Every register stays in the range its declaration and use give it.      *)
TypeOK ==
  /\ cycle_counter \in Nat
  /\ outstanding_count \in [Banks -> 0..QUEUE_DEPTH]
  /\ head_index \in [Banks -> Slots]
  /\ tail_index \in [Banks -> Slots]
  /\ completion_cycle \in [Banks -> [Slots -> Nat]]
  /\ bank_next_available_cycle \in [Banks -> Nat]
  /\ accepted \in BOOLEAN
  /\ done \in BOOLEAN

(* The slot k places behind a head index, and that of bank b.              *)
SlotFrom(head, k) == IF head + k < QUEUE_DEPTH THEN head + k ELSE head + k - QUEUE_DEPTH

Slot(b, k) == SlotFrom(head_index[b], k)

(* The tail is outstanding_count slots behind the head: the two indices    *)
(* and the count, updated by different branches, never disagree.           *)
RingConsistent ==
  \A b \in Banks : tail_index[b] = Slot(b, outstanding_count[b])

(* The unfinished requests of a bank complete in queue order, a service    *)
(* latency apart, the oldest not before now and the last one when the bank *)
(* becomes available.  So one pop per cycle is enough to drain the ring.   *)
ServedInOrder ==
  \A b \in Banks :
    LET n == outstanding_count[b]
        completion(k) == completion_cycle[b][Slot(b, k)]
    IN  n > 0 => /\ completion(0) >= cycle_counter
                 /\ completion(n - 1) = bank_next_available_cycle[b]
                 /\ \A k \in 1..(n - 1) :
                      completion(k) = completion(k - 1) + SERVICE_LATENCY_CYCLES

(* An accepted request completes within QUEUE_DEPTH service latencies.     *)
LatencyBounded ==
  \A b \in Banks : latency_cycles(b) <= QUEUE_DEPTH * SERVICE_LATENCY_CYCLES

Abstract == INSTANCE BankedMemory WITH
              cycle <- cycle_counter,
              inflight <- [b \in Banks |->
                {completion_cycle[b][Slot(b, k)] : k \in 0..(outstanding_count[b] - 1)}]

(* The ring buffers implement the banked memory.                           *)
ImplementsBankedMemory == Abstract!Spec
=============================================================================
