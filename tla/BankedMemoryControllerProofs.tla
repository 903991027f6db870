-------------------- MODULE BankedMemoryControllerProofs --------------------
(***************************************************************************)
(* The ring buffers of Project H for every number of banks, every queue    *)
(* depth, every latency and every trace: the registers stay in range, head,*)
(* tail and count agree, requests complete in order, and none takes longer *)
(* than QUEUE_DEPTH service latencies.  From that the rings implement the  *)
(* banked memory, and the golden model gives every request the row the RTL *)
(* gives it.                                                               *)
(***************************************************************************)
EXTENDS ProjectH, FiniteSetTheorems, SequenceTheorems, TLAPS

(* The completion cycle k places behind the head of bank b.                *)
Completion(b, k) == completion_cycle[b][Slot(b, k)]

(* The queue of a bank, completion by completion: every one is still to    *)
(* come, each a service latency after its predecessor, the first one at    *)
(* most a service latency away.  An idle bank is available.                *)
QueueInv(b) ==
  /\ outstanding_count[b] = 0 => bank_next_available_cycle[b] <= cycle_counter
  /\ outstanding_count[b] > 0 =>
       /\ Completion(b, 0) <= cycle_counter + SERVICE_LATENCY_CYCLES
       /\ Completion(b, outstanding_count[b] - 1) = bank_next_available_cycle[b]
       /\ bank_next_available_cycle[b] =
            Completion(b, 0) + (outstanding_count[b] - 1) * SERVICE_LATENCY_CYCLES
  /\ \A k \in 0..(outstanding_count[b] - 1) : Completion(b, k) >= cycle_counter
  /\ \A k \in 1..(outstanding_count[b] - 1) :
       Completion(b, k) = Completion(b, k - 1) + SERVICE_LATENCY_CYCLES

(* The inductive invariant.                                                *)
Inv ==
  /\ TypeOK
  /\ RingConsistent
  /\ \A b \in Banks : QueueInv(b)

(* What is known of one bank, in terms of its own registers.               *)
LEMMA BankFacts ==
  ASSUME Inv, NEW b \in Banks
  PROVE  /\ cycle_counter \in Nat
         /\ outstanding_count[b] \in 0..QUEUE_DEPTH
         /\ head_index[b] \in Slots
         /\ tail_index[b] \in Slots
         /\ completion_cycle[b] \in [Slots -> Nat]
         /\ bank_next_available_cycle[b] \in Nat
         /\ tail_index[b] = Slot(b, outstanding_count[b])
         /\ QueueInv(b)
BY DEF Inv, TypeOK, RingConsistent

(* The slots are numbered from the head on without a gap or a repetition.  *)
LEMMA SlotsDiffer ==
  ASSUME Inv, NEW b \in Banks
  PROVE  /\ \A k \in 0..(QUEUE_DEPTH - 1) : Slot(b, k) \in Slots
         /\ \A k, l \in 0..(QUEUE_DEPTH - 1) : Slot(b, k) = Slot(b, l) => k = l
<1>1. head_index[b] \in 0..(QUEUE_DEPTH - 1) /\ QUEUE_DEPTH \in Nat \ {0}
  BY BankFacts, ParametersAssumption DEF Slots
<1> QED BY <1>1 DEF Slot, SlotFrom, Slots

(* The bank an address selects exists.                                     *)
LEMMA BankExists ==
  ASSUME NEW addr \in Addresses
  PROVE  bank_id(addr) \in Banks
<1>1. addr \div INTERLEAVE_BYTES \in Int
  BY ParametersAssumption
<1>2. \A n \in Int : n % BANK_COUNT \in 0..(BANK_COUNT - 1)
  BY ParametersAssumption
<1> QED BY <1>1, <1>2 DEF bank_id, Banks

(* The registers after power-up satisfy the invariant.                     *)
LEMMA InitInv == Init => Inv
<1> SUFFICES ASSUME Init PROVE Inv
  OBVIOUS
<1>1. QUEUE_DEPTH \in Nat \ {0} /\ SERVICE_LATENCY_CYCLES \in Nat \ {0}
  BY ParametersAssumption
<1>2. TypeOK
  <2>1. 0 \in Slots
    BY <1>1 DEF Slots
  <2>2. completion_cycle \in [Banks -> [Slots -> Nat]]
    BY DEF Init
  <2>3. head_index \in [Banks -> Slots] /\ tail_index \in [Banks -> Slots]
    BY <2>1 DEF Init
  <2>4. outstanding_count \in [Banks -> 0..QUEUE_DEPTH]
    BY <1>1 DEF Init
  <2> QED BY <2>2, <2>3, <2>4 DEF Init, TypeOK
<1>3. RingConsistent
  BY <1>1 DEF Init, RingConsistent, Slot, SlotFrom
<1>4. \A b \in Banks : QueueInv(b)
  BY <1>1 DEF Init, QueueInv
<1> QED BY <1>2, <1>3, <1>4 DEF Inv
-----------------------------------------------------------------------------
(* What a posedge does to one bank.                                        *)
Pops(b) == IF Completes(b) THEN 1 ELSE 0

(* The ring is renumbered by the pop; the tail is behind what remains.     *)
LEMMA PopRenumbers ==
  ASSUME Inv, NEW b \in Banks, NEW accepting \in SUBSET Banks, Clock(accepting)
  PROVE  /\ effective_outstanding(b) = outstanding_count[b] - Pops(b)
         /\ effective_outstanding(b) \in 0..QUEUE_DEPTH
         /\ head_index'[b] \in Slots
         /\ \A k \in 0..(QUEUE_DEPTH - 1) :
              SlotFrom(head_index'[b], k) = Slot(b, k + Pops(b))
         /\ SlotFrom(head_index'[b], effective_outstanding(b)) = tail_index[b]
<1>1. /\ QUEUE_DEPTH \in Nat \ {0}
      /\ outstanding_count[b] \in 0..QUEUE_DEPTH
      /\ head_index[b] \in 0..(QUEUE_DEPTH - 1)
      /\ tail_index[b] = Slot(b, outstanding_count[b])
  BY BankFacts, ParametersAssumption DEF Slots
<1>2. head_index'[b] = IF Completes(b) THEN next_queue_index(head_index[b])
                       ELSE head_index[b]
  BY DEF Clock
<1>3. CASE Completes(b)
  <2>1. Pops(b) = 1 /\ outstanding_count[b] > 0
    BY <1>3 DEF Pops, Completes
  <2>2. head_index'[b] = IF head_index[b] + 1 >= QUEUE_DEPTH THEN 0 ELSE head_index[b] + 1
    BY <1>2, <1>3 DEF next_queue_index
  <2>3. effective_outstanding(b) = outstanding_count[b] - 1
    BY <1>3 DEF effective_outstanding
  <2> QED BY <1>1, <2>1, <2>2, <2>3 DEF Slot, SlotFrom, Slots
<1>4. CASE ~Completes(b)
  <2>1. Pops(b) = 0 /\ head_index'[b] = head_index[b]
        /\ effective_outstanding(b) = outstanding_count[b]
    BY <1>2, <1>4 DEF Pops, effective_outstanding
  <2> QED BY <1>1, <2>1 DEF Slot, SlotFrom, Slots
<1> QED BY <1>3, <1>4

(* What is left of the queue after the pop, in the new numbering but the   *)
(* old completion cycles: it is as QueueInv says, one cycle later.         *)
Left(b, k) == Completion(b, k + Pops(b))

(* The pop at a clock edge leaves a queue whose completions are still to   *)
(* come.                                                                   *)
LEMMA PopKeepsQueue ==
  ASSUME Inv, NEW b \in Banks
  PROVE  LET e == outstanding_count[b] - Pops(b)
         IN  /\ \A k \in 0..(e - 1) : Left(b, k) \in Nat
             /\ e = 0 => bank_next_available_cycle[b] <= cycle_counter
             /\ e > 0 =>
                  /\ Left(b, 0) <= cycle_counter + SERVICE_LATENCY_CYCLES
                  /\ Left(b, e - 1) = bank_next_available_cycle[b]
                  /\ bank_next_available_cycle[b] =
                       Left(b, 0) + (e - 1) * SERVICE_LATENCY_CYCLES
                  /\ bank_next_available_cycle[b] > cycle_counter
             /\ \A k \in 0..(e - 1) : Left(b, k) >= cycle_counter + 1
             /\ \A k \in 1..(e - 1) : Left(b, k) = Left(b, k - 1) + SERVICE_LATENCY_CYCLES
<1> DEFINE n == outstanding_count[b]
           e == n - Pops(b)
           L == SERVICE_LATENCY_CYCLES
           a == bank_next_available_cycle[b]
<1>1. /\ QUEUE_DEPTH \in Nat \ {0} /\ L \in Nat \ {0} /\ cycle_counter \in Nat
      /\ n \in 0..QUEUE_DEPTH /\ a \in Nat
      /\ completion_cycle[b] \in [Slots -> Nat]
  BY BankFacts, ParametersAssumption
<1>2. \A k \in 0..(n - 1) : Completion(b, k) \in Nat
  BY <1>1, SlotsDiffer DEF Completion
<1>3. /\ n = 0 => a <= cycle_counter
      /\ n > 0 => /\ Completion(b, 0) <= cycle_counter + L
                  /\ Completion(b, n - 1) = a
                  /\ a = Completion(b, 0) + (n - 1) * L
      /\ \A k \in 0..(n - 1) : Completion(b, k) >= cycle_counter
      /\ \A k \in 1..(n - 1) : Completion(b, k) = Completion(b, k - 1) + L
  BY BankFacts DEF QueueInv
<1>4. n > 0 => (Completes(b) <=> Completion(b, 0) <= cycle_counter)
  <2>1. Slot(b, 0) = head_index[b]
    BY BankFacts, <1>1 DEF Slot, SlotFrom, Slots
  <2> QED BY <1>1, <2>1 DEF Completes, Completion
<1> HIDE DEF n, L, a
<1>5. CASE Completes(b)
  <2>1. Pops(b) = 1 /\ n > 0
    BY <1>5 DEF Pops, Completes, n
  <2>2. Completion(b, 0) = cycle_counter
    BY <1>1, <1>2, <1>3, <1>4, <1>5, <2>1
  <2>3. \A k \in 0..(e - 1) : Left(b, k) = Completion(b, k + 1)
    BY <2>1 DEF Left
  <2>4. \A k \in 0..(e - 1) : Left(b, k) = Completion(b, k) + L
    <3>1. TAKE k \in 0..(e - 1)
    <3>2. k + 1 \in 1..(n - 1) /\ (k + 1) - 1 = k
      BY <1>1, <2>1
    <3> QED BY <1>3, <2>3, <3>2
  <2>5. \A k \in 0..(e - 1) : Left(b, k) \in Nat /\ Left(b, k) >= cycle_counter + 1
    <3>1. TAKE k \in 0..(e - 1)
    <3>2. k \in 0..(n - 1)
      BY <1>1, <2>1
    <3> QED BY <1>1, <1>2, <1>3, <2>4, <3>2
  <2>6. \A k \in 1..(e - 1) : Left(b, k) = Left(b, k - 1) + L
    <3>1. TAKE k \in 1..(e - 1)
    <3>2. k \in 0..(e - 1) /\ k - 1 \in 0..(e - 1) /\ k \in 1..(n - 1)
      BY <1>1, <2>1
    <3> QED BY <1>3, <2>4, <3>2
  <2>7. (n - 1) * L = e * L /\ e * L = L + (e - 1) * L
    BY <1>1, <2>1
  <2>8. e > 0 => /\ Left(b, 0) = cycle_counter + L
                 /\ Left(b, e - 1) = a
                 /\ a = Left(b, 0) + (e - 1) * L
    <3>1. SUFFICES ASSUME e > 0 PROVE /\ Left(b, 0) = cycle_counter + L
                                      /\ Left(b, e - 1) = a
                                      /\ a = Left(b, 0) + (e - 1) * L
      OBVIOUS
    <3>2. 0 \in 0..(e - 1) /\ e - 1 \in 0..(e - 1) /\ (e - 1) + 1 = n - 1
      BY <1>1, <2>1, <3>1
    <3>3. Left(b, 0) = cycle_counter + L
      BY <2>2, <2>4, <3>2
    <3>4. Left(b, e - 1) = a
      BY <1>3, <2>1, <2>3, <3>2
    <3>5. a = cycle_counter + e * L
      BY <1>3, <2>1, <2>2, <2>7
    <3>6. (e - 1) * L \in Int /\ e * L \in Int
      BY <1>1, <2>1
    <3> QED BY <1>1, <2>7, <3>3, <3>4, <3>5, <3>6
  <2>9. e > 0 => a > cycle_counter
    <3>1. SUFFICES ASSUME e > 0 PROVE a > cycle_counter
      OBVIOUS
    <3>2. e - 1 \in 0..(e - 1)
      BY <1>1, <2>1, <3>1
    <3> QED BY <1>1, <2>5, <2>8, <3>1, <3>2
  <2>10. e = 0 => a <= cycle_counter
    <3>1. SUFFICES ASSUME e = 0 PROVE a <= cycle_counter
      OBVIOUS
    <3>2. n - 1 = 0
      BY <1>1, <2>1, <3>1
    <3> QED BY <1>1, <1>3, <2>1, <2>2, <3>2
  <2> QED BY <1>1, <2>5, <2>6, <2>8, <2>9, <2>10 DEF n, L, a
<1>6. CASE ~Completes(b)
  <2>1. Pops(b) = 0 /\ e = n
    BY <1>1, <1>6 DEF Pops
  <2>2. \A k \in 0..(n - 1) : Left(b, k) = Completion(b, k)
    BY <1>1, <2>1 DEF Left
  <2>3. \A k \in 0..(n - 1) : Left(b, k) \in Nat /\ Left(b, k) >= cycle_counter + 1
    <3>1. TAKE k \in 0..(n - 1)
    <3>2. CASE k = 0
      BY <1>1, <1>2, <1>4, <1>6, <2>2, <3>2
    <3>3. CASE k > 0
      <4>1. k \in 1..(n - 1) /\ k - 1 \in 0..(n - 1)
        BY <1>1, <3>3
      <4> QED BY <1>1, <1>2, <1>3, <2>2, <4>1
    <3> QED BY <1>1, <3>2, <3>3
  <2>4. \A k \in 1..(n - 1) : Left(b, k) = Left(b, k - 1) + L
    <3>1. TAKE k \in 1..(n - 1)
    <3>2. k \in 0..(n - 1) /\ k - 1 \in 0..(n - 1)
      BY <1>1
    <3> QED BY <1>3, <2>2, <3>2
  <2>5. n > 0 => 0 \in 0..(n - 1) /\ n - 1 \in 0..(n - 1)
    BY <1>1
  <2> QED BY <1>1, <1>3, <2>1, <2>2, <2>3, <2>4, <2>5 DEF n, L, a
<1> QED BY <1>5, <1>6
-----------------------------------------------------------------------------
(* The registers of one bank after a posedge.                              *)
LEMMA ClockedBank ==
  ASSUME NEW b \in Banks, NEW accepting \in SUBSET Banks, Clock(accepting)
  PROVE  /\ cycle_counter' = cycle_counter + 1
         /\ outstanding_count'[b] = NextCount(b, b \in accepting)
         /\ tail_index'[b] = IF b \in accepting THEN next_queue_index(tail_index[b])
                             ELSE tail_index[b]
         /\ completion_cycle'[b] =
              IF b \in accepting
                THEN [completion_cycle[b] EXCEPT ![tail_index[b]] = accepted_done_cycle(b)]
                ELSE completion_cycle[b]
         /\ bank_next_available_cycle'[b] =
              IF b \in accepting THEN accepted_done_cycle(b) ELSE bank_next_available_cycle[b]
BY DEF Clock

(* A bank that accepts nothing keeps what the pop left of its queue.       *)
LEMMA QuietBank ==
  ASSUME Inv, NEW b \in Banks, NEW accepting \in SUBSET Banks, Clock(accepting),
         b \notin accepting
  PROVE  QueueInv(b)' /\ tail_index'[b] = SlotFrom(head_index'[b], outstanding_count'[b])
<1> DEFINE e == outstanding_count[b] - Pops(b)
           C(k) == completion_cycle'[b][SlotFrom(head_index'[b], k)]
<1>1. /\ cycle_counter' = cycle_counter + 1
      /\ outstanding_count'[b] = e
      /\ tail_index'[b] = tail_index[b]
      /\ completion_cycle'[b] = completion_cycle[b]
      /\ bank_next_available_cycle'[b] = bank_next_available_cycle[b]
  BY ClockedBank, PopRenumbers DEF NextCount
<1>2. e \in 0..QUEUE_DEPTH /\ QUEUE_DEPTH \in Nat \ {0}
      /\ SERVICE_LATENCY_CYCLES \in Nat /\ cycle_counter \in Nat
  BY PopRenumbers, BankFacts, ParametersAssumption
<1>3. \A k \in 0..(QUEUE_DEPTH - 1) : C(k) = Left(b, k)
  BY <1>1, PopRenumbers DEF Left, Completion
<1>4. \A k \in 0..(e - 1) : C(k) = Left(b, k)
  BY <1>2, <1>3
<1>5. e > 0 => 0 \in 0..(e - 1) /\ e - 1 \in 0..(e - 1)
  BY <1>2
<1>6. \A k \in 1..(e - 1) : k \in 0..(e - 1) /\ k - 1 \in 0..(e - 1)
  BY <1>2
<1>7. /\ e = 0 => bank_next_available_cycle[b] <= cycle_counter
      /\ e > 0 => /\ C(0) <= cycle_counter + SERVICE_LATENCY_CYCLES
                  /\ C(e - 1) = bank_next_available_cycle[b]
                  /\ bank_next_available_cycle[b] = C(0) + (e - 1) * SERVICE_LATENCY_CYCLES
      /\ \A k \in 0..(e - 1) : C(k) \in Nat /\ C(k) >= cycle_counter + 1
      /\ \A k \in 1..(e - 1) : C(k) = C(k - 1) + SERVICE_LATENCY_CYCLES
  <2> HIDE DEF C
  <2> QED BY <1>4, <1>5, <1>6, PopKeepsQueue
<1>8. /\ e = 0 => bank_next_available_cycle[b] <= cycle_counter + 1
      /\ e > 0 => C(0) <= cycle_counter + 1 + SERVICE_LATENCY_CYCLES
  <2>1. bank_next_available_cycle[b] \in Nat
    BY BankFacts
  <2> HIDE DEF C, e
  <2> QED BY <1>2, <1>5, <1>7, <2>1
<1>9. QueueInv(b)'
  BY <1>1, <1>7, <1>8 DEF QueueInv, Completion, Slot
<1>10. tail_index'[b] = SlotFrom(head_index'[b], outstanding_count'[b])
  BY <1>1, PopRenumbers
<1> QED BY <1>9, <1>10

(* A bank that accepts appends the new completion, a service latency after *)
(* the last one or, when it is empty, after now.                           *)
LEMMA AcceptingBank ==
  ASSUME Inv, NEW b \in Banks, NEW accepting \in SUBSET Banks, Clock(accepting),
         b \in accepting, ready(b)
  PROVE  QueueInv(b)' /\ tail_index'[b] = SlotFrom(head_index'[b], outstanding_count'[b])
<1> DEFINE e == outstanding_count[b] - Pops(b)
           L == SERVICE_LATENCY_CYCLES
           a == bank_next_available_cycle[b]
           d == accepted_done_cycle(b)
           C(k) == completion_cycle'[b][SlotFrom(head_index'[b], k)]
<1>1. /\ cycle_counter' = cycle_counter + 1
      /\ outstanding_count'[b] = e + 1
      /\ tail_index'[b] = next_queue_index(tail_index[b])
      /\ completion_cycle'[b] = [completion_cycle[b] EXCEPT ![tail_index[b]] = d]
      /\ bank_next_available_cycle'[b] = d
  BY ClockedBank, PopRenumbers DEF NextCount
<1>2. /\ e \in 0..(QUEUE_DEPTH - 1) /\ QUEUE_DEPTH \in Nat \ {0}
      /\ L \in Nat \ {0} /\ cycle_counter \in Nat /\ a \in Nat
      /\ completion_cycle[b] \in [Slots -> Nat]
      /\ tail_index[b] \in Slots /\ head_index'[b] \in Slots
      /\ tail_index[b] = SlotFrom(head_index'[b], e)
  BY PopRenumbers, BankFacts, ParametersAssumption DEF ready
<1>3. \A k \in 0..(QUEUE_DEPTH - 1) :
        /\ SlotFrom(head_index'[b], k) \in Slots
        /\ \A l \in 0..(QUEUE_DEPTH - 1) :
             SlotFrom(head_index'[b], k) = SlotFrom(head_index'[b], l) => k = l
  BY <1>2 DEF SlotFrom, Slots
<1>4. C(e) = d
  BY <1>1, <1>2
<1>5. \A k \in 0..(e - 1) : C(k) = Left(b, k)
  <2>1. TAKE k \in 0..(e - 1)
  <2>2. k \in 0..(QUEUE_DEPTH - 1) /\ k # e
    BY <1>2
  <2>3. SlotFrom(head_index'[b], k) # tail_index[b] /\ SlotFrom(head_index'[b], k) \in Slots
    BY <1>2, <1>3, <2>2
  <2>4. C(k) = completion_cycle[b][SlotFrom(head_index'[b], k)]
    BY <1>1, <1>2, <2>3
  <2> QED BY <2>2, <2>4, PopRenumbers DEF Left, Completion
<1>6. /\ e = 0 => d = cycle_counter + L
      /\ e > 0 => d = a + L
  BY <1>2, PopKeepsQueue DEF accepted_done_cycle
<1>7. /\ \A k \in 0..(e - 1) : C(k) \in Nat /\ C(k) >= cycle_counter + 1
      /\ \A k \in 1..(e - 1) : C(k) = C(k - 1) + L
      /\ e > 0 => C(0) <= cycle_counter + L /\ C(e - 1) = a /\ a = C(0) + (e - 1) * L
  <2>1. e > 0 => 0 \in 0..(e - 1) /\ e - 1 \in 0..(e - 1)
    BY <1>2
  <2>2. \A k \in 1..(e - 1) : k \in 0..(e - 1) /\ k - 1 \in 0..(e - 1)
    BY <1>2
  <2> HIDE DEF C
  <2> QED BY <1>5, <2>1, <2>2, PopKeepsQueue
<1> HIDE DEF e, L, a, d, C
<1>8. d \in Nat /\ d >= cycle_counter + 1
  <2>1. e > 0 => a >= cycle_counter + 1
    <3>1. e > 0 => e - 1 \in 0..(e - 1)
      BY <1>2
    <3> QED BY <1>7, <3>1
  <2> QED BY <1>2, <1>6, <2>1
<1>9. \A k \in 0..e : C(k) \in Nat /\ C(k) >= cycle_counter + 1
  BY <1>2, <1>4, <1>7, <1>8
<1>10. \A k \in 1..e : C(k) = C(k - 1) + L
  <2>1. TAKE k \in 1..e
  <2>2. CASE k = e
    BY <1>2, <1>4, <1>6, <1>7, <2>2
  <2>3. CASE k < e
    BY <1>2, <1>7, <2>3
  <2> QED BY <1>2, <2>2, <2>3
<1>11. C(0) <= cycle_counter + L /\ d = C(0) + e * L
  <2>1. CASE e = 0
    BY <1>2, <1>4, <1>6, <2>1
  <2>2. CASE e > 0
    <3>1. e * L = (e - 1) * L + L /\ e * L \in Int /\ (e - 1) * L \in Int
      BY <1>2
    <3>2. 0 \in 0..e /\ C(0) \in Nat
      BY <1>2, <1>9
    <3> QED BY <1>2, <1>6, <1>7, <2>2, <3>1, <3>2
  <2> QED BY <1>2, <2>1, <2>2
<1>12. QueueInv(b)'
  <2>1. outstanding_count'[b] - 1 = e /\ outstanding_count'[b] > 0
    BY <1>1, <1>2 DEF e
  <2>2. C(0) <= cycle_counter' + L
    BY <1>1, <1>2, <1>9, <1>11
  <2>3. /\ bank_next_available_cycle'[b] = d
        /\ \A k \in 0..e : C(k) >= cycle_counter'
    BY <1>1, <1>9 DEF d
  <2> QED BY <1>4, <1>10, <1>11, <2>1, <2>2, <2>3 DEF QueueInv, Completion, Slot, C, L
<1>13. tail_index'[b] = SlotFrom(head_index'[b], outstanding_count'[b])
  BY <1>1, <1>2 DEF SlotFrom, Slots, next_queue_index, e
<1> QED BY <1>12, <1>13
-----------------------------------------------------------------------------
(* The registers stay in range: a count only grows below QUEUE_DEPTH.      *)
LEMMA ClockTypeOK ==
  ASSUME Inv, NEW accepting \in SUBSET Banks, Clock(accepting),
         \A b \in accepting : ready(b)
  PROVE  TypeOK'
<1>1. /\ QUEUE_DEPTH \in Nat \ {0}
      /\ SERVICE_LATENCY_CYCLES \in Nat
      /\ cycle_counter \in Nat
  BY ParametersAssumption DEF Inv, TypeOK
<1>2. \A s \in Slots : next_queue_index(s) \in Slots
  BY <1>1 DEF next_queue_index, Slots
<1>3. \A b \in Banks :
        /\ NextCount(b, b \in accepting) \in 0..QUEUE_DEPTH
        /\ head_index[b] \in Slots /\ tail_index[b] \in Slots
        /\ accepted_done_cycle(b) \in Nat
        /\ completion_cycle[b] \in [Slots -> Nat]
        /\ bank_next_available_cycle[b] \in Nat
  <2>1. TAKE b \in Banks
  <2>2. effective_outstanding(b) \in 0..QUEUE_DEPTH
    BY PopRenumbers
  <2>3. NextCount(b, b \in accepting) \in 0..QUEUE_DEPTH
    BY <1>1, <2>2 DEF NextCount, ready
  <2>4. accepted_done_cycle(b) \in Nat
    BY <1>1, BankFacts DEF accepted_done_cycle
  <2> QED BY <2>3, <2>4, BankFacts
<1>4. cycle_counter' \in Nat
  BY <1>1 DEF Clock
<1>5. outstanding_count' \in [Banks -> 0..QUEUE_DEPTH]
  BY <1>3 DEF Clock
<1>6. head_index' \in [Banks -> Slots] /\ tail_index' \in [Banks -> Slots]
  BY <1>2, <1>3 DEF Clock
<1>7. completion_cycle' \in [Banks -> [Slots -> Nat]]
  BY <1>3 DEF Clock
<1>8. bank_next_available_cycle' \in [Banks -> Nat]
  BY <1>3 DEF Clock
<1>9. accepted' \in BOOLEAN /\ done' \in BOOLEAN
  BY DEF Clock
<1> QED BY <1>4, <1>5, <1>6, <1>7, <1>8, <1>9 DEF TypeOK

(* Every posedge keeps the invariant, bank by bank.                        *)
LEMMA ClockInv ==
  ASSUME Inv, NEW accepting \in SUBSET Banks, Clock(accepting),
         \A b \in accepting : ready(b)
  PROVE  Inv'
<1>1. \A b \in Banks :
        QueueInv(b)' /\ tail_index'[b] = SlotFrom(head_index'[b], outstanding_count'[b])
  <2>1. TAKE b \in Banks
  <2>2. CASE b \in accepting
    BY <2>2, AcceptingBank
  <2>3. CASE b \notin accepting
    BY <2>3, QuietBank
  <2> QED BY <2>2, <2>3
<1>2. RingConsistent'
  BY <1>1 DEF RingConsistent, Slot
<1> QED BY <1>1, <1>2, ClockTypeOK DEF Inv

(* Every clock edge keeps the invariant.                                   *)
LEMMA NextInv == Inv /\ [Next]_registers => Inv'
<1> SUFFICES ASSUME Inv, [Next]_registers PROVE Inv'
  OBVIOUS
<1>1. CASE Idle
  BY <1>1, ClockInv DEF Idle
<1>2. CASE \E addr \in Addresses : Request(addr)
  <2>1. PICK addr \in Addresses : Request(addr)
    BY <1>2
  <2>2. bank_id(addr) \in Banks
    BY BankExists
  <2>3. CASE ready(bank_id(addr))
    <3> DEFINE accepting == {bank_id(addr)}
    <3>1. Clock(accepting) /\ accepting \in SUBSET Banks /\ \A b \in accepting : ready(b)
      BY <2>1, <2>2, <2>3 DEF Request
    <3> HIDE DEF accepting
    <3> QED BY <3>1, ClockInv
  <2>4. CASE ~ready(bank_id(addr))
    <3>1. Clock({})
      BY <2>1, <2>4 DEF Request
    <3> QED BY <3>1, ClockInv
  <2> QED BY <2>3, <2>4
<1>3. CASE Reset
  (* The registers are those of Init. *)
  <2>1. QUEUE_DEPTH \in Nat \ {0} /\ 0 \in Slots
    BY ParametersAssumption DEF Slots
  <2>2. TypeOK'
    <3>1. completion_cycle' \in [Banks -> [Slots -> Nat]]
      BY <1>3 DEF Reset
    <3>2. head_index' \in [Banks -> Slots] /\ tail_index' \in [Banks -> Slots]
      BY <1>3, <2>1 DEF Reset
    <3>3. outstanding_count' \in [Banks -> 0..QUEUE_DEPTH]
      BY <1>3, <2>1 DEF Reset
    <3>4. /\ bank_next_available_cycle' \in [Banks -> Nat]
          /\ cycle_counter' \in Nat /\ accepted' \in BOOLEAN /\ done' \in BOOLEAN
      BY <1>3 DEF Reset
    <3> QED BY <3>1, <3>2, <3>3, <3>4 DEF TypeOK
  <2>3. RingConsistent'
    BY <1>3, <2>1 DEF Reset, RingConsistent, Slot, SlotFrom
  <2>4. \A b \in Banks : QueueInv(b)'
    BY <1>3 DEF Reset, QueueInv
  <2> QED BY <2>2, <2>3, <2>4 DEF Inv
<1>4. CASE UNCHANGED registers
  BY <1>4 DEF registers, Inv, TypeOK, RingConsistent, QueueInv, Completion, Slot
<1> QED BY <1>1, <1>2, <1>3, <1>4 DEF Next

-----------------------------------------------------------------------------
(* Inv is an invariant.                                                    *)
THEOREM Invariance == Spec => []Inv
<1>1. Init => Inv
  BY InitInv
<1>2. Inv /\ [Next]_registers => Inv'
  BY NextInv
<1> QED BY <1>1, <1>2, PTL DEF Spec

(* The registers of the controller stay in their declared ranges.          *)
THEOREM TypeCorrect == Spec => []TypeOK
<1>1. Inv => TypeOK
  BY DEF Inv
<1> QED BY <1>1, Invariance, PTL

(* Head, tail and count of every ring always agree.                        *)
THEOREM RingIsConsistent == Spec => []RingConsistent
<1>1. Inv => RingConsistent
  BY DEF Inv
<1> QED BY <1>1, Invariance, PTL

(* Requests of a bank complete in queue order, one per service latency.    *)
THEOREM RequestsServedInOrder == Spec => []ServedInOrder
<1>1. Inv => ServedInOrder
  <2> SUFFICES ASSUME Inv, NEW b \in Banks, outstanding_count[b] > 0
               PROVE  /\ Completion(b, 0) >= cycle_counter
                      /\ Completion(b, outstanding_count[b] - 1) = bank_next_available_cycle[b]
                      /\ \A k \in 1..(outstanding_count[b] - 1) :
                           Completion(b, k) = Completion(b, k - 1) + SERVICE_LATENCY_CYCLES
    BY DEF ServedInOrder, Completion
  <2>1. 0 \in 0..(outstanding_count[b] - 1)
    BY BankFacts, ParametersAssumption
  <2> QED BY <2>1, BankFacts DEF QueueInv
<1> QED BY <1>1, Invariance, PTL

(* No accepted request is told a latency beyond QUEUE_DEPTH services: the  *)
(* back-pressure of `ready' bounds the queueing delay.                     *)
THEOREM LatencyIsBounded == Spec => []LatencyBounded
<1>1. Inv => LatencyBounded
  <2> SUFFICES ASSUME Inv, NEW b \in Banks
               PROVE  latency_cycles(b) <= QUEUE_DEPTH * SERVICE_LATENCY_CYCLES
    BY DEF LatencyBounded
  <2> DEFINE e == outstanding_count[b] - Pops(b)
             L == SERVICE_LATENCY_CYCLES
             a == bank_next_available_cycle[b]
  <2>1. /\ QUEUE_DEPTH \in Nat \ {0} /\ L \in Nat \ {0} /\ cycle_counter \in Nat /\ a \in Nat
        /\ outstanding_count[b] \in 0..QUEUE_DEPTH
    BY BankFacts, ParametersAssumption
  <2>2. effective_outstanding(b) = e /\ e \in 0..QUEUE_DEPTH
    BY <2>1 DEF effective_outstanding, Pops, Completes
  <2>3. QUEUE_DEPTH * L \in Nat /\ L <= QUEUE_DEPTH * L
    <3>1. QUEUE_DEPTH * L = (QUEUE_DEPTH - 1) * L + L /\ (QUEUE_DEPTH - 1) * L \in Nat
      BY <2>1
    <3> QED BY <2>1, <3>1
  <2>4. CASE ~ready(b)
    BY <2>3, <2>4 DEF latency_cycles
  <2>5. CASE ready(b)
    <3>1. e < QUEUE_DEPTH
      BY <2>2, <2>5 DEF ready
    <3>2. latency_cycles(b) = L + (IF a > cycle_counter THEN a ELSE cycle_counter) - cycle_counter
      BY <2>1, <2>5 DEF latency_cycles, accepted_done_cycle
    <3>3. CASE e = 0
      BY <2>1, <2>3, <3>2, <3>3, PopKeepsQueue
    <3>4. CASE e > 0
      <4>1. 0 \in 0..(e - 1)
        BY <2>2, <3>4
      <4>2. /\ a = Left(b, 0) + (e - 1) * L /\ a > cycle_counter
            /\ Left(b, 0) <= cycle_counter + L /\ Left(b, 0) \in Nat
        BY <3>4, <4>1, PopKeepsQueue
      <4>3. (e - 1) * L + L + L = (e + 1) * L /\ (e - 1) * L \in Nat /\ (e + 1) * L \in Nat
        BY <2>1, <2>2, <3>4
      <4>4. (e + 1) * L <= QUEUE_DEPTH * L
        <5>1. QUEUE_DEPTH * L = (e + 1) * L + (QUEUE_DEPTH - (e + 1)) * L
              /\ (QUEUE_DEPTH - (e + 1)) * L \in Nat
          BY <2>1, <2>2, <3>1
        <5> QED BY <4>3, <5>1
      <4>5. latency_cycles(b) = L + a - cycle_counter
        BY <2>1, <3>2, <4>2
      <4> HIDE DEF e, L, a
      <4>6. latency_cycles(b) <= (e + 1) * L
        BY <2>1, <4>2, <4>3, <4>5
      <4>7. latency_cycles(b) \in Int
        BY <2>1, <4>5
      <4> QED BY <2>3, <4>3, <4>4, <4>6, <4>7 DEF L
    <3> QED BY <2>2, <3>3, <3>4
  <2> QED BY <2>4, <2>5
<1> QED BY <1>1, Invariance, PTL

-----------------------------------------------------------------------------
(***************************************************************************)
(* The refinement.  The completions of a bank rise along its queue, so the *)
(* pop removes exactly those that are over, and the last one is the latest.*)
(***************************************************************************)
Rising ==
  \A b \in Banks : \A j, k \in 0..(outstanding_count[b] - 1) :
    j < k => Completion(b, j) < Completion(b, k)

(* The state of the banked memory that the rings stand for.                *)
inflight == [b \in Banks |-> {Completion(b, k) : k \in 0..(outstanding_count[b] - 1)}]

(* The completions that are left, as a set and in their order.             *)
LEMMA RemainingIsLeft ==
  ASSUME Inv, Rising, NEW b \in Banks, NEW e \in 0..QUEUE_DEPTH,
         e = outstanding_count[b] - Pops(b)
  PROVE  /\ {c \in inflight[b] : c > cycle_counter} = {Left(b, k) : k \in 0..(e - 1)}
         /\ \A j, k \in 0..(e - 1) : j < k => Left(b, j) < Left(b, k)
<1>1. /\ QUEUE_DEPTH \in Nat \ {0} /\ cycle_counter \in Nat
      /\ outstanding_count[b] \in 0..QUEUE_DEPTH
      /\ completion_cycle[b] \in [Slots -> Nat]
  BY BankFacts, ParametersAssumption
<1>2. \A k \in 0..(outstanding_count[b] - 1) : Completion(b, k) \in Nat
  BY <1>1, SlotsDiffer DEF Completion
<1>3. inflight[b] = {Completion(b, k) : k \in 0..(outstanding_count[b] - 1)}
  BY DEF inflight
<1>4. \A k \in 0..(e - 1) : Left(b, k) >= cycle_counter + 1 /\ Left(b, k) \in Nat
  BY PopKeepsQueue
<1>5. CASE Completes(b)
  <2>1. Pops(b) = 1 /\ e = outstanding_count[b] - 1 /\ outstanding_count[b] > 0
    BY <1>5 DEF Pops, Completes
  <2>2. \A k \in 0..(e - 1) : Left(b, k) = Completion(b, k + 1)
    BY <2>1 DEF Left
  <2>3. Completion(b, 0) <= cycle_counter
    <3>1. Slot(b, 0) = head_index[b]
      BY <1>1, BankFacts DEF Slot, SlotFrom, Slots
    <3> QED BY <1>5, <3>1 DEF Completes, Completion
  <2>4. ASSUME NEW j \in 0..(e - 1), NEW k \in 0..(e - 1), j < k PROVE Left(b, j) < Left(b, k)
    <3>1. j + 1 \in 0..(outstanding_count[b] - 1) /\ k + 1 \in 0..(outstanding_count[b] - 1)
          /\ j + 1 < k + 1
      BY <1>1, <2>1, <2>4
    <3> QED BY <2>2, <3>1 DEF Rising
  <2>5. ASSUME NEW c \in inflight[b], c > cycle_counter
        PROVE  \E k \in 0..(e - 1) : c = Left(b, k)
    <3>1. PICK k \in 0..(outstanding_count[b] - 1) : c = Completion(b, k)
      BY <1>3
    <3>2. k # 0
      BY <1>1, <1>2, <2>1, <2>3, <2>5, <3>1
    <3>3. k - 1 \in 0..(e - 1) /\ (k - 1) + 1 = k
      BY <1>1, <2>1, <3>2
    <3> QED BY <2>2, <3>1, <3>3
  <2>6. ASSUME NEW k \in 0..(e - 1)
        PROVE  Left(b, k) \in inflight[b] /\ Left(b, k) > cycle_counter
    <3>1. k + 1 \in 0..(outstanding_count[b] - 1)
      BY <1>1, <2>1
    <3> QED BY <1>1, <1>3, <1>4, <2>2, <3>1
  <2> QED BY <2>4, <2>5, <2>6
<1>6. CASE ~Completes(b)
  <2>1. Pops(b) = 0 /\ e = outstanding_count[b]
    BY <1>1, <1>6 DEF Pops
  <2>2. \A k \in 0..(e - 1) : Left(b, k) = Completion(b, k)
    BY <1>1, <2>1 DEF Left
  <2>3. \A k \in 0..(e - 1) : Left(b, k) > cycle_counter
    BY <1>1, <1>4
  <2> QED BY <1>3, <2>1, <2>2, <2>3 DEF Rising
<1> QED BY <1>5, <1>6

(* What a posedge makes of the completions of bank b.                      *)
LEMMA ClockedCompletions ==
  ASSUME Inv, Inv', Rising, NEW b \in Banks, NEW accepting \in SUBSET Banks, Clock(accepting),
         \A c \in accepting : ready(c), NEW e \in 0..QUEUE_DEPTH,
         e = outstanding_count[b] - Pops(b)
  PROVE  /\ \A k \in 0..(e - 1) : Completion(b, k)' = Left(b, k)
         /\ b \notin accepting => outstanding_count'[b] = e
         /\ b \in accepting => /\ outstanding_count'[b] = e + 1
                               /\ Completion(b, e)' = accepted_done_cycle(b)
                               /\ e < QUEUE_DEPTH
<1> DEFINE C(k) == completion_cycle'[b][SlotFrom(head_index'[b], k)]
<1>1. /\ outstanding_count'[b] = NextCount(b, b \in accepting)
      /\ completion_cycle'[b] =
           IF b \in accepting
             THEN [completion_cycle[b] EXCEPT ![tail_index[b]] = accepted_done_cycle(b)]
             ELSE completion_cycle[b]
  BY ClockedBank
<1>2. /\ effective_outstanding(b) = e /\ head_index'[b] \in Slots
      /\ \A k \in 0..(QUEUE_DEPTH - 1) : SlotFrom(head_index'[b], k) = Slot(b, k + Pops(b))
      /\ SlotFrom(head_index'[b], e) = tail_index[b]
      /\ QUEUE_DEPTH \in Nat \ {0}
  BY PopRenumbers, ParametersAssumption
<1>3. /\ completion_cycle[b] \in [Slots -> Nat] /\ tail_index[b] \in Slots
  BY BankFacts
<1>4. \A k \in 0..(QUEUE_DEPTH - 1) :
        /\ SlotFrom(head_index'[b], k) \in Slots
        /\ \A l \in 0..(QUEUE_DEPTH - 1) :
             SlotFrom(head_index'[b], k) = SlotFrom(head_index'[b], l) => k = l
  BY <1>2 DEF SlotFrom, Slots
<1>5. b \in accepting => e < QUEUE_DEPTH
  BY <1>2 DEF ready
<1>6. ASSUME NEW k \in 0..(e - 1)
      PROVE  C(k) = Left(b, k)
  <2>1. k \in 0..(QUEUE_DEPTH - 1) /\ k # e
    BY <1>2
  <2>2. b \in accepting => SlotFrom(head_index'[b], k) # tail_index[b]
    BY <1>2, <1>4, <1>5, <2>1
  <2>3. C(k) = completion_cycle[b][SlotFrom(head_index'[b], k)]
    BY <1>1, <1>3, <1>4, <2>1, <2>2
  <2> QED BY <1>2, <2>1, <2>3 DEF Left, Completion
<1>7. b \in accepting => C(e) = accepted_done_cycle(b)
  BY <1>1, <1>2, <1>3
<1> QED BY <1>1, <1>2, <1>5, <1>6, <1>7 DEF NextCount, Completion, Slot

(* A posedge keeps the order: the new completion is behind the last one.   *)
LEMMA ClockRising ==
  ASSUME Inv, Inv', Rising, NEW accepting \in SUBSET Banks, Clock(accepting),
         \A c \in accepting : ready(c)
  PROVE  Rising'
<1> SUFFICES ASSUME NEW b \in Banks,
                    NEW j \in 0..(outstanding_count'[b] - 1),
                    NEW k \in 0..(outstanding_count'[b] - 1), j < k
             PROVE  Completion(b, j)' < Completion(b, k)'
  BY DEF Rising
<1>1. effective_outstanding(b) \in 0..QUEUE_DEPTH
      /\ effective_outstanding(b) = outstanding_count[b] - Pops(b)
  BY PopRenumbers
<1>2. PICK e \in 0..QUEUE_DEPTH : e = outstanding_count[b] - Pops(b)
  BY <1>1
<1>3. /\ \A i \in 0..(e - 1) : Completion(b, i)' = Left(b, i)
      /\ b \notin accepting => outstanding_count'[b] = e
      /\ b \in accepting => /\ outstanding_count'[b] = e + 1
                            /\ Completion(b, e)' = accepted_done_cycle(b)
  BY <1>2, ClockedCompletions
<1>4. \A i, l \in 0..(e - 1) : i < l => Left(b, i) < Left(b, l)
  BY <1>2, RemainingIsLeft
<1>5. QUEUE_DEPTH \in Nat
  BY ParametersAssumption
<1>6. CASE k \in 0..(e - 1)
  <2>1. j \in 0..(e - 1)
    BY <1>5, <1>6
  <2> QED BY <1>3, <1>4, <1>6, <2>1
<1>7. CASE k \notin 0..(e - 1)
  <2>1. b \in accepting /\ k = e /\ j \in 0..(e - 1) /\ e > 0 /\ e - 1 \in 0..(e - 1)
    BY <1>3, <1>5, <1>7
  <2>2. /\ Left(b, e - 1) = bank_next_available_cycle[b] /\ Left(b, e - 1) \in Nat
        /\ bank_next_available_cycle[b] > cycle_counter /\ Left(b, j) \in Nat
    BY <1>2, <2>1, PopKeepsQueue
  <2>3. accepted_done_cycle(b) = SERVICE_LATENCY_CYCLES + Left(b, e - 1)
    BY <2>2 DEF accepted_done_cycle
  <2>4. Left(b, j) <= Left(b, e - 1)
    <3>1. j = e - 1 \/ j < e - 1
      BY <1>5, <2>1
    <3> QED BY <1>4, <2>1, <2>2, <3>1
  <2> QED BY <1>3, <2>1, <2>2, <2>3, <2>4, ParametersAssumption
<1> QED BY <1>6, <1>7

(* The abstract memory takes the same step.                                *)
LEMMA ClockRefines ==
  ASSUME Inv, Inv', Rising, NEW b \in Banks, NEW accepting \in SUBSET Banks, Clock(accepting),
         \A c \in accepting : ready(c)
  PROVE  LET remaining == {c \in inflight[b] : c > cycle_counter}
         IN  /\ b \notin accepting => inflight'[b] = remaining
             /\ b \in accepting =>
                  /\ inflight'[b] = remaining \cup {accepted_done_cycle(b)}
                  /\ Cardinality(remaining) < QUEUE_DEPTH
                  /\ remaining = {} => accepted_done_cycle(b)
                                         = SERVICE_LATENCY_CYCLES + cycle_counter
                  /\ remaining # {} =>
                       /\ bank_next_available_cycle[b] \in remaining
                       /\ \A d \in remaining : d <= bank_next_available_cycle[b] /\ d \in Nat
                       /\ accepted_done_cycle(b)
                            = SERVICE_LATENCY_CYCLES + bank_next_available_cycle[b]
<1> DEFINE remaining == {c \in inflight[b] : c > cycle_counter}
<1>1. effective_outstanding(b) \in 0..QUEUE_DEPTH
      /\ effective_outstanding(b) = outstanding_count[b] - Pops(b)
  BY PopRenumbers
<1>2. PICK e \in 0..QUEUE_DEPTH : e = outstanding_count[b] - Pops(b)
  BY <1>1
<1>3. /\ \A i \in 0..(e - 1) : Completion(b, i)' = Left(b, i)
      /\ b \notin accepting => outstanding_count'[b] = e
      /\ b \in accepting => /\ outstanding_count'[b] = e + 1
                            /\ Completion(b, e)' = accepted_done_cycle(b)
                            /\ e < QUEUE_DEPTH
  BY <1>2, ClockedCompletions
<1>4. /\ remaining = {Left(b, k) : k \in 0..(e - 1)}
      /\ \A i, l \in 0..(e - 1) : i < l => Left(b, i) < Left(b, l)
  BY <1>2, RemainingIsLeft
<1>5. QUEUE_DEPTH \in Nat /\ SERVICE_LATENCY_CYCLES \in Nat /\ cycle_counter \in Nat
      /\ bank_next_available_cycle[b] \in Nat
  BY ParametersAssumption, BankFacts
<1>6. inflight'[b] = {Completion(b, k)' : k \in 0..(outstanding_count'[b] - 1)}
  BY DEF inflight
<1> HIDE DEF remaining
<1>7. CASE b \notin accepting
  <2>1. inflight'[b] = {Completion(b, k)' : k \in 0..(e - 1)}
    BY <1>3, <1>6, <1>7
  <2> QED BY <1>3, <1>4, <1>7, <2>1 DEF remaining
<1>8. CASE b \in accepting
  <2>1. inflight'[b] = remaining \cup {accepted_done_cycle(b)}
    <3>1. outstanding_count'[b] - 1 = e
      BY <1>3, <1>5, <1>8
    <3>2. inflight'[b] = {Completion(b, k)' : k \in 0..e}
      BY <1>6, <3>1
    <3>3. 0..e = 0..(e - 1) \cup {e} /\ e \notin 0..(e - 1)
      BY <1>5
    <3> QED BY <1>3, <1>4, <1>8, <3>2, <3>3
  <2>2. Cardinality(remaining) < QUEUE_DEPTH
    <3> DEFINE f == [k \in 1..e |-> Left(b, k - 1)]
    <3>1. \A k \in 1..e : k - 1 \in 0..(e - 1)
      BY <1>5
    <3>2. \A k \in 0..(e - 1) : k + 1 \in 1..e /\ (k + 1) - 1 = k
      BY <1>5
    <3>3. f \in Surjection(1..e, remaining)
      BY <1>4, <3>1, <3>2 DEF Surjection
    <3>4. IsFiniteSet(1..e) /\ Cardinality(1..e) = e
      BY <1>5, FS_Interval
    <3>5. Cardinality(remaining) <= e /\ IsFiniteSet(remaining)
      BY <3>3, <3>4, FS_Surjection
    <3>6. Cardinality(remaining) \in Nat
      BY <3>5, FS_CardinalityType
    <3> QED BY <1>3, <1>5, <1>8, <3>5, <3>6
  <2>3. CASE e = 0
    <3>1. remaining = {}
      <4>1. 0..(e - 1) = {}
        BY <2>3
      <4> QED BY <1>4, <4>1
    <3>2. bank_next_available_cycle[b] <= cycle_counter
      BY <1>2, <2>3, PopKeepsQueue
    <3>3. accepted_done_cycle(b) = SERVICE_LATENCY_CYCLES + cycle_counter
      BY <1>5, <3>2 DEF accepted_done_cycle
    <3> QED BY <1>8, <2>1, <2>2, <3>1, <3>3 DEF remaining
  <2>4. CASE e > 0
    <3>1. e - 1 \in 0..(e - 1)
      BY <1>5, <2>4
    <3>2. /\ Left(b, e - 1) = bank_next_available_cycle[b]
          /\ bank_next_available_cycle[b] > cycle_counter
          /\ \A k \in 0..(e - 1) : Left(b, k) \in Nat
      BY <1>2, <2>4, PopKeepsQueue
    <3>3. bank_next_available_cycle[b] \in remaining /\ remaining # {}
      BY <1>4, <3>1, <3>2
    <3>4. ASSUME NEW d \in remaining PROVE d <= bank_next_available_cycle[b] /\ d \in Nat
      <4>1. PICK k \in 0..(e - 1) : d = Left(b, k)
        BY <1>4
      <4>2. k = e - 1 \/ k < e - 1
        BY <1>5
      <4> QED BY <1>4, <1>5, <3>1, <3>2, <4>1, <4>2
    <3>5. accepted_done_cycle(b) = SERVICE_LATENCY_CYCLES + bank_next_available_cycle[b]
      BY <3>2 DEF accepted_done_cycle
    <3> QED BY <1>8, <2>1, <2>2, <3>3, <3>4, <3>5 DEF remaining
  <2> QED BY <1>5, <2>3, <2>4
<1> QED BY <1>7, <1>8 DEF remaining

(* The unfinished requests of the banked memory are those of the rings.    *)
LEMMA RemainingIs ==
  ASSUME NEW b \in Banks
  PROVE  Abstract!Remaining(b) = {c \in inflight[b] : c > cycle_counter}
BY DEF Abstract!Remaining, inflight, Completion

(* One posedge is one step of the banked memory.                           *)
LEMMA ClockImplements ==
  ASSUME Inv, Inv', Rising, NEW accepting \in SUBSET Banks, Clock(accepting),
         \A c \in accepting : ready(c),
         accepting = {} \/ \E b \in Banks : accepting = {b}
  PROVE  Abstract!Next
<1> DEFINE remaining(b) == {c \in inflight[b] : c > cycle_counter}
<1>1. ASSUME NEW b \in Banks, b \notin accepting
      PROVE  inflight'[b] = Abstract!Remaining(b)
  BY <1>1, ClockRefines, RemainingIs
<1>2. ASSUME NEW b \in accepting
      PROVE  /\ inflight'[b] = Abstract!Remaining(b) \cup {Abstract!Completion(b)}
             /\ Cardinality(Abstract!Remaining(b)) < QUEUE_DEPTH
  <2>1. b \in Banks
    OBVIOUS
  <2>2. /\ inflight'[b] = remaining(b) \cup {accepted_done_cycle(b)}
        /\ Cardinality(remaining(b)) < QUEUE_DEPTH
        /\ remaining(b) = {} => accepted_done_cycle(b) = SERVICE_LATENCY_CYCLES + cycle_counter
        /\ remaining(b) # {} =>
             /\ bank_next_available_cycle[b] \in remaining(b)
             /\ \A d \in remaining(b) : d <= bank_next_available_cycle[b] /\ d \in Nat
             /\ accepted_done_cycle(b) = SERVICE_LATENCY_CYCLES + bank_next_available_cycle[b]
    BY <1>2, <2>1, ClockRefines
  <2>3. Abstract!Remaining(b) = remaining(b)
    BY <2>1, RemainingIs
  <2> HIDE DEF remaining
  <2>4. Abstract!Completion(b) = accepted_done_cycle(b)
    <3>1. CASE remaining(b) = {}
      BY <2>2, <2>3, <3>1 DEF Abstract!Completion
    <3>2. CASE remaining(b) # {}
      <4> DEFINE last == CHOOSE c \in remaining(b) : \A d \in remaining(b) : d <= c
      <4>1. last \in remaining(b) /\ \A d \in remaining(b) : d <= last
        BY <2>2, <3>2
      <4>2. last = bank_next_available_cycle[b]
        <5>1. last <= bank_next_available_cycle[b] /\ bank_next_available_cycle[b] <= last
              /\ last \in Nat /\ bank_next_available_cycle[b] \in Nat
          BY <2>2, <3>2, <4>1
        <5> HIDE DEF last
        <5> QED BY <5>1
      <4>3. Abstract!Completion(b) = SERVICE_LATENCY_CYCLES + last
        BY <2>3, <3>2 DEF Abstract!Completion
      <4> HIDE DEF last
      <4> QED BY <2>2, <3>2, <4>2, <4>3
    <3> QED BY <3>1, <3>2
  <2> QED BY <2>2, <2>3, <2>4
<1>3. inflight' = [b \in Banks |-> inflight'[b]] /\ cycle_counter' = cycle_counter + 1
  BY DEF inflight, Clock
<1>4. CASE accepting = {}
  <2>1. inflight' = [b \in Banks |-> Abstract!Remaining(b)]
    BY <1>1, <1>3, <1>4
  <2>2. Abstract!Idle
    BY <1>3, <2>1 DEF Abstract!Idle, inflight, Completion
  <2> QED BY <2>2 DEF Abstract!Next
<1>5. ASSUME NEW b \in Banks, accepting = {b} PROVE Abstract!Next
  <2>1. inflight' = [c \in Banks |-> IF c = b THEN Abstract!Remaining(b) \cup {Abstract!Completion(b)}
                                     ELSE Abstract!Remaining(c)]
    BY <1>1, <1>2, <1>3, <1>5
  <2>2. Cardinality(Abstract!Remaining(b)) < QUEUE_DEPTH
    BY <1>2, <1>5
  <2>3. Abstract!Accept(b)
    <3>1. inflight' = [c \in Banks |->
                        {completion_cycle[c][Slot(c, k)] : k \in 0..(outstanding_count[c] - 1)}]'
      BY DEF inflight, Completion
    <3>2. \A S : Abstract!Cardinality(S) = Cardinality(S)
      BY Zenon DEF Cardinality, Abstract!Cardinality
    <3> QED BY <1>3, <2>1, <2>2, <3>1, <3>2, Zenon DEF Abstract!Accept
  <2> QED BY <2>3 DEF Abstract!Next
<1> QED BY <1>4, <1>5

(* After the reset every ring is empty, and so is the memory.              *)
LEMMA InitRising == Init => Rising /\ Abstract!Init
<1> SUFFICES ASSUME Init PROVE Rising /\ Abstract!Init
  OBVIOUS
<1>1. \A b \in Banks : outstanding_count[b] = 0
  BY DEF Init
<1>2. 0..(0 - 1) = {}
  OBVIOUS
<1>3. Rising
  BY <1>1, <1>2 DEF Rising
<1>4. Abstract!Init
  BY <1>1, <1>2 DEF Init, Abstract!Init
<1> QED BY <1>3, <1>4

(* Every step of the controller is a step of the banked memory.            *)
LEMMA StepImplements ==
  Inv /\ Inv' /\ Rising /\ [Next]_registers =>
    Rising' /\ (Abstract!Next \/ UNCHANGED <<cycle_counter, inflight>>)
<1> SUFFICES ASSUME Inv, Inv', Rising, [Next]_registers
             PROVE  Rising' /\ (Abstract!Next \/ UNCHANGED <<cycle_counter, inflight>>)
  OBVIOUS
<1>1. ASSUME NEW accepting \in SUBSET Banks, Clock(accepting), \A c \in accepting : ready(c),
             accepting = {} \/ \E b \in Banks : accepting = {b}
      PROVE  Rising' /\ Abstract!Next
  BY <1>1, ClockRising, ClockImplements
<1>2. CASE Idle
  <2>1. Clock({})
    BY <1>2 DEF Idle
  <2> QED BY <1>1, <2>1
<1>3. ASSUME NEW addr \in Addresses, Request(addr)
      PROVE  Rising' /\ Abstract!Next
  <2>1. bank_id(addr) \in Banks
    BY BankExists
  <2>2. CASE ready(bank_id(addr))
    <3>1. Clock({bank_id(addr)})
      BY <1>3, <2>2 DEF Request
    <3> QED BY <1>1, <2>1, <2>2, <3>1
  <2>3. CASE ~ready(bank_id(addr))
    <3>1. Clock({})
      BY <1>3, <2>3 DEF Request
    <3> QED BY <1>1, <3>1
  <2> QED BY <2>2, <2>3
<1>4. CASE Reset
  <2>1. \A b \in Banks : outstanding_count'[b] = 0
    BY <1>4 DEF Reset
  <2>2. 0..(0 - 1) = {}
    OBVIOUS
  <2>3. Rising'
    BY <2>1, <2>2 DEF Rising
  <2>4. inflight' = [b \in Banks |-> {}]
    BY <2>1, <2>2 DEF inflight
  <2>5. Abstract!Reset
    BY <1>4, <2>4 DEF Reset, Abstract!Reset, inflight, Completion
  <2> QED BY <2>3, <2>5 DEF Abstract!Next
<1>5. CASE UNCHANGED registers
  <2>1. UNCHANGED <<cycle_counter, outstanding_count, head_index, completion_cycle>>
    BY <1>5 DEF registers
  <2>2. \A b, k : Completion(b, k)' = Completion(b, k)
    BY <2>1 DEF Completion, Slot, SlotFrom
  <2>3. Rising'
    BY <2>1, <2>2 DEF Rising
  <2>4. inflight' = inflight
    BY <2>1, <2>2 DEF inflight
  <2> QED BY <2>1, <2>3, <2>4
<1> QED BY <1>2, <1>3, <1>4, <1>5 DEF Next

(* The ring buffers implement the banked memory: at every posedge the      *)
(* completions over are removed and a request, accepted only while fewer   *)
(* than QUEUE_DEPTH remain, completes a service latency after the last.    *)
THEOREM ControllerImplementsMemory == Spec => ImplementsBankedMemory
<1>1. Init => Rising /\ Abstract!Init
  BY InitRising
<1>2. Inv /\ Inv' /\ Rising /\ [Next]_registers =>
        Rising' /\ [Abstract!Next]_<<cycle_counter, [b \in Banks |->
                {completion_cycle[b][Slot(b, k)] : k \in 0..(outstanding_count[b] - 1)}]>>
  BY StepImplements DEF inflight, Completion
<1> QED BY <1>1, <1>2, Invariance, PTL DEF Spec, ImplementsBankedMemory, Abstract!Spec

-----------------------------------------------------------------------------
(***************************************************************************)
(* The golden model next to the controller.  Its queue of a bank ends with *)
(* the completions in the ring; what it holds in front of them is over and *)
(* goes at the next request, where the ring has popped it already.         *)
(***************************************************************************)
GoldenTypeOK ==
  /\ busy_until_cycle \in [Banks -> Nat]
  /\ completion_cycles \in [Banks -> Seq(Nat)]

(* The golden model's view of bank b agrees with the ring.                 *)
GoldenBank(b) ==
  LET queue == completion_cycles[b]
      n == outstanding_count[b]
  IN  /\ busy_until_cycle[b] = bank_next_available_cycle[b]
      /\ n <= Len(queue)
      /\ \A k \in 0..(n - 1) : queue[Len(queue) - n + 1 + k] = Completion(b, k)
      /\ \A j \in 1..(Len(queue) - n) : queue[j] < cycle_counter

(* The inductive invariant that relates the two, next to Inv and Rising.   *)
Golden == GoldenTypeOK /\ \A b \in Banks : GoldenBank(b)

(* The pop moves the head's completion to those that are over.             *)
LEMMA QueueSplit ==
  ASSUME Inv, Golden, NEW b \in Banks, NEW e \in 0..QUEUE_DEPTH,
         e = outstanding_count[b] - Pops(b)
  PROVE  LET queue == completion_cycles[b]
         IN  /\ queue \in Seq(Nat) /\ e <= Len(queue)
             /\ \A k \in 0..(e - 1) : queue[Len(queue) - e + 1 + k] = Left(b, k)
             /\ \A j \in 1..(Len(queue) - e) : queue[j] < cycle_counter + 1
<1> DEFINE queue == completion_cycles[b]
           n == outstanding_count[b]
<1>1. /\ queue \in Seq(Nat) /\ Len(queue) \in Nat /\ n \in Nat /\ n <= Len(queue)
      /\ \A k \in 0..(n - 1) : queue[Len(queue) - n + 1 + k] = Completion(b, k)
      /\ \A j \in 1..(Len(queue) - n) : queue[j] < cycle_counter
      /\ cycle_counter \in Nat
  <2>1. queue \in Seq(Nat) /\ n \in 0..QUEUE_DEPTH /\ cycle_counter \in Nat
    BY BankFacts DEF Golden, GoldenTypeOK
  <2> QED BY <2>1, ParametersAssumption DEF Golden, GoldenBank
<1>2. \A j \in 1..Len(queue) : queue[j] \in Nat
  BY <1>1
<1>0. Len(queue) \in Nat /\ n \in Nat /\ n <= Len(queue)
  BY <1>1
<1>3. CASE Completes(b)
  <2>1. Pops(b) = 1 /\ n > 0 /\ e = n - 1
    BY <1>3 DEF Pops, Completes
  <2>2. Completion(b, 0) <= cycle_counter
    <3>1. Slot(b, 0) = head_index[b]
      BY <1>1, BankFacts, ParametersAssumption DEF Slot, SlotFrom, Slots
    <3> QED BY <1>3, <3>1 DEF Completes, Completion
  <2>3. ASSUME NEW k \in 0..(e - 1) PROVE queue[Len(queue) - e + 1 + k] = Left(b, k)
    <3>1. k + 1 \in 0..(n - 1) /\ Len(queue) - n + 1 + (k + 1) = Len(queue) - e + 1 + k
      <4> HIDE DEF n, queue
      <4>1. k \in Nat /\ k <= e - 1 /\ e \in Int
        BY <1>0, <2>1
      <4>2. k + 1 \in Nat /\ k + 1 <= n - 1
        BY <1>0, <2>1, <4>1
      <4>3. Len(queue) - n + 1 + (k + 1) = Len(queue) - e + 1 + k
        BY <1>0, <2>1, <4>1
      <4> QED BY <1>0, <4>2, <4>3
    <3> QED BY <1>1, <2>1, <3>1 DEF Left
  <2>4. ASSUME NEW j \in 1..(Len(queue) - e) PROVE queue[j] < cycle_counter + 1
    <3>1. CASE j \in 1..(Len(queue) - n)
      <4>1. queue[j] < cycle_counter /\ queue[j] \in Nat
        BY <1>1, <1>2, <3>1
      <4> QED BY <1>1, <4>1
    <3>2. CASE j \notin 1..(Len(queue) - n)
      <4>1. j = Len(queue) - n + 1 + 0 /\ 0 \in 0..(n - 1) /\ j \in 1..Len(queue)
        <5> HIDE DEF n, queue
        <5> QED BY <1>0, <2>1, <3>2
      <4>2. queue[j] = Completion(b, 0) /\ queue[j] \in Nat
        BY <1>1, <1>2, <4>1
      <4> QED BY <1>1, <2>2, <4>2
    <3> QED BY <3>1, <3>2
  <2> QED BY <1>1, <2>1, <2>3, <2>4
<1>4. CASE ~Completes(b)
  <2>1. Pops(b) = 0 /\ e = n
    BY <1>1, <1>4 DEF Pops
  <2>2. \A k \in 0..(e - 1) : Left(b, k) = Completion(b, k)
    BY <1>1, <2>1 DEF Left
  <2>3. ASSUME NEW j \in 1..(Len(queue) - e) PROVE queue[j] < cycle_counter + 1
    <3>1. queue[j] < cycle_counter /\ queue[j] \in Nat
      BY <1>1, <1>2, <2>1
    <3> QED BY <1>1, <3>1
  <2> QED BY <1>1, <2>1, <2>2, <2>3
<1> QED BY <1>3, <1>4

(* What the while loop of the golden model leaves is what the ring keeps.  *)
LEMMA DrainedIsLeft ==
  ASSUME Inv, Golden, NEW b \in Banks, NEW e \in 0..QUEUE_DEPTH,
         e = outstanding_count[b] - Pops(b)
  PROVE  LET drained == Drained(b, cycle_counter)
         IN  /\ drained \in Seq(Nat) /\ Len(drained) = e
             /\ \A k \in 0..(e - 1) : drained[k + 1] = Left(b, k)
<1> DEFINE queue == completion_cycles[b]
           left == {k \in DOMAIN queue : queue[k] > cycle_counter}
           first == Len(queue) - e + 1
<1>0. /\ queue \in Seq(Nat) /\ Len(queue) \in Nat /\ e <= Len(queue) /\ e \in Nat
      /\ cycle_counter \in Nat
  <2>1. cycle_counter \in Nat /\ QUEUE_DEPTH \in Nat
    BY BankFacts, ParametersAssumption
  <2>2. queue \in Seq(Nat) /\ e <= Len(queue)
    BY QueueSplit
  <2> QED BY <2>1, <2>2
<1>1. /\ queue \in Seq(Nat) /\ Len(queue) \in Nat /\ e <= Len(queue) /\ e \in Nat
      /\ \A k \in 0..(e - 1) : queue[first + k] = Left(b, k)
      /\ \A j \in 1..(Len(queue) - e) : queue[j] < cycle_counter + 1
      /\ cycle_counter \in Nat
  <2>1. \A k \in 0..(e - 1) : queue[first + k] = Left(b, k)
    BY QueueSplit
  <2>2. \A j \in 1..(Len(queue) - e) : queue[j] < cycle_counter + 1
    BY QueueSplit
  <2> QED BY <1>0, <2>1, <2>2
<1>2. \A k \in 0..(e - 1) : Left(b, k) >= cycle_counter + 1 /\ Left(b, k) \in Nat
  BY PopKeepsQueue
<1>3. DOMAIN queue = 1..Len(queue) /\ \A j \in 1..Len(queue) : queue[j] \in Nat
  BY <1>1
<1>4. left = first..Len(queue)
  <2>1. ASSUME NEW j \in 1..Len(queue) PROVE queue[j] > cycle_counter <=> j \in first..Len(queue)
    <3>1. CASE j \in first..Len(queue)
      <4>1. j - first \in 0..(e - 1) /\ first + (j - first) = j
        <5> DEFINE l == Len(queue)
        <5>1. l \in Nat /\ e \in Nat /\ e <= l /\ j \in (l - e + 1)..l
          BY <1>0, <3>1
        <5> HIDE DEF l
        <5>2. j - (l - e + 1) \in 0..(e - 1) /\ (l - e + 1) + (j - (l - e + 1)) = j
          BY <5>1
        <5> QED BY <5>2 DEF l
      <4>2. queue[j] = Left(b, j - first)
        BY <1>1, <4>1
      <4>3. queue[j] >= cycle_counter + 1 /\ queue[j] \in Nat
        BY <1>2, <4>1, <4>2
      <4> QED BY <1>1, <3>1, <4>3
    <3>2. CASE j \notin first..Len(queue)
      <4>1. j \in 1..(Len(queue) - e)
        BY <1>1, <3>2
      <4>2. queue[j] < cycle_counter + 1 /\ queue[j] \in Nat
        BY <1>1, <1>3, <4>1
      <4> QED BY <1>1, <3>2, <4>2
    <3> QED BY <3>1, <3>2
  <2>2. first..Len(queue) \subseteq 1..Len(queue)
    BY <1>1
  <2> QED BY <1>3, <2>1, <2>2
<1>5. Drained(b, cycle_counter) = IF left = {} THEN <<>> ELSE SubSeq(queue, Min(left), Len(queue))
  BY DEF Drained, From
<1> HIDE DEF queue, left
<1>6. CASE e = 0
  <2>1. left = {}
    BY <1>1, <1>4, <1>6
  <2> QED BY <1>5, <1>6, <2>1
<1>7. CASE e > 0
  <2>1. left # {} /\ first \in left /\ first \in 1..Len(queue)
    BY <1>1, <1>4, <1>7
  <2>2. Min(left) = first
    <3>1. Min(left) \in left /\ \A y \in left : Min(left) <= y
      <4>1. \A y \in left : first <= y
        BY <1>1, <1>4
      <4> QED BY <2>1, <4>1 DEF Min
    <3>2. Min(left) \in first..Len(queue) /\ Min(left) <= first
      BY <1>4, <2>1, <3>1
    <3> HIDE DEF first
    <3>3. first \in Int
      BY <1>1 DEF first
    <3> QED BY <1>1, <3>2, <3>3
  <2>3. Drained(b, cycle_counter) = SubSeq(queue, first, Len(queue))
    BY <1>5, <2>1, <2>2
  <2>4. /\ SubSeq(queue, first, Len(queue)) \in Seq(Nat)
        /\ Len(SubSeq(queue, first, Len(queue))) = e
        /\ \A i \in 1..e : SubSeq(queue, first, Len(queue))[i] = queue[first + i - 1]
    <3>1. first \in 1..(Len(queue) + 1) /\ Len(queue) \in 0..Len(queue)
          /\ first <= Len(queue) /\ Len(queue) - first + 1 = e
      BY <1>0, <1>7
    <3> HIDE DEF first
    <3> QED BY <1>0, <3>1, SubSeqProperties
  <2>5. ASSUME NEW k \in 0..(e - 1) PROVE Drained(b, cycle_counter)[k + 1] = Left(b, k)
    <3>1. k + 1 \in 1..e /\ first + (k + 1) - 1 = first + k
      BY <1>1
    <3> QED BY <1>1, <2>3, <2>4, <3>1
  <2> QED BY <2>3, <2>4, <2>5
<1> QED BY <1>1, <1>6, <1>7

(* A bank that accepts nothing, whether its golden queue is drained or not. *)
LEMMA GoldenUntouched ==
  ASSUME Inv, Inv', Rising, Golden, NEW b \in Banks,
         NEW accepting \in SUBSET Banks, Clock(accepting), \A c \in accepting : ready(c),
         b \notin accepting, busy_until_cycle'[b] = busy_until_cycle[b],
         \/ completion_cycles'[b] = completion_cycles[b]
         \/ completion_cycles'[b] = Drained(b, cycle_counter)
  PROVE  GoldenBank(b)'
<1>1. PICK e \in 0..QUEUE_DEPTH : e = outstanding_count[b] - Pops(b)
  BY PopRenumbers
<1>2. /\ outstanding_count'[b] = e
      /\ \A k \in 0..(e - 1) : Completion(b, k)' = Left(b, k)
  BY <1>1, ClockedCompletions
<1>3. /\ bank_next_available_cycle'[b] = bank_next_available_cycle[b]
      /\ cycle_counter' = cycle_counter + 1
  BY DEF Clock
<1>4. busy_until_cycle[b] = bank_next_available_cycle[b]
  BY DEF Golden, GoldenBank
<1>5. CASE completion_cycles'[b] = completion_cycles[b]
  <2>1. LET queue == completion_cycles[b]
        IN  /\ e <= Len(queue)
            /\ \A k \in 0..(e - 1) : queue[Len(queue) - e + 1 + k] = Left(b, k)
            /\ \A j \in 1..(Len(queue) - e) : queue[j] < cycle_counter + 1
    BY <1>1, QueueSplit
  <2> QED BY <1>2, <1>3, <1>4, <1>5, <2>1 DEF GoldenBank
<1>6. CASE completion_cycles'[b] = Drained(b, cycle_counter)
  <2> DEFINE drained == Drained(b, cycle_counter)
  <2>1. /\ Len(drained) = e /\ e \in Nat
        /\ \A k \in 0..(e - 1) : drained[k + 1] = Left(b, k)
    BY <1>1, DrainedIsLeft, ParametersAssumption
  <2> HIDE DEF drained
  <2>2. /\ e <= Len(drained) /\ 1..(Len(drained) - e) = {}
        /\ \A k \in 0..(e - 1) : Len(drained) - e + 1 + k = k + 1
    BY <2>1
  <2>3. completion_cycles'[b] = drained
    BY <1>6 DEF drained
  <2> QED BY <1>2, <1>3, <1>4, <2>1, <2>2, <2>3 DEF GoldenBank
<1> QED BY <1>5, <1>6

(* A bank that accepts: both append the same completion.                   *)
LEMMA GoldenAccepting ==
  ASSUME Inv, Inv', Rising, Golden, NEW b \in Banks,
         NEW accepting \in SUBSET Banks, Clock(accepting), \A c \in accepting : ready(c),
         b \in accepting, busy_until_cycle'[b] = accepted_done_cycle(b),
         completion_cycles'[b] = Enqueued(Drained(b, cycle_counter), accepted_done_cycle(b)),
         accepted_done_cycle(b) \in Nat
  PROVE  GoldenBank(b)'
<1> DEFINE drained == Drained(b, cycle_counter)
           queue == completion_cycles'[b]
<1>1. PICK e \in 0..QUEUE_DEPTH : e = outstanding_count[b] - Pops(b)
  BY PopRenumbers
<1>2. /\ outstanding_count'[b] = e + 1
      /\ Completion(b, e)' = accepted_done_cycle(b)
      /\ \A k \in 0..(e - 1) : Completion(b, k)' = Left(b, k)
  BY <1>1, ClockedCompletions
<1>3. /\ bank_next_available_cycle'[b] = accepted_done_cycle(b)
      /\ cycle_counter' = cycle_counter + 1
  BY DEF Clock
<1>4. /\ drained \in Seq(Nat) /\ Len(drained) = e /\ e \in Nat
      /\ \A k \in 0..(e - 1) : drained[k + 1] = Left(b, k)
  BY <1>1, DrainedIsLeft, ParametersAssumption
<1>5. queue = Append(drained, accepted_done_cycle(b))
  BY DEF Enqueued
<1> HIDE DEF drained, queue
<1>6. /\ Len(queue) = e + 1 /\ queue[e + 1] = accepted_done_cycle(b)
      /\ \A j \in 1..e : queue[j] = drained[j]
  BY <1>4, <1>5
<1>7. ASSUME NEW k \in 0..((e + 1) - 1)
      PROVE  queue[Len(queue) - (e + 1) + 1 + k] = Completion(b, k)'
  <2>1. k \in 0..e /\ Len(queue) - (e + 1) + 1 + k = k + 1
    BY <1>4, <1>6
  <2>2. CASE k = e
    BY <1>2, <1>6, <2>1, <2>2
  <2>3. CASE k # e
    <3>1. k \in 0..(e - 1) /\ k + 1 \in 1..e
      BY <1>4, <2>1, <2>3
    <3> QED BY <1>2, <1>4, <1>6, <2>1, <3>1
  <2> QED BY <2>2, <2>3
<1>8. e + 1 <= Len(queue) /\ 1..(Len(queue) - (e + 1)) = {}
  BY <1>4, <1>6
<1> QED BY <1>2, <1>3, <1>7, <1>8 DEF GoldenBank, queue

(* The golden model decides a request as the controller does.              *)
LEMMA GoldenDecides ==
  ASSUME Inv, Golden, NEW b \in Banks
  PROVE  /\ Len(Drained(b, cycle_counter)) < QUEUE_DEPTH <=> ready(b)
         /\ ServiceStart(b, cycle_counter) + SERVICE_LATENCY_CYCLES = accepted_done_cycle(b)
         /\ accepted_done_cycle(b) \in Nat
         /\ Drained(b, cycle_counter) \in Seq(Nat)
         /\ cycle_counter + latency_cycles(b) =
              IF ready(b) THEN accepted_done_cycle(b) ELSE cycle_counter
<1>0. /\ outstanding_count[b] \in 0..QUEUE_DEPTH /\ QUEUE_DEPTH \in Nat
      /\ SERVICE_LATENCY_CYCLES \in Nat /\ cycle_counter \in Nat
      /\ bank_next_available_cycle[b] \in Nat
  BY BankFacts, ParametersAssumption
<1>1. /\ effective_outstanding(b) = outstanding_count[b] - Pops(b)
      /\ effective_outstanding(b) \in 0..QUEUE_DEPTH
  BY <1>0 DEF effective_outstanding, Pops, Completes
<1>2. /\ Len(Drained(b, cycle_counter)) = effective_outstanding(b)
      /\ Drained(b, cycle_counter) \in Seq(Nat)
  BY <1>1, DrainedIsLeft
<1>3. busy_until_cycle[b] = bank_next_available_cycle[b]
  BY DEF Golden, GoldenBank
<1>4. accepted_done_cycle(b) \in Nat
  BY <1>0 DEF accepted_done_cycle
<1>5. ServiceStart(b, cycle_counter) + SERVICE_LATENCY_CYCLES = accepted_done_cycle(b)
  BY <1>0, <1>3 DEF ServiceStart, accepted_done_cycle
<1>6. cycle_counter + latency_cycles(b) =
        IF ready(b) THEN accepted_done_cycle(b) ELSE cycle_counter
  BY <1>0, <1>4 DEF latency_cycles
<1> QED BY <1>1, <1>2, <1>4, <1>5, <1>6 DEF ready

(* Both sides start empty.                                                 *)
LEMMA GoldenInitially == HInit => Golden /\ RowsAgree
<1> SUFFICES ASSUME HInit PROVE Golden /\ RowsAgree
  OBVIOUS
<1>1. GoldenTypeOK
  BY DEF HInit, GoldenInit, GoldenTypeOK
<1>2. ASSUME NEW b \in Banks PROVE GoldenBank(b)
  <2>1. /\ outstanding_count[b] = 0 /\ bank_next_available_cycle[b] = 0
        /\ busy_until_cycle[b] = 0 /\ completion_cycles[b] = <<>> /\ cycle_counter = 0
    BY DEF HInit, GoldenInit, Init
  <2>2. Len(<<>>) = 0 /\ 0..(0 - 1) = {} /\ 1..(0 - 0) = {} /\ 0 <= 0
    OBVIOUS
  <2> QED BY <2>1, <2>2 DEF GoldenBank
<1>3. RowsAgree
  BY DEF HInit, GoldenInit, NoRows, RowsAgree
<1> QED BY <1>1, <1>2, <1>3 DEF Golden

(* The next workload starts both sides afresh.                             *)
LEMMA GoldenReset ==
  ASSUME NextWorkload
  PROVE  Golden' /\ RowsAgree'
<1>1. GoldenTypeOK'
  BY DEF NextWorkload, GoldenTypeOK
<1>2. ASSUME NEW b \in Banks PROVE GoldenBank(b)'
  <2>1. /\ outstanding_count'[b] = 0 /\ bank_next_available_cycle'[b] = 0
        /\ busy_until_cycle'[b] = 0 /\ completion_cycles'[b] = <<>> /\ cycle_counter' = 0
    BY DEF NextWorkload, Reset
  <2>2. Len(<<>>) = 0 /\ 0..(0 - 1) = {} /\ 1..(0 - 0) = {} /\ 0 <= 0
    OBVIOUS
  <2> QED BY <2>1, <2>2 DEF GoldenBank
<1>3. RowsAgree'
  BY DEF NextWorkload, NoRows, RowsAgree
<1> QED BY <1>1, <1>2, <1>3 DEF Golden

(* A cycle without a request: only the rings pop.                          *)
LEMMA GoldenIdle ==
  ASSUME Inv, Inv', Rising, Golden, RowsAgree, IdleCycle
  PROVE  Golden' /\ RowsAgree'
<1>1. Clock({}) /\ UNCHANGED <<busy_until_cycle, completion_cycles, rows>>
  BY DEF IdleCycle, Idle, golden
<1>2. GoldenTypeOK' /\ RowsAgree'
  BY <1>1 DEF Golden, GoldenTypeOK, RowsAgree
<1>3. ASSUME NEW b \in Banks PROVE GoldenBank(b)'
  <2>1. {} \in SUBSET Banks /\ b \notin {} /\ \A c \in {} : ready(c)
    OBVIOUS
  <2> QED BY <1>1, <2>1, GoldenUntouched
<1> QED BY <1>2, <1>3 DEF Golden

(* A request: one bank is drained on both sides and may accept on both.    *)
LEMMA GoldenTraced ==
  ASSUME Inv, Inv', Rising, Golden, NEW addr \in Addresses, TraceRequest(addr)
  PROVE  Golden' /\ RowsAgree'
<1>0. PICK b \in Banks : b = bank_id(addr)
  BY BankExists
<1> DEFINE drained == Drained(b, cycle_counter)
           accepting == IF ready(b) THEN {b} ELSE {}
<1>1. Clock(accepting) /\ GoldenRequest(b, cycle_counter)
  BY <1>0 DEF TraceRequest, Request
<1>2. /\ Len(drained) < QUEUE_DEPTH <=> ready(b)
      /\ ServiceStart(b, cycle_counter) + SERVICE_LATENCY_CYCLES = accepted_done_cycle(b)
      /\ accepted_done_cycle(b) \in Nat
      /\ drained \in Seq(Nat)
      /\ cycle_counter + latency_cycles(b) =
           IF ready(b) THEN accepted_done_cycle(b) ELSE cycle_counter
  BY GoldenDecides
<1>3. /\ completion_cycles' = [completion_cycles EXCEPT
           ![b] = IF ready(b) THEN Enqueued(drained, accepted_done_cycle(b)) ELSE drained]
      /\ busy_until_cycle' = [busy_until_cycle EXCEPT
           ![b] = IF ready(b) THEN accepted_done_cycle(b) ELSE @]
      /\ rows' = [rtl |-> RtlRow(b),
                  model |-> IF ready(b)
                              THEN AcceptedRow(cycle_counter, accepted_done_cycle(b))
                              ELSE Rejected]
  BY <1>1, <1>2 DEF GoldenRequest
<1>4. accepting \in SUBSET Banks /\ \A c \in accepting : ready(c)
  OBVIOUS
<1>5. /\ busy_until_cycle \in [Banks -> Nat] /\ completion_cycles \in [Banks -> Seq(Nat)]
  BY DEF Golden, GoldenTypeOK
<1> HIDE DEF drained
<1>6. GoldenTypeOK'
  <2>1. Enqueued(drained, accepted_done_cycle(b)) \in Seq(Nat)
    BY <1>2 DEF Enqueued
  <2> QED BY <1>2, <1>3, <1>5, <2>1 DEF GoldenTypeOK
<1>7. RowsAgree'
  <2>1. RtlRow(b) = IF ready(b) THEN AcceptedRow(cycle_counter, accepted_done_cycle(b))
                    ELSE Rejected
    BY <1>2 DEF RtlRow
  <2> QED BY <1>3, <2>1 DEF RowsAgree
<1>8. ASSUME NEW c \in Banks PROVE GoldenBank(c)'
  <2>1. CASE c # b
    <3>1. /\ completion_cycles'[c] = completion_cycles[c]
          /\ busy_until_cycle'[c] = busy_until_cycle[c] /\ c \notin accepting
      BY <1>3, <1>5, <2>1
    <3> QED BY <1>1, <1>4, <3>1, GoldenUntouched
  <2>2. CASE c = b /\ ~ready(b)
    <3>1. /\ completion_cycles'[c] = Drained(c, cycle_counter)
          /\ busy_until_cycle'[c] = busy_until_cycle[c] /\ c \notin accepting
      BY <1>3, <1>5, <2>2 DEF drained
    <3> QED BY <1>1, <1>4, <3>1, GoldenUntouched
  <2>3. CASE c = b /\ ready(b)
    <3>1. /\ completion_cycles'[c] = Enqueued(Drained(c, cycle_counter), accepted_done_cycle(c))
          /\ busy_until_cycle'[c] = accepted_done_cycle(c) /\ c \in accepting
      BY <1>3, <1>5, <2>3 DEF drained
    <3>2. accepted_done_cycle(c) \in Nat
      BY <1>2, <2>3
    <3> QED BY <1>1, <1>4, <3>1, <3>2, GoldenAccepting
  <2> QED BY <2>1, <2>2, <2>3
<1> QED BY <1>6, <1>7, <1>8 DEF Golden

(* Every step of Project H keeps the two sides together.                   *)
LEMMA GoldenStep ==
  Inv /\ Inv' /\ Rising /\ Golden /\ RowsAgree /\ [HNext]_vars => Golden' /\ RowsAgree'
<1> SUFFICES ASSUME Inv, Inv', Rising, Golden, RowsAgree, [HNext]_vars
             PROVE  Golden' /\ RowsAgree'
  OBVIOUS
<1>1. CASE UNCHANGED vars
  <2>1. /\ UNCHANGED <<cycle_counter, outstanding_count, head_index, completion_cycle,
                       bank_next_available_cycle>>
        /\ UNCHANGED <<busy_until_cycle, completion_cycles, rows>>
    BY <1>1 DEF vars, registers, golden
  <2>2. \A b, k : Completion(b, k)' = Completion(b, k)
    BY <2>1 DEF Completion, Slot, SlotFrom
  <2>3. \A b \in Banks : GoldenBank(b)'
    BY <2>1, <2>2 DEF Golden, GoldenBank
  <2> QED BY <2>1, <2>3 DEF Golden, GoldenTypeOK, RowsAgree
<1> QED BY <1>1, GoldenIdle, GoldenTraced, GoldenReset DEF HNext

(* Project H runs the controller as it is.                                 *)
LEMMA HarnessRunsController == HSpec => Spec
<1>1. HInit => Init
  BY DEF HInit
<1>2. [HNext]_vars => [Next]_registers
  <2>1. UNCHANGED vars => UNCHANGED registers
    BY DEF vars
  <2>2. HNext => Next
    BY DEF HNext, IdleCycle, TraceRequest, NextWorkload, Next
  <2> QED BY <2>1, <2>2
<1> QED BY <1>1, <1>2, PTL DEF HSpec, Spec

(* Whatever the workloads, every request gets the same decision, the same  *)
(* completion cycle and the same latency from the RTL and from the golden  *)
(* model, so the summaries main.cpp correlates are equal.                  *)
THEOREM GoldenModelAgrees == HSpec => []RowsAgree
<1>1. HInit => Golden /\ RowsAgree /\ Rising
  BY GoldenInitially, InitRising DEF HInit
<1>2. Inv /\ Inv' /\ Rising /\ [Next]_registers => Rising'
  BY StepImplements
<1>3. HSpec => Spec
  BY HarnessRunsController
<1>4. Spec => []Inv
  BY Invariance
<1>5. Init => Rising
  BY InitRising
<1>6. Spec => []Rising
  BY <1>2, <1>4, <1>5, PTL DEF Spec
<1>7. HSpec => [](Golden /\ RowsAgree)
  BY <1>1, <1>3, <1>4, <1>6, GoldenStep, PTL DEF HSpec
<1> QED BY <1>7, PTL
=============================================================================
