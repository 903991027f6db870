---------------------------- MODULE FabricsProofs ----------------------------
(***************************************************************************)
(* AT-2 and AT-3 for every set of options: the fabric's invariant under    *)
(* the three policies and under the weights, how often a waiting initiator *)
(* can be overtaken, and from the steps of the fabric what holds in every  *)
(* run of the two programs.                                                *)
(***************************************************************************)
EXTENDS Fabrics, MultiInitiatorProofs

-----------------------------------------------------------------------------
(* The arbiter of AT-2.                                                    *)

(* How many initiators the round-robin search from rr looks at before x.   *)
Distance(rr, x) ==
  IF rr = 0 THEN <<2, 0, 1>>[x + 1]
  ELSE IF rr = 1 THEN <<1, 2, 0>>[x + 1] ELSE <<0, 1, 2>>[x + 1]

(* i comes before j in dma0, cpu0, accel0.                                 *)
Precedes(i, j) == i # j /\ (i = 1 \/ j = 2)

(* How many slots of j the weighted scan from a cursor meets before it     *)
(* comes to one of i.                                                      *)
SlotsBefore(i, j, cursor) ==
  IF i = 0 THEN IF j = 2 THEN <<3, 2, 1, 0, 3>>[cursor + 1] ELSE <<0, 0, 0, 0, 1>>[cursor + 1]
  ELSE IF i = 1
    THEN IF j = 2 THEN <<3, 2, 1, 0, 0>>[cursor + 1] ELSE <<1, 1, 1, 1, 0>>[cursor + 1]
    ELSE IF j = 0 THEN <<0, 0, 0, 1, 0>>[cursor + 1] ELSE <<0, 0, 0, 1, 1>>[cursor + 1]

Slots(j) == IF j = 2 THEN 3 ELSE 1

(* How many initiators round robin meets between each cursor and each      *)
(* initiator.                                                              *)
LEMMA DistanceTable ==
  /\ Distance(0, 0) = 2 /\ Distance(0, 1) = 0 /\ Distance(0, 2) = 1
  /\ Distance(1, 0) = 1 /\ Distance(1, 1) = 2 /\ Distance(1, 2) = 0
  /\ Distance(2, 0) = 0 /\ Distance(2, 1) = 1 /\ Distance(2, 2) = 2
BY DEF Distance

(* The search starts behind the last winner and keeps its cyclic order.    *)
LEMMA DistanceFacts ==
  ASSUME NEW rr \in Initiators, NEW w \in Initiators, NEW i \in Initiators,
         NEW j \in Initiators, i # w, i # j
  PROVE  /\ Distance(rr, i) \in Int /\ Distance(rr, w) \in Int
         /\ Distance(w, i) < Distance(w, w)
         /\ (Distance(rr, w) < Distance(rr, i) /\ Distance(rr, i) < Distance(rr, j))
              => Distance(w, i) < Distance(w, j)
<1>1. CASE rr = 0
  BY <1>1, DistanceTable DEF Initiators
<1>2. CASE rr = 1
  BY <1>2, DistanceTable DEF Initiators
<1>3. CASE rr = 2
  BY <1>3, DistanceTable DEF Initiators
<1> QED BY <1>1, <1>2, <1>3 DEF Initiators

(* Before the scan meets i it meets j at most as often as j has slots.     *)
LEMMA SlotsBeforeBound ==
  ASSUME NEW i \in Initiators, NEW j \in Initiators, i # j, NEW cursor \in 0..4
  PROVE  SlotsBefore(i, j, cursor) \in Nat /\ SlotsBefore(i, j, cursor) <= Slots(j)
<1>1. CASE i = 0
  BY <1>1 DEF SlotsBefore, Slots, Initiators
<1>2. CASE i = 1
  BY <1>2 DEF SlotsBefore, Slots, Initiators
<1>3. CASE i = 2
  BY <1>3 DEF SlotsBefore, Slots, Initiators
<1> QED BY <1>1, <1>2, <1>3 DEF Initiators

(* What one call of the arbiter promises, for each policy.                 *)
RoundRobinFair(P, rr, choice) ==
  /\ choice.winner \in P /\ choice.last_rr_index = choice.winner
  /\ \A j \in P : j # choice.winner => Distance(rr, choice.winner) < Distance(rr, j)

FixedFair(P, choice) ==
  /\ choice.winner \in P
  /\ \A j \in P : ~Precedes(j, choice.winner)

WeightedFair(P, cursor, choice) ==
  /\ choice.winner \in P /\ choice.weighted_cursor \in 0..4
  /\ \A i \in P : i # choice.winner =>
       /\ SlotsBefore(i, choice.winner, choice.weighted_cursor) + 1
            <= SlotsBefore(i, choice.winner, cursor)
       /\ \A j \in Initiators : j # i =>
            SlotsBefore(i, j, choice.weighted_cursor) <= SlotsBefore(i, j, cursor)

(* choose_next_initiator under round robin takes the nearest pending       *)
(* initiator and leaves the weighted cursor.                               *)
LEMMA RoundRobinIsFair ==
  ASSUME NEW P \in SUBSET Initiators, P # {}, NEW rr \in Initiators, NEW cursor
  PROVE  /\ RoundRobinFair(P, rr, RoundRobin(P, rr, cursor))
         /\ RoundRobin(P, rr, cursor).weighted_cursor = cursor
<1> DEFINE hit(o) == ((rr + o) % 3) \in P
           first == CHOOSE o \in 1..3 : hit(o) /\ \A p \in 1..(o - 1) : ~hit(p)
           w == (rr + first) % 3
<1>1. RoundRobin(P, rr, cursor) = Choice(w, w, cursor)
  BY DEF RoundRobin
<1>2. \E o \in 1..3 : hit(o) /\ \A p \in 1..(o - 1) : ~hit(p)
  <2>1. hit(1) \/ hit(2) \/ hit(3)
    <3>1. PICK x \in P : x \in 0..2
      BY DEF Initiators
    <3>2. CASE rr = 0
      BY <3>1, <3>2
    <3>3. CASE rr = 1
      BY <3>1, <3>3
    <3>4. CASE rr = 2
      BY <3>1, <3>4
    <3> QED BY <3>2, <3>3, <3>4 DEF Initiators
  <2>2. CASE hit(1)
    BY <2>2
  <2>3. CASE ~hit(1) /\ hit(2)
    <3>1. \A p \in 1..(2 - 1) : p = 1
      OBVIOUS
    <3> QED BY <2>3, <3>1
  <2>4. CASE ~hit(1) /\ ~hit(2) /\ hit(3)
    <3>1. \A p \in 1..(3 - 1) : p = 1 \/ p = 2
      OBVIOUS
    <3> QED BY <2>4, <3>1
  <2> QED BY <2>1, <2>2, <2>3, <2>4
<1>3. first \in 1..3 /\ hit(first) /\ \A p \in 1..(first - 1) : ~hit(p)
  BY <1>2
<1> HIDE DEF first
<1>4. w \in P /\ \A j \in P : j # w => Distance(rr, w) < Distance(rr, j)
  <2>1. CASE first = 1
    BY <1>3, <2>1 DEF Initiators, Distance
  <2>2. CASE first = 2
    BY <1>3, <2>2 DEF Initiators, Distance
  <2>3. CASE first = 3
    BY <1>3, <2>3 DEF Initiators, Distance
  <2> QED BY <1>3, <2>1, <2>2, <2>3
<1> QED BY <1>1, <1>4 DEF RoundRobinFair, Choice

(* Under fixed priority it takes the pending initiator of the highest      *)
(* priority and leaves both cursors.                                       *)
LEMMA FixedPriorityIsFair ==
  ASSUME NEW P \in SUBSET Initiators, P # {}, NEW rr, NEW cursor
  PROVE  /\ FixedFair(P, FixedPriority(P, rr, cursor))
         /\ FixedPriority(P, rr, cursor).last_rr_index = rr
         /\ FixedPriority(P, rr, cursor).weighted_cursor = cursor
<1> DEFINE first == CHOOSE p \in 1..3 : /\ FixedOrder[p] \in P
                                        /\ \A q \in 1..(p - 1) : FixedOrder[q] \notin P
<1>1. FixedPriority(P, rr, cursor) = Choice(FixedOrder[first], rr, cursor)
  BY DEF FixedPriority
<1>2. FixedOrder[1] = 1 /\ FixedOrder[2] = 0 /\ FixedOrder[3] = 2
  BY DEF FixedOrder
<1>3. \E p \in 1..3 : /\ FixedOrder[p] \in P
                      /\ \A q \in 1..(p - 1) : FixedOrder[q] \notin P
  <2>1. CASE 1 \in P
    BY <1>2, <2>1
  <2>2. CASE 1 \notin P /\ 0 \in P
    <3>1. \A q \in 1..(2 - 1) : q = 1
      OBVIOUS
    <3> QED BY <1>2, <2>2, <3>1
  <2>3. CASE 1 \notin P /\ 0 \notin P
    <3>1. 2 \in P
      <4>1. PICK x \in P : x \in 0..2
        BY DEF Initiators
      <4> QED BY <2>3, <4>1
    <3>2. \A q \in 1..(3 - 1) : q = 1 \/ q = 2
      OBVIOUS
    <3> QED BY <1>2, <2>3, <3>1, <3>2
  <2> QED BY <2>1, <2>2, <2>3
<1>4. /\ first \in 1..3 /\ FixedOrder[first] \in P
      /\ \A q \in 1..(first - 1) : FixedOrder[q] \notin P
  BY <1>3
<1> HIDE DEF first
<1>5. \A j \in P : ~Precedes(j, FixedOrder[first])
  <2>1. CASE first = 1
    BY <1>2, <2>1 DEF Precedes
  <2>2. CASE first = 2
    BY <1>2, <1>4, <2>2 DEF Precedes, Initiators
  <2>3. CASE first = 3
    BY <1>2, <1>4, <2>3 DEF Precedes, Initiators
  <2> QED BY <1>4, <2>1, <2>2, <2>3
<1> QED BY <1>1, <1>4, <1>5 DEF FixedFair, Choice

(* A set of places of the weighted order has a least element.              *)
LEMMA LeastOfFive ==
  ASSUME NEW S \in SUBSET (0..4), S # {}
  PROVE  \E c \in S : \A d \in S : c <= d
<1>1. CASE 0 \in S
  BY <1>1
<1>2. CASE 0 \notin S /\ 1 \in S
  BY <1>2
<1>3. CASE 0 \notin S /\ 1 \notin S /\ 2 \in S
  BY <1>3
<1>4. CASE 0 \notin S /\ 1 \notin S /\ 2 \notin S /\ 3 \in S
  BY <1>4
<1>5. CASE 0 \notin S /\ 1 \notin S /\ 2 \notin S /\ 3 \notin S
  <2>1. \A d \in S : d = 4
    BY <1>5
  <2>2. PICK c \in S : c = 4
    BY <2>1
  <2> QED BY <2>1, <2>2
<1> QED BY <1>1, <1>2, <1>3, <1>4, <1>5

(* Under the weighted policy it takes the nearest slot of a pending        *)
(* initiator and leaves the round-robin cursor.                            *)
LEMMA WeightedScanIsFair ==
  ASSUME NEW P \in SUBSET Initiators, P # {}, NEW rr, NEW cursor \in 0..4
  PROVE  /\ WeightedFair(P, cursor, WeightedScan(AT2WeightedOrder, P, rr, cursor))
         /\ WeightedScan(AT2WeightedOrder, P, rr, cursor).last_rr_index = rr
<1> DEFINE slot(c) == AT2WeightedOrder[((cursor + c) % Len(AT2WeightedOrder)) + 1]
           hits == {c \in 0..(Len(AT2WeightedOrder) - 1) : slot(c) \in P}
           first == CHOOSE c \in hits : \A d \in hits : c <= d
           next == (cursor + first + 1) % 5
<1>1. Len(AT2WeightedOrder) = 5
  BY DEF AT2WeightedOrder
<1>2. /\ AT2WeightedOrder[1] = 2 /\ AT2WeightedOrder[2] = 2 /\ AT2WeightedOrder[3] = 2
      /\ AT2WeightedOrder[4] = 0 /\ AT2WeightedOrder[5] = 1
  BY DEF AT2WeightedOrder
<1>3. hits = {c \in 0..4 : AT2WeightedOrder[((cursor + c) % 5) + 1] \in P}
  BY <1>1
<1>4. hits # {}
  <2>1. \E s \in 1..5 : AT2WeightedOrder[s] \in P
    <3>1. PICK x \in P : x \in 0..2
      BY DEF Initiators
    <3>2. x = 0 \/ x = 1 \/ x = 2
      BY <3>1
    <3> QED BY <1>2, <3>1, <3>2
  <2>2. PICK s \in 1..5 : AT2WeightedOrder[s] \in P
    BY <2>1
  <2>3. \E c \in 0..4 : (cursor + c) % 5 = s - 1
    <3>1. CASE s - 1 >= cursor
      <4>1. s - 1 - cursor \in 0..4 /\ (cursor + (s - 1 - cursor)) % 5 = s - 1
        BY <3>1
      <4> QED BY <4>1
    <3>2. CASE s - 1 < cursor
      <4>1. /\ s + 4 - cursor \in 0..4
            /\ (cursor + (s + 4 - cursor)) % 5 = s - 1
        BY <3>2
      <4> QED BY <4>1
    <3> QED BY <3>1, <3>2
  <2>4. PICK c \in 0..4 : (cursor + c) % 5 = s - 1
    BY <2>3
  <2>5. AT2WeightedOrder[((cursor + c) % 5) + 1] \in P
    BY <2>2, <2>4
  <2> QED BY <1>3, <2>5
<1>5. first \in hits /\ \A d \in hits : first <= d
  <2>1. \E c \in hits : \A d \in hits : c <= d
    <3>1. hits \subseteq 0..4
      BY <1>3
    <3> HIDE DEF hits
    <3> QED BY <1>4, <3>1, LeastOfFive
  <2> HIDE DEF hits
  <2> QED BY <2>1
<1>6. WeightedScan(AT2WeightedOrder, P, rr, cursor) = Choice(slot(first), rr, next)
  BY <1>1, <1>4 DEF WeightedScan
<1>7. /\ first \in 0..4 /\ slot(first) \in P
      /\ \A d \in 0..4 : d < first => slot(d) \notin P
  <2>1. hits = {c \in 0..4 : slot(c) \in P}
    BY <1>1
  <2> HIDE DEF hits, slot, first
  <2>2. first \in 0..4 /\ slot(first) \in P
    BY <1>5, <2>1
  <2>3. ASSUME NEW d \in 0..4, d < first, slot(d) \in P
        PROVE  FALSE
    <3>1. first <= d
      BY <1>5, <2>1, <2>3
    <3> QED BY <2>2, <2>3, <3>1
  <2> QED BY <2>2, <2>3
<1> HIDE DEF first, hits
<1>8. WeightedFair(P, cursor, Choice(slot(first), rr, next))
  <2>1. next \in 0..4
    BY <1>7
  <2> QED BY <1>1, <1>2, <1>7, <2>1 DEF WeightedFair, Choice, Initiators, SlotsBefore
<1> QED BY <1>6, <1>8 DEF Choice
-----------------------------------------------------------------------------
HistoryOK ==
  /\ opt \in PolicyOptions
  /\ last_rr_index \in Initiators /\ weighted_cursor \in 0..4
  /\ PassedOK

(* Each grant of j that i saw is a request of j that left its queue.       *)
GrantsAreIssued ==
  \A i, j \in Initiators : passed[i][j] + Len(pending[j]) <= Issued(j)

(* A grant to j while i waits is paid for: the search of round_robin comes *)
(* to i before it comes to j again, and the scan of weighted_priority has  *)
(* fewer slots of j left before the next one of i.                         *)
Paid ==
  \A i, j \in Initiators : i # j =>
    CASE opt.policy = "round_robin" ->
           /\ passed[i][j] <= 1
           /\ passed[i][j] = 1 => Distance(last_rr_index, i) < Distance(last_rr_index, j)
      [] opt.policy = "fixed_priority" -> Precedes(i, j) => passed[i][j] = 0
      [] opt.policy = "weighted_priority" ->
           passed[i][j] + SlotsBefore(i, j, weighted_cursor) <= Slots(j)

OvertakingInv ==
  FabricInv /\ HistoryOK /\ CountsWhileWaiting /\ GrantsAreIssued /\ Paid

(* The bound of each policy follows from what is paid.                     *)
LEMMA PaidBoundsOvertaking ==
  ASSUME OvertakingInv
  PROVE  BoundedOvertaking
<1> SUFFICES ASSUME NEW i \in Initiators, NEW j \in Initiators, i # j
             PROVE  passed[i][j] <= OvertakingBound(i, j)
  BY DEF BoundedOvertaking
<1>1. /\ passed[i][j] \in Nat /\ opt.num_transactions \in Nat /\ opt.policy \in Policies
      /\ weighted_cursor \in 0..4 /\ pending[j] \in Seq(Txns) /\ next_txn[j] \in Nat
  BY PolicyOptionsAssumption DEF OvertakingInv, HistoryOK, PassedOK, FabricInv, QueuesOK
<1>2. CASE opt.policy = "round_robin"
  BY <1>1, <1>2 DEF OvertakingInv, Paid, OvertakingBound
<1>3. CASE opt.policy = "fixed_priority"
  <2>1. CASE \E p, q \in 1..3 : p < q /\ FixedOrder[p] = i /\ FixedOrder[q] = j
    <3>1. Precedes(i, j)
      BY <2>1 DEF FixedOrder, Precedes
    <3>2. passed[i][j] = 0
      BY <1>3, <3>1 DEF OvertakingInv, Paid
    <3> QED BY <1>3, <2>1, <3>2 DEF OvertakingBound
  <2>2. CASE ~\E p, q \in 1..3 : p < q /\ FixedOrder[p] = i /\ FixedOrder[q] = j
    <3>1. passed[i][j] + Len(pending[j]) <= Issued(j) /\ Len(pending[j]) \in Nat
      BY <1>1, LenProperties DEF OvertakingInv, GrantsAreIssued
    <3>2. passed[i][j] <= opt.num_transactions
      BY <1>1, <3>1 DEF Issued
    <3> QED BY <1>3, <2>2, <3>2 DEF OvertakingBound
  <2> QED BY <2>1, <2>2
<1>4. CASE opt.policy = "weighted_priority"
  <2>1. passed[i][j] + SlotsBefore(i, j, weighted_cursor) <= Slots(j)
    BY <1>4 DEF OvertakingInv, Paid
  <2>2. SlotsBefore(i, j, weighted_cursor) \in Nat
    BY <1>1 DEF SlotsBefore, Initiators
  <2>3. passed[i][j] <= Slots(j)
    BY <1>1, <2>1, <2>2 DEF Slots
  <2> QED BY <1>4, <2>3 DEF Slots, OvertakingBound
<1> QED BY <1>1, <1>2, <1>3, <1>4 DEF Policies

(* Every option record of AT-2 is one of the fabric.                       *)
LEMMA PolicyOptionsOK == opt \in PolicyOptions => OptOK
BY PolicyOptionsAssumption DEF OptOK

(* Nobody has been passed at first.                                        *)
LEMMA InitOvertaking == AT2Init => OvertakingInv
<1> SUFFICES ASSUME AT2Init PROVE OvertakingInv
  OBVIOUS
<1>1. FabricInv
  BY PolicyOptionsOK, InitFabric DEF AT2Init
<1>2. /\ opt \in PolicyOptions /\ last_rr_index = 2 /\ weighted_cursor = 0
      /\ passed = [i \in Initiators |-> [j \in Initiators |-> 0]]
      /\ pending = [i \in Initiators |-> <<>>]
      /\ next_txn = [i \in Initiators |-> 0]
  BY DEF AT2Init, Init
<1>3. HistoryOK /\ CountsWhileWaiting
  BY <1>2 DEF HistoryOK, PassedOK, CountsWhileWaiting, Initiators
<1>4. GrantsAreIssued
  <2>1. Len(<<>>) = 0
    OBVIOUS
  <2> QED BY <1>2, <2>1 DEF GrantsAreIssued, Issued
<1>5. Paid
  <2>1. /\ opt.policy \in Policies
        /\ \A i, j \in Initiators : i # j =>
             /\ passed[i][j] = 0
             /\ passed[i][j] + SlotsBefore(i, j, weighted_cursor) <= Slots(j)
    BY <1>2, PolicyOptionsAssumption DEF SlotsBefore, Slots, Initiators
  <2>2. CASE opt.policy = "round_robin"
    BY <2>1, <2>2 DEF Paid
  <2>3. CASE opt.policy = "fixed_priority"
    BY <2>1, <2>3 DEF Paid
  <2>4. CASE opt.policy = "weighted_priority"
    BY <2>1, <2>4 DEF Paid
  <2> QED BY <2>1, <2>2, <2>3, <2>4 DEF Policies
<1> QED BY <1>1, <1>3, <1>4, <1>5 DEF OvertakingInv

(* Steps that neither issue nor grant.                                     *)
LEMMA ElsewhereOvertaking ==
  ASSUME OvertakingInv, FabricInv',
         UNCHANGED <<opt, next_txn, pending, last_rr_index, weighted_cursor, passed>>
  PROVE  OvertakingInv'
BY DEF OvertakingInv, HistoryOK, PassedOK, CountsWhileWaiting, GrantsAreIssued, Issued, Paid

(* A new request keeps what has been paid for grants.                      *)
LEMMA IssueOvertaking ==
  ASSUME OvertakingInv, NEW i \in Initiators, AT2Issue(i)
  PROVE  OvertakingInv'
<1>1. FabricInv'
  BY IssueRequestsInv DEF OvertakingInv, AT2Issue
<1>2. /\ UNCHANGED <<opt, last_rr_index, weighted_cursor, passed>>
      /\ next_txn' = [next_txn EXCEPT ![i] = next_txn[i] + 1]
  BY DEF AT2Issue, IssueRequests
<1>3. /\ next_txn \in [Initiators -> Nat] /\ pending \in [Initiators -> Seq(Txns)]
      /\ pending' \in [Initiators -> Seq(Txns')] /\ opt.num_transactions \in Nat
      /\ passed \in [Initiators -> [Initiators -> Nat]]
  BY <1>1 DEF OvertakingInv, FabricInv, QueuesOK, OptOK, HistoryOK, PassedOK
<1>4. HistoryOK' /\ Paid' /\ CountsWhileWaiting'
  <2>1. PassedOK' /\ CountsWhileWaiting'
    BY IssueCounts DEF OvertakingInv, HistoryOK, AT2Issue
  <2> QED BY <1>2, <2>1 DEF OvertakingInv, HistoryOK, Paid
<1>5. CASE next_txn[i] # 0 /\ next_txn[i] <= opt.num_transactions
  <2> DEFINE t == <<i, next_txn[i]>>
  <2>1. pending' = [pending EXCEPT ![i] = Append(pending[i], t)]
    BY <1>5 DEF AT2Issue, IssueRequests, BeginRequest
  <2>2. Len(pending'[i]) = Len(pending[i]) + 1 /\ Len(pending[i]) \in Nat
    <3>1. t \in Txns
      BY <1>3, <1>5 DEF Txns
    <3> QED BY <1>3, <2>1, <3>1
  <2>3. \A j \in Initiators : j # i => pending'[j] = pending[j] /\ next_txn'[j] = next_txn[j]
    BY <1>2, <1>3, <2>1
  <2>5. Issued(i)' = Issued(i) + 1 /\ Issued(i) \in Nat
    BY <1>2, <1>3, <1>5 DEF Issued
  <2>6. \A j \in Initiators : j # i => Issued(j)' = Issued(j)
    BY <1>2, <2>3 DEF Issued
  <2>7. GrantsAreIssued'
    <3> SUFFICES ASSUME NEW h \in Initiators, NEW j \in Initiators
                 PROVE  passed'[h][j] + Len(pending'[j]) <= Issued(j)'
      BY DEF GrantsAreIssued
    <3>1. /\ passed[h][j] + Len(pending[j]) <= Issued(j) /\ passed'[h][j] = passed[h][j]
          /\ passed[h][j] \in Nat
      BY <1>2, <1>3 DEF OvertakingInv, GrantsAreIssued
    <3>2. CASE j = i
      BY <2>2, <2>5, <3>1, <3>2
    <3>3. CASE j # i
      BY <2>3, <2>6, <3>1, <3>3
    <3> QED BY <3>2, <3>3
  <2> QED BY <1>1, <1>4, <2>7 DEF OvertakingInv
<1>6. CASE ~(next_txn[i] # 0 /\ next_txn[i] <= opt.num_transactions)
  <2>1. pending' = pending
    BY <1>3, <1>6 DEF AT2Issue, IssueRequests, FinishIssuing
  <2>2. \A j \in Initiators : Issued(j)' = Issued(j)
    BY <1>2, <1>3, <1>6 DEF Issued
  <2>3. GrantsAreIssued'
    BY <1>2, <2>1, <2>2 DEF OvertakingInv, GrantsAreIssued
  <2> QED BY <1>1, <1>4, <2>3 DEF OvertakingInv
<1> QED BY <1>5, <1>6

(* What a grant to w does to the queues and to the counts.                 *)
LEMMA GrantOvertaking ==
  ASSUME OvertakingInv, FabricInv', NEW choice, NEW w \in HasPending,
         w = choice.winner, Grant(choice), UNCHANGED <<opt, next_txn>>,
         choice.last_rr_index \in Initiators, choice.weighted_cursor \in 0..4,
         opt.policy = "round_robin" => RoundRobinFair(HasPending, last_rr_index, choice),
         opt.policy = "fixed_priority" => FixedFair(HasPending, choice),
         opt.policy = "weighted_priority"
           => WeightedFair(HasPending, weighted_cursor, choice)
  PROVE  OvertakingInv'
<1>1. /\ w \in Initiators /\ pending \in [Initiators -> Seq(Txns)]
      /\ passed \in [Initiators -> [Initiators -> Nat]]
      /\ weighted_cursor \in 0..4 /\ last_rr_index \in Initiators
      /\ opt.policy \in Policies
  BY PolicyOptionsAssumption
  DEF HasPending, OvertakingInv, HistoryOK, PassedOK, FabricInv, QueuesOK
<1>2. last_rr_index' = choice.last_rr_index /\ weighted_cursor' = choice.weighted_cursor
  BY DEF Grant
<1> DEFINE Counts(i) ==
             /\ i \in HasPending /\ i # w
             /\ passed'[i][w] = passed[i][w] + 1
             /\ \A j \in Initiators : j # w => passed'[i][j] = passed[i][j]
<1>3. /\ PassedOK' /\ CountsWhileWaiting'
      /\ \A j \in Initiators : j # w => pending'[j] = pending[j]
      /\ Len(pending'[w]) = Len(pending[w]) - 1 /\ Len(pending'[w]) \in Nat
      /\ \A i \in Initiators : (\A j \in Initiators : passed'[i][j] = 0) \/ Counts(i)
  BY GrantCounts DEF OvertakingInv, HistoryOK
<1>4. HistoryOK'
  BY <1>2, <1>3 DEF OvertakingInv, HistoryOK
<1>5. GrantsAreIssued'
  <2> SUFFICES ASSUME NEW i \in Initiators, NEW j \in Initiators
               PROVE  passed'[i][j] + Len(pending'[j]) <= Issued(j)'
    BY DEF GrantsAreIssued
  <2>1. /\ Issued(j)' = Issued(j) /\ passed[i][j] \in Nat
        /\ passed[i][j] + Len(pending[j]) <= Issued(j)
    BY <1>1 DEF Issued, OvertakingInv, GrantsAreIssued
  <2>2. Issued(j) \in Int
    BY DEF Issued, OvertakingInv, FabricInv, QueuesOK, OptOK
  <2>3. /\ Len(pending[j]) \in Nat /\ Len(pending'[j]) \in Nat
        /\ Len(pending'[j]) = IF j = w THEN Len(pending[j]) - 1 ELSE Len(pending[j])
    <3>1. Len(pending[j]) \in Nat
      BY <1>1, LenProperties
    <3> QED BY <1>3, <3>1
  <2>4. CASE passed'[i][j] = 0
    BY <2>1, <2>2, <2>3, <2>4
  <2>5. CASE Counts(i)
    <3>1. passed'[i][j] = IF j = w THEN passed[i][j] + 1 ELSE passed[i][j]
      BY <2>5
    <3> QED BY <2>1, <2>2, <2>3, <3>1
  <2> QED BY <1>3, <2>4, <2>5
<1>6. Paid'
  <2> SUFFICES ASSUME NEW i \in Initiators, NEW j \in Initiators, i # j
               PROVE  CASE opt.policy = "round_robin" ->
                             /\ passed'[i][j] <= 1
                             /\ passed'[i][j] = 1
                                  => Distance(last_rr_index', i) < Distance(last_rr_index', j)
                        [] opt.policy = "fixed_priority" ->
                             Precedes(i, j) => passed'[i][j] = 0
                        [] opt.policy = "weighted_priority" ->
                             passed'[i][j] + SlotsBefore(i, j, weighted_cursor') <= Slots(j)
    BY DEF Paid
  <2>1. CASE opt.policy = "round_robin"
    <3>1. /\ passed[i][j] <= 1 /\ passed[i][j] \in Nat
          /\ passed[i][j] = 1 => Distance(last_rr_index, i) < Distance(last_rr_index, j)
      BY <1>1, <2>1 DEF OvertakingInv, Paid
    <3>2. last_rr_index' = w
      BY <1>2, <2>1 DEF RoundRobinFair
    <3>3. CASE passed'[i][j] = 0
      BY <2>1, <3>3
    <3>4. CASE Counts(i)
      <4>1. Distance(last_rr_index, w) < Distance(last_rr_index, i)
        BY <2>1, <3>4 DEF RoundRobinFair
      <4>2. CASE j = w
        <5>1. passed[i][w] = 0
          <6>1. ~(Distance(last_rr_index, i) < Distance(last_rr_index, w))
            BY <1>1, <3>4, <4>1, <4>2, DistanceFacts
          <6>2. passed[i][w] # 1 /\ passed[i][w] <= 1 /\ passed[i][w] \in Nat
            BY <3>1, <4>2, <6>1
          <6> QED BY <6>2
        <5>2. passed'[i][j] = 1
          BY <3>4, <4>2, <5>1
        <5>3. Distance(w, i) < Distance(w, j)
          BY <1>1, <3>4, <4>2, DistanceFacts
        <5> QED BY <2>1, <3>2, <5>2, <5>3
      <4>3. CASE j # w
        <5>1. passed'[i][j] = passed[i][j]
          BY <3>4, <4>3
        <5>2. Distance(last_rr_index, i) < Distance(last_rr_index, j)
                => Distance(w, i) < Distance(w, j)
          BY <1>1, <3>4, <4>1, DistanceFacts
        <5> QED BY <2>1, <3>1, <3>2, <5>1, <5>2
      <4> QED BY <4>2, <4>3
    <3> QED BY <1>3, <3>3, <3>4
  <2>2. CASE opt.policy = "fixed_priority"
    <3> SUFFICES ASSUME Precedes(i, j) PROVE passed'[i][j] = 0
      BY <2>2
    <3>1. passed[i][j] = 0
      BY <2>2 DEF OvertakingInv, Paid
    <3>2. CASE Counts(i)
      <4>1. j # w
        BY <2>2, <3>2 DEF FixedFair
      <4> QED BY <3>1, <3>2, <4>1
    <3> QED BY <1>3, <3>2
  <2>3. CASE opt.policy = "weighted_priority"
    <3>1. /\ passed[i][j] + SlotsBefore(i, j, weighted_cursor) <= Slots(j)
          /\ passed[i][j] \in Nat
      BY <1>1, <2>3 DEF OvertakingInv, Paid
    <3>2. SlotsBefore(i, j, weighted_cursor) \in Nat
          /\ SlotsBefore(i, j, weighted_cursor') \in Nat
          /\ SlotsBefore(i, j, weighted_cursor') <= Slots(j)
      BY <1>1, <1>2, SlotsBeforeBound
    <3>3. CASE passed'[i][j] = 0
      BY <2>3, <3>2, <3>3
    <3>4. CASE Counts(i)
      <4>1. /\ SlotsBefore(i, w, weighted_cursor') + 1 <= SlotsBefore(i, w, weighted_cursor)
            /\ SlotsBefore(i, j, weighted_cursor') <= SlotsBefore(i, j, weighted_cursor)
        BY <1>2, <2>3, <3>4 DEF WeightedFair
      <4>2. passed'[i][j] + SlotsBefore(i, j, weighted_cursor') <= Slots(j)
        <5>1. CASE j = w
          BY <3>1, <3>2, <3>4, <4>1, <5>1 DEF Slots
        <5>2. CASE j # w
          BY <3>1, <3>2, <3>4, <4>1, <5>2 DEF Slots
        <5> QED BY <5>1, <5>2
      <4> QED BY <2>3, <4>2
    <3> QED BY <1>3, <3>3, <3>4
  <2> QED BY <1>1, <2>1, <2>2, <2>3 DEF Policies
<1> QED BY <1>3, <1>4, <1>5, <1>6 DEF OvertakingInv

(* A call of the arbiter with somebody to choose, under each policy.       *)
LEMMA ChoiceIsFair ==
  ASSUME OvertakingInv, HasPending # {},
         NEW choice, choice = ChooseNextInitiator(opt.policy, HasPending, last_rr_index,
                                                  weighted_cursor)
  PROVE  /\ choice.winner \in HasPending
         /\ choice.last_rr_index \in Initiators /\ choice.weighted_cursor \in 0..4
         /\ opt.policy = "round_robin" => RoundRobinFair(HasPending, last_rr_index, choice)
         /\ opt.policy = "fixed_priority" => FixedFair(HasPending, choice)
         /\ opt.policy = "weighted_priority"
              => WeightedFair(HasPending, weighted_cursor, choice)
<1>1. /\ HasPending \in SUBSET Initiators /\ opt.policy \in Policies
      /\ weighted_cursor \in 0..4 /\ last_rr_index \in Initiators
  BY PolicyOptionsAssumption DEF HasPending, OvertakingInv, HistoryOK
<1>2. CASE opt.policy = "round_robin"
  <2>1. choice = RoundRobin(HasPending, last_rr_index, weighted_cursor)
    BY <1>2 DEF ChooseNextInitiator
  <2>2. /\ RoundRobinFair(HasPending, last_rr_index, choice)
        /\ choice.weighted_cursor = weighted_cursor
    BY <1>1, <2>1, RoundRobinIsFair
  <2>3. choice.winner \in HasPending /\ choice.last_rr_index \in Initiators
    BY <1>1, <2>2 DEF RoundRobinFair
  <2> QED BY <1>1, <1>2, <2>2, <2>3
<1>3. CASE opt.policy = "fixed_priority"
  <2>1. choice = FixedPriority(HasPending, last_rr_index, weighted_cursor)
    BY <1>3 DEF ChooseNextInitiator
  <2> QED BY <1>1, <1>3, <2>1, FixedPriorityIsFair DEF FixedFair
<1>4. CASE opt.policy = "weighted_priority"
  <2>1. choice = WeightedScan(AT2WeightedOrder, HasPending, last_rr_index, weighted_cursor)
    BY <1>4 DEF ChooseNextInitiator
  <2>2. /\ WeightedFair(HasPending, weighted_cursor, choice)
        /\ choice.last_rr_index = last_rr_index
    BY <1>1, <2>1, WeightedScanIsFair
  <2> QED BY <1>1, <1>4, <2>2 DEF WeightedFair
<1> QED BY <1>1, <1>2, <1>3, <1>4 DEF Policies

(* A grant keeps it, whatever the policy.                                  *)
LEMMA ArbitrateOvertaking ==
  ASSUME OvertakingInv, AT2Arbitrate
  PROVE  OvertakingInv'
<1> DEFINE choice == ChooseNextInitiator(opt.policy, HasPending, last_rr_index,
                                         weighted_cursor)
<1>1. ArbitrateRequests(choice) /\ FabricInv
  BY DEF AT2Arbitrate, OvertakingInv
<1>2. Sound(choice)
  BY ChoiceIsFair DEF Sound
<1> HIDE DEF choice
<1>3. FabricInv' /\ UNCHANGED <<opt, next_txn>>
  BY <1>1, <1>2, ArbitrateInv DEF ArbitrateRequests, issuers
<1>4. CASE downstream_pending \/ HasPending = {}
  <2>1. UNCHANGED <<pending, last_rr_index, weighted_cursor, passed>>
    BY <1>1, <1>4 DEF ArbitrateRequests, interconnect
  <2> QED BY <1>3, <2>1, ElsewhereOvertaking
<1>5. CASE ~downstream_pending /\ HasPending # {}
  <2>1. choice.winner \in HasPending /\ choice.winner # None
    BY <1>2, <1>5 DEF Sound, HasPending, Initiators, None
  <2>2. Grant(choice)
    BY <1>1, <1>5, <2>1 DEF ArbitrateRequests
  <2> QED BY <1>3, <1>5, <2>1, <2>2, ChoiceIsFair, GrantOvertaking DEF choice
<1> QED BY <1>4, <1>5

(* The steps of AT-2's threads, one by one.                                *)
LEMMA PolicyThreads ==
  ASSUME OvertakingInv, AT2Thread
  PROVE  OvertakingInv'
<1>1. FabricInv
  BY DEF OvertakingInv
<1>2. ASSUME NEW i \in Initiators, AT2Issue(i) PROVE OvertakingInv'
  BY <1>2, IssueOvertaking
<1>3. CASE AT2Arbitrate
  BY <1>3, ArbitrateOvertaking
<1>4. ASSUME NEW i \in Initiators, SendEndResponses(i) PROVE OvertakingInv'
  <2>1. UNCHANGED <<opt, next_txn, pending, last_rr_index, weighted_cursor, passed>>
    BY <1>4 DEF SendEndResponses, interconnect
  <2> QED BY <1>1, <1>4, <2>1, SendEndResponsesInv, ElsewhereOvertaking
<1>5. CASE SendEndRequests
  <2>1. UNCHANGED <<opt, next_txn, pending, last_rr_index, weighted_cursor, passed>>
    BY <1>5 DEF SendEndRequests, issuers
  <2> QED BY <1>1, <1>5, <2>1, SendEndRequestsInv, ElsewhereOvertaking
<1>6. CASE ServiceRequests
  <2>1. UNCHANGED <<opt, next_txn, pending, last_rr_index, weighted_cursor, passed>>
    BY <1>6 DEF ServiceRequests, issuers, interconnect
  <2> QED BY <1>1, <1>6, <2>1, ServiceRequestsInv, ElsewhereOvertaking
<1>7. CASE StopWhenDone
  <2>1. UNCHANGED <<opt, next_txn, pending, last_rr_index, weighted_cursor, passed>>
    BY <1>7 DEF StopWhenDone, issuers, interconnect
  <2> QED BY <1>1, <1>7, <2>1, OtherStepsInv, ElsewhereOvertaking
<1> QED BY <1>2, <1>3, <1>4, <1>5, <1>6, <1>7 DEF AT2Thread

-----------------------------------------------------------------------------
(* The arbiter of AT-3.                                                    *)

-----------------------------------------------------------------------------
(* The weighted order is a ring of Total slots, one block per initiator.   *)
Total(wt) == wt[0] + wt[1] + wt[2]

Begin(wt, i) == IF i = 0 THEN 0 ELSE IF i = 1 THEN wt[0] ELSE wt[0] + wt[1]

(* How many slots the scan from p skips before it is in the block of n     *)
(* slots that begins at b, in a ring of T slots.                           *)
ReachBlock(T, b, n, p) ==
  IF b <= p /\ p < b + n THEN 0 ELSE IF p < b THEN b - p ELSE T - p + b

Reach(wt, i, p) == ReachBlock(Total(wt), Begin(wt, i), wt[i], p)

(* How many slots of the block (b, n) the scan from p meets before it is   *)
(* in the block (c, m).                                                    *)
MeetsBefore(T, b, n, c, m, p) ==
  IF b <= p /\ p < b + n THEN b + n - p
  ELSE IF ReachBlock(T, b, n, p) < ReachBlock(T, c, m, p) THEN n ELSE 0

(* The slots of j before one of i.                                         *)
RingSlotsBefore(wt, i, j, p) ==
  MeetsBefore(Total(wt), Begin(wt, j), wt[j], Begin(wt, i), wt[i], p)

(* The cursor after the scan from p has stopped in the block (b, n).       *)
BehindBlock(T, b, n, p) ==
  IF b <= p /\ p < b + n THEN IF p + 1 = T THEN 0 ELSE p + 1
  ELSE IF b + 1 = T THEN 0 ELSE b + 1

Behind(wt, w, p) == BehindBlock(Total(wt), Begin(wt, w), wt[w], p)

(* Two blocks (b, n) of the winner and (c, m) of one that waits: the scan  *)
(* stops at the first and has used one of its slots.                       *)
LEMMA WinnerPays ==
  ASSUME NEW T \in Nat, NEW b \in Nat, NEW n \in Nat, NEW c \in Nat, NEW m \in Nat,
         NEW p \in Nat, p < T, n > 0, m > 0, b + n <= T, c + m <= T,
         b + n <= c \/ c + m <= b,
         ReachBlock(T, b, n, p) <= ReachBlock(T, c, m, p)
  PROVE  LET q == BehindBlock(T, b, n, p)
         IN  /\ q \in Nat /\ q < T
             /\ MeetsBefore(T, b, n, c, m, q) + 1 <= MeetsBefore(T, b, n, c, m, p)
<1>1. CASE b <= p /\ p < b + n
  BY <1>1 DEF ReachBlock, MeetsBefore, BehindBlock
<1>2. CASE ~(b <= p /\ p < b + n)
  BY <1>2 DEF ReachBlock, MeetsBefore, BehindBlock
<1> QED BY <1>1, <1>2

(* The third block (d, l) is met no more often than it would have been.    *)
LEMMA OthersKeep ==
  ASSUME NEW T \in Nat, NEW b \in Nat, NEW n \in Nat, NEW c \in Nat, NEW m \in Nat,
         NEW d \in Nat, NEW l \in Nat, NEW p \in Nat, p < T, n > 0, m > 0, l > 0,
         b + n <= T, c + m <= T, d + l <= T,
         b + n <= c \/ c + m <= b, b + n <= d \/ d + l <= b, c + m <= d \/ d + l <= c,
         ReachBlock(T, b, n, p) <= ReachBlock(T, c, m, p)
  PROVE  MeetsBefore(T, d, l, c, m, BehindBlock(T, b, n, p))
           <= MeetsBefore(T, d, l, c, m, p)
<1>1. CASE b <= p /\ p < b + n
  BY <1>1 DEF ReachBlock, MeetsBefore, BehindBlock
<1>2. CASE ~(b <= p /\ p < b + n)
  BY <1>2 DEF ReachBlock, MeetsBefore, BehindBlock
<1> QED BY <1>1, <1>2

(* build_weighted_order gives each initiator a block of its own, as long   *)
(* as its weight.                                                          *)
LEMMA Blocks ==
  ASSUME NEW wt \in [Initiators -> Nat \ {0}]
  PROVE  /\ Total(wt) \in Nat \ {0}
         /\ \A i \in Initiators : /\ Begin(wt, i) \in Nat /\ wt[i] \in Nat /\ wt[i] > 0
                                  /\ Begin(wt, i) + wt[i] <= Total(wt)
         /\ \A i, j \in Initiators : i # j =>
              \/ Begin(wt, i) + wt[i] <= Begin(wt, j)
              \/ Begin(wt, j) + wt[j] <= Begin(wt, i)
<1>1. wt[0] \in Nat \ {0} /\ wt[1] \in Nat \ {0} /\ wt[2] \in Nat \ {0}
  BY DEF Initiators
<1>2. /\ Begin(wt, 0) = 0 /\ Begin(wt, 1) = wt[0] /\ Begin(wt, 2) = wt[0] + wt[1]
      /\ Total(wt) = wt[0] + wt[1] + wt[2]
  BY DEF Begin, Total
<1>3. \A i \in Initiators : i = 0 \/ i = 1 \/ i = 2
  BY DEF Initiators
<1>4. \A i \in Initiators : /\ Begin(wt, i) \in Nat /\ wt[i] \in Nat /\ wt[i] > 0
                            /\ Begin(wt, i) + wt[i] <= Total(wt)
  <2> SUFFICES ASSUME NEW i \in Initiators
               PROVE  /\ Begin(wt, i) \in Nat /\ wt[i] \in Nat /\ wt[i] > 0
                      /\ Begin(wt, i) + wt[i] <= Total(wt)
    OBVIOUS
  <2>1. CASE i = 0
    BY <1>1, <1>2, <2>1
  <2>2. CASE i = 1
    BY <1>1, <1>2, <2>2
  <2>3. CASE i = 2
    BY <1>1, <1>2, <2>3
  <2> QED BY <1>3, <2>1, <2>2, <2>3
<1>5. ASSUME NEW i \in Initiators, NEW j \in Initiators, i # j
      PROVE  \/ Begin(wt, i) + wt[i] <= Begin(wt, j)
             \/ Begin(wt, j) + wt[j] <= Begin(wt, i)
  <2>1. CASE i = 0
    BY <1>1, <1>2, <1>3, <1>5, <2>1
  <2>2. CASE i = 1
    BY <1>1, <1>2, <1>3, <1>5, <2>2
  <2>3. CASE i = 2
    BY <1>1, <1>2, <1>3, <1>5, <2>3
  <2> QED BY <1>3, <2>1, <2>2, <2>3
<1> QED BY <1>1, <1>2, <1>4, <1>5

(* What i and the others have left when w is chosen before i.              *)
LEMMA ScanPays ==
  ASSUME NEW wt \in [Initiators -> Nat \ {0}], NEW p \in 0..(Total(wt) - 1),
         NEW w \in Initiators, NEW i \in Initiators, i # w,
         Reach(wt, w, p) <= Reach(wt, i, p)
  PROVE  /\ RingSlotsBefore(wt, i, w, Behind(wt, w, p)) + 1 <= RingSlotsBefore(wt, i, w, p)
         /\ \A j \in Initiators : (j # i /\ j # w) =>
              RingSlotsBefore(wt, i, j, Behind(wt, w, p)) <= RingSlotsBefore(wt, i, j, p)
<1>1. p \in Nat /\ p < Total(wt) /\ Total(wt) \in Nat
  BY Blocks
<1>2. RingSlotsBefore(wt, i, w, Behind(wt, w, p)) + 1 <= RingSlotsBefore(wt, i, w, p)
  BY <1>1, Blocks, WinnerPays DEF RingSlotsBefore, Behind, Reach
<1>3. ASSUME NEW j \in Initiators, j # i, j # w
      PROVE  RingSlotsBefore(wt, i, j, Behind(wt, w, p)) <= RingSlotsBefore(wt, i, j, p)
  BY <1>1, <1>3, Blocks, OthersKeep DEF RingSlotsBefore, Behind, Reach
<1> QED BY <1>2, <1>3

(* Before the scan meets i it meets j at most as often as j has weights.   *)
LEMMA RingSlotsBound ==
  ASSUME NEW wt \in [Initiators -> Nat \ {0}], NEW p \in 0..(Total(wt) - 1),
         NEW i \in Initiators, NEW j \in Initiators
  PROVE  RingSlotsBefore(wt, i, j, p) \in Nat /\ RingSlotsBefore(wt, i, j, p) <= wt[j]
BY Blocks DEF RingSlotsBefore, MeetsBefore

(* The slots of i are those of its block.                                  *)
LEMMA OrderIsBlocks ==
  ASSUME NEW wt \in [Initiators -> Nat \ {0}]
  PROVE  /\ Len(WeightedOrder(wt)) = Total(wt)
         /\ \A p \in 0..(Total(wt) - 1) :
              /\ WeightedOrder(wt)[p + 1] \in Initiators
              /\ \A i \in Initiators :
                   WeightedOrder(wt)[p + 1] = i
                     <=> Begin(wt, i) <= p /\ p < Begin(wt, i) + wt[i]
<1>1. /\ wt[0] \in Nat \ {0} /\ wt[1] \in Nat \ {0} /\ wt[2] \in Nat \ {0}
      /\ Begin(wt, 0) = 0 /\ Begin(wt, 1) = wt[0] /\ Begin(wt, 2) = wt[0] + wt[1]
      /\ Total(wt) = wt[0] + wt[1] + wt[2]
  BY DEF Initiators, Begin, Total
<1>2. Len(WeightedOrder(wt)) = Total(wt)
  <2>1. DOMAIN WeightedOrder(wt) = 1..Total(wt) /\ Total(wt) \in Nat
    BY <1>1 DEF WeightedOrder
  <2>2. WeightedOrder(wt) \in Seq(Initiators)
    BY <1>1 DEF WeightedOrder, Initiators
  <2> QED BY <2>1, <2>2
<1>3. ASSUME NEW p \in 0..(Total(wt) - 1)
      PROVE  WeightedOrder(wt)[p + 1]
               = IF p < wt[0] THEN 0 ELSE IF p < wt[0] + wt[1] THEN 1 ELSE 2
  BY <1>1 DEF WeightedOrder
<1>4. ASSUME NEW p \in 0..(Total(wt) - 1), NEW i \in Initiators
      PROVE  /\ WeightedOrder(wt)[p + 1] \in Initiators
             /\ WeightedOrder(wt)[p + 1] = i
                  <=> Begin(wt, i) <= p /\ p < Begin(wt, i) + wt[i]
  <2>1. CASE i = 0
    BY <1>1, <1>3, <2>1 DEF Initiators
  <2>2. CASE i = 1
    BY <1>1, <1>3, <2>2 DEF Initiators
  <2>3. CASE i = 2
    BY <1>1, <1>3, <2>3 DEF Initiators
  <2> QED BY <2>1, <2>2, <2>3 DEF Initiators
<1> QED BY <1>2, <1>4 DEF Initiators

(* One round of the ring.                                                  *)
LEMMA RingStep ==
  ASSUME NEW T \in Nat \ {0}, NEW x \in Nat, x < 2 * T
  PROVE  x % T = IF x < T THEN x ELSE x - T
<1>1. CASE x < T
  BY <1>1
<1>2. CASE x >= T
  BY <1>2
<1> QED BY <1>1, <1>2

(* The position the scan is at after Reach slots is in the block of i, and *)
(* it cannot be in the block earlier.                                      *)
LEMMA ReachIsFirst ==
  ASSUME NEW wt \in [Initiators -> Nat \ {0}], NEW p \in 0..(Total(wt) - 1),
         NEW c \in 0..(Total(wt) - 1), NEW i \in Initiators
  PROVE  /\ Reach(wt, i, p) \in 0..(Total(wt) - 1)
         /\ WeightedOrder(wt)[((p + Reach(wt, i, p)) % Total(wt)) + 1] = i
         /\ WeightedOrder(wt)[((p + c) % Total(wt)) + 1] \in Initiators
         /\ WeightedOrder(wt)[((p + c) % Total(wt)) + 1] = i => Reach(wt, i, p) <= c
         /\ (p + Reach(wt, i, p) + 1) % Total(wt) = Behind(wt, i, p)
         /\ Behind(wt, i, p) \in 0..(Total(wt) - 1)
<1> DEFINE T == Total(wt)
           b == Begin(wt, i)
           n == wt[i]
           r == Reach(wt, i, p)
<1>1. /\ T \in Nat \ {0} /\ b \in Nat /\ n \in Nat /\ n > 0 /\ b + n <= T
      /\ p \in Nat /\ p < T /\ c \in Nat /\ c < T
  BY Blocks
<1>2. r = ReachBlock(T, b, n, p) /\ Behind(wt, i, p) = BehindBlock(T, b, n, p)
  BY DEF Reach, Behind
<1>3. \A q \in 0..(T - 1) : /\ WeightedOrder(wt)[q + 1] \in Initiators
                            /\ WeightedOrder(wt)[q + 1] = i <=> b <= q /\ q < b + n
  BY OrderIsBlocks
<1> HIDE DEF T, b, n, r
<1>4. r \in Nat /\ r < T
  BY <1>1, <1>2 DEF ReachBlock
<1>5. /\ (p + r) % T = IF p + r < T THEN p + r ELSE p + r - T
      /\ (p + c) % T = IF p + c < T THEN p + c ELSE p + c - T
      /\ (p + r + 1) % T = IF p + r + 1 < T THEN p + r + 1 ELSE p + r + 1 - T
  <2> DEFINE x == p + r
             y == p + c
             z == p + r + 1
  <2>1. x \in Nat /\ x < 2 * T /\ y \in Nat /\ y < 2 * T /\ z \in Nat /\ z < 2 * T
    BY <1>1, <1>4
  <2> HIDE DEF x, y, z
  <2>2. x % T = IF x < T THEN x ELSE x - T
    BY <1>1, <2>1, RingStep
  <2>3. y % T = IF y < T THEN y ELSE y - T
    BY <1>1, <2>1, RingStep
  <2>4. z % T = IF z < T THEN z ELSE z - T
    BY <1>1, <2>1, RingStep
  <2> QED BY <1>1, <1>4, <2>1, <2>2, <2>3, <2>4 DEF x, y, z
<1>6. /\ (p + r) % T \in 0..(T - 1) /\ b <= (p + r) % T /\ (p + r) % T < b + n
  BY <1>1, <1>2, <1>4, <1>5 DEF ReachBlock
<1>7. /\ (p + c) % T \in 0..(T - 1)
      /\ (b <= (p + c) % T /\ (p + c) % T < b + n) => r <= c
  BY <1>1, <1>2, <1>4, <1>5 DEF ReachBlock
<1>8. (p + r + 1) % T = BehindBlock(T, b, n, p) /\ BehindBlock(T, b, n, p) \in 0..(T - 1)
  BY <1>1, <1>2, <1>4, <1>5 DEF ReachBlock, BehindBlock
<1> QED BY <1>1, <1>2, <1>3, <1>4, <1>6, <1>7, <1>8 DEF T, r

(* The arbiter chooses the pending initiator that is reached first.        *)
LEMMA ChoiceIsNearest ==
  ASSUME NEW wt \in [Initiators -> Nat \ {0}], NEW P \in SUBSET Initiators, P # {},
         NEW p \in 0..(Total(wt) - 1),
         NEW choice, choice = ChooseByWeight(wt, P, p)
  PROVE  /\ choice.winner \in P
         /\ choice.weighted_cursor = Behind(wt, choice.winner, p)
         /\ \A i \in P : Reach(wt, choice.winner, p) <= Reach(wt, i, p)
<1> DEFINE order == WeightedOrder(wt)
           slot(c) == order[((p + c) % Len(order)) + 1]
           hits == {c \in 0..(Len(order) - 1) : slot(c) \in P}
           first == CHOOSE c \in hits : \A d \in hits : c <= d
           reach(i) == Reach(wt, i, p)
<1>1. Len(order) = Total(wt) /\ Total(wt) \in Nat \ {0}
  BY OrderIsBlocks, Blocks
<1>2. \A i \in Initiators : reach(i) \in 0..(Total(wt) - 1) /\ slot(reach(i)) = i
  <2> SUFFICES ASSUME NEW i \in Initiators
               PROVE  reach(i) \in 0..(Total(wt) - 1) /\ slot(reach(i)) = i
    OBVIOUS
  <2>1. slot(reach(i)) = order[((p + reach(i)) % Total(wt)) + 1]
    BY <1>1
  <2>2. 0 \in 0..(Total(wt) - 1)
    BY <1>1
  <2> QED BY <2>1, <2>2, ReachIsFirst
<1>3. \A c \in 0..(Total(wt) - 1) : slot(c) \in Initiators /\ reach(slot(c)) <= c
  BY <1>1, ReachIsFirst
<1>4. PICK w \in P : \A i \in P : reach(w) <= reach(i)
  <2> HIDE DEF reach
  <2>1. \A i \in P : i \in Initiators /\ reach(i) \in Int
    BY <1>1, <1>2
  <2>2. PICK x \in P : TRUE
    OBVIOUS
  <2> QED BY <2>1, <2>2 DEF Initiators
<1>5. w \in Initiators /\ reach(w) \in hits /\ \A c \in hits : reach(w) <= c
  <2>1. hits = {c \in 0..(Total(wt) - 1) : slot(c) \in P}
    BY <1>1
  <2> HIDE DEF hits, slot, reach
  <2>2. reach(w) \in hits /\ w \in Initiators
    BY <1>2, <2>1
  <2>3. ASSUME NEW c \in hits PROVE reach(w) <= c
    <3>1. /\ c \in 0..(Total(wt) - 1) /\ slot(c) \in P /\ reach(slot(c)) <= c
      BY <1>3, <2>1
    <3>2. reach(w) <= reach(slot(c)) /\ reach(w) \in Int /\ reach(slot(c)) \in Int
      BY <1>1, <1>2, <1>3, <1>4, <3>1, <2>2
    <3> QED BY <1>1, <3>1, <3>2
  <2> QED BY <2>2, <2>3
<1>6. first = reach(w) /\ hits # {}
  <2>1. hits \subseteq Int
    BY <1>1
  <2> HIDE DEF hits, reach
  <2>2. first \in hits /\ \A d \in hits : first <= d
    BY <1>5
  <2>3. first <= reach(w) /\ reach(w) <= first /\ first \in Int /\ reach(w) \in Int
    BY <1>5, <2>1, <2>2
  <2> HIDE DEF first
  <2> QED BY <1>5, <2>3
<1>7. WeightedScan(order, P, 0, p) = Choice(slot(first), 0, (p + first + 1) % Len(order))
  BY <1>6 DEF WeightedScan
<1>8. WeightedScan(order, P, 0, p) = Choice(w, 0, Behind(wt, w, p))
  <2>1. slot(first) = w
    BY <1>2, <1>5, <1>6
  <2>2. (p + first + 1) % Len(order) = (p + reach(w) + 1) % Total(wt)
    BY <1>1, <1>6
  <2>3. (p + reach(w) + 1) % Total(wt) = Behind(wt, w, p)
    <3>1. 0 \in 0..(Total(wt) - 1)
      BY <1>1
    <3> QED BY <1>5, <3>1, ReachIsFirst
  <2> HIDE DEF slot, first, order, reach
  <2> QED BY <1>7, <2>1, <2>2, <2>3
<1>9. choice = Choice(w, 0, Behind(wt, w, p))
  <2>1. Choice(w, 0, Behind(wt, w, p)).winner # None
    BY <1>5 DEF Choice, None, Initiators
  <2> QED BY <1>8, <2>1 DEF ChooseByWeight
<1> QED BY <1>4, <1>9 DEF Choice

-----------------------------------------------------------------------------
(* Each grant to j while i waits is paid for with one of the slots of j    *)
(* the scan would have met before the next one of i.                       *)
SlotsPaid ==
  \A i, j \in Initiators : i # j =>
    passed[i][j] + RingSlotsBefore(opt.weights, i, j, weighted_cursor) <= opt.weights[j]

ShareInv ==
  /\ FabricInv
  /\ opt \in WeightOptions /\ weighted_cursor \in 0..(Total(opt.weights) - 1)
  /\ PassedOK /\ CountsWhileWaiting
  /\ SlotsPaid

(* Every option record of AT-3 is one of the fabric.                       *)
LEMMA WeightOptionsOK ==
  ASSUME opt \in WeightOptions
  PROVE  OptOK /\ opt.weights \in [Initiators -> Nat \ {0}]
BY WeightOptionsAssumption DEF OptOK

(* The invariant bounds the grants of j while i waits by the weight of j.  *)
LEMMA ShareFollows ==
  ASSUME ShareInv
  PROVE  WeightedShare
<1> SUFFICES ASSUME NEW i \in Initiators, NEW j \in Initiators, i # j
             PROVE  passed[i][j] <= opt.weights[j]
  BY DEF WeightedShare
<1>1. opt.weights \in [Initiators -> Nat \ {0}]
  BY WeightOptionsOK DEF ShareInv
<1>2. /\ passed[i][j] \in Nat /\ opt.weights[j] \in Nat
      /\ RingSlotsBefore(opt.weights, i, j, weighted_cursor) \in Nat
      /\ passed[i][j] + RingSlotsBefore(opt.weights, i, j, weighted_cursor) <= opt.weights[j]
  BY <1>1, RingSlotsBound DEF ShareInv, PassedOK, SlotsPaid
<1> QED BY <1>2

(* Nobody has been passed at first.                                        *)
LEMMA InitShare ==
  ASSUME AT3Init
  PROVE  ShareInv
<1>1. /\ opt \in WeightOptions /\ weighted_cursor = 0
      /\ passed = [i \in Initiators |-> [j \in Initiators |-> 0]]
  BY DEF AT3Init, Init
<1>2. opt.weights \in [Initiators -> Nat \ {0}] /\ OptOK
  BY <1>1, WeightOptionsOK
<1>3. FabricInv
  BY <1>2, InitFabric DEF AT3Init
<1>4. weighted_cursor \in 0..(Total(opt.weights) - 1)
  BY <1>1, <1>2, Blocks
<1>5. PassedOK /\ CountsWhileWaiting
  BY <1>1 DEF PassedOK, CountsWhileWaiting
<1>6. SlotsPaid
  <2> SUFFICES ASSUME NEW i \in Initiators, NEW j \in Initiators, i # j
               PROVE  passed[i][j] + RingSlotsBefore(opt.weights, i, j, weighted_cursor)
                        <= opt.weights[j]
    BY DEF SlotsPaid
  <2>1. passed[i][j] = 0
    BY <1>1
  <2>2. /\ RingSlotsBefore(opt.weights, i, j, weighted_cursor) \in Nat
        /\ RingSlotsBefore(opt.weights, i, j, weighted_cursor) <= opt.weights[j]
    BY <1>2, <1>4, RingSlotsBound
  <2> QED BY <2>1, <2>2
<1> QED BY <1>1, <1>3, <1>4, <1>5, <1>6 DEF ShareInv

(* Steps that neither issue nor grant.                                     *)
LEMMA ElsewhereShare ==
  ASSUME ShareInv, FabricInv', UNCHANGED <<opt, pending, weighted_cursor, passed>>
  PROVE  ShareInv'
BY DEF ShareInv, PassedOK, CountsWhileWaiting, SlotsPaid

(* A new request keeps the invariant of the shares.                        *)
LEMMA IssueShare ==
  ASSUME ShareInv, NEW i \in Initiators, AT3Issue(i)
  PROVE  ShareInv'
<1>1. FabricInv' /\ PassedOK' /\ CountsWhileWaiting'
  BY IssueRequestsInv, IssueCounts DEF ShareInv, AT3Issue
<1>2. UNCHANGED <<opt, weighted_cursor, passed>>
  BY DEF AT3Issue, IssueRequests
<1> QED BY <1>1, <1>2 DEF ShareInv, SlotsPaid

(* A grant keeps it.                                                       *)
LEMMA ArbitrateShare ==
  ASSUME ShareInv, AT3Arbitrate
  PROVE  ShareInv'
<1> DEFINE choice == ChooseByWeight(opt.weights, HasPending, weighted_cursor)
           w == choice.winner
<1>1. /\ ArbitrateRequests(choice) /\ FabricInv
      /\ opt.weights \in [Initiators -> Nat \ {0}]
      /\ weighted_cursor \in 0..(Total(opt.weights) - 1)
      /\ HasPending \in SUBSET Initiators
  BY WeightOptionsOK DEF AT3Arbitrate, ShareInv, HasPending
<1>2. HasPending # {} =>
        /\ w \in HasPending /\ choice.weighted_cursor = Behind(opt.weights, w, weighted_cursor)
        /\ \A i \in HasPending :
             Reach(opt.weights, w, weighted_cursor) <= Reach(opt.weights, i, weighted_cursor)
  BY <1>1, ChoiceIsNearest
<1>3. Sound(choice)
  BY <1>2 DEF Sound
<1> HIDE DEF choice
<1>4. FabricInv' /\ opt' = opt
  BY <1>1, <1>3, ArbitrateInv DEF ArbitrateRequests
<1>5. CASE downstream_pending \/ HasPending = {}
  <2>1. UNCHANGED <<opt, pending, weighted_cursor, passed>>
    BY <1>1, <1>5 DEF ArbitrateRequests, interconnect
  <2> QED BY <1>4, <2>1, ElsewhereShare
<1>6. CASE ~downstream_pending /\ HasPending # {}
  <2>1. w \in HasPending /\ w # None /\ w \in Initiators
    BY <1>2, <1>6 DEF HasPending, Initiators, None
  <2>2. Grant(choice) /\ weighted_cursor' = choice.weighted_cursor
    BY <1>1, <1>6, <2>1 DEF ArbitrateRequests, Grant
  <2> DEFINE Counts(i) ==
               /\ i \in HasPending /\ i # w
               /\ passed'[i][w] = passed[i][w] + 1
               /\ \A j \in Initiators : j # w => passed'[i][j] = passed[i][j]
  <2>3. /\ PassedOK' /\ CountsWhileWaiting'
        /\ \A i \in Initiators : (\A j \in Initiators : passed'[i][j] = 0) \/ Counts(i)
    BY <2>1, <2>2, GrantCounts DEF ShareInv
  <2>4. weighted_cursor' \in 0..(Total(opt.weights) - 1)
    BY <1>1, <1>2, <1>6, <2>1, <2>2, ReachIsFirst
  <2>5. SlotsPaid'
    <3> SUFFICES ASSUME NEW i \in Initiators, NEW j \in Initiators, i # j
                 PROVE  passed'[i][j] + RingSlotsBefore(opt.weights, i, j, weighted_cursor')
                          <= opt.weights[j]
      BY <1>4 DEF SlotsPaid
    <3>1. /\ RingSlotsBefore(opt.weights, i, j, weighted_cursor) \in Nat
          /\ RingSlotsBefore(opt.weights, i, j, weighted_cursor') \in Nat
          /\ RingSlotsBefore(opt.weights, i, j, weighted_cursor') <= opt.weights[j]
          /\ opt.weights[j] \in Nat /\ passed[i][j] \in Nat
          /\ passed[i][j] + RingSlotsBefore(opt.weights, i, j, weighted_cursor)
               <= opt.weights[j]
      BY <1>1, <2>4, RingSlotsBound DEF ShareInv, PassedOK, SlotsPaid
    <3>2. CASE passed'[i][j] = 0
      BY <3>1, <3>2
    <3>3. CASE Counts(i)
      <4>1. /\ RingSlotsBefore(opt.weights, i, w, weighted_cursor') + 1
                 <= RingSlotsBefore(opt.weights, i, w, weighted_cursor)
            /\ j # w => RingSlotsBefore(opt.weights, i, j, weighted_cursor')
                          <= RingSlotsBefore(opt.weights, i, j, weighted_cursor)
        BY <1>1, <1>2, <1>6, <2>1, <2>2, <3>3, ScanPays
      <4>2. CASE j = w
        BY <3>1, <3>3, <4>1, <4>2
      <4>3. CASE j # w
        BY <3>1, <3>3, <4>1, <4>3
      <4> QED BY <4>2, <4>3
    <3> QED BY <2>3, <3>2, <3>3
  <2> QED BY <1>4, <2>3, <2>4, <2>5 DEF ShareInv
<1> QED BY <1>5, <1>6

(* The steps of AT-3's threads, one by one.                                *)
LEMMA WeightThreads ==
  ASSUME ShareInv, AT3Thread
  PROVE  ShareInv'
<1>1. FabricInv
  BY DEF ShareInv
<1>2. ASSUME NEW i \in Initiators, AT3Issue(i) PROVE ShareInv'
  BY <1>2, IssueShare
<1>3. CASE AT3Arbitrate
  BY <1>3, ArbitrateShare
<1>4. ASSUME NEW i \in Initiators, SendEndResponses(i) PROVE ShareInv'
  <2>1. UNCHANGED <<opt, pending, weighted_cursor, passed>>
    BY <1>4 DEF SendEndResponses, interconnect
  <2> QED BY <1>1, <1>4, <2>1, SendEndResponsesInv, ElsewhereShare
<1>5. CASE SendEndRequests
  <2>1. UNCHANGED <<opt, pending, weighted_cursor, passed>>
    BY <1>5 DEF SendEndRequests
  <2> QED BY <1>1, <1>5, <2>1, SendEndRequestsInv, ElsewhereShare
<1>6. CASE ServiceRequests
  <2>1. UNCHANGED <<opt, pending, weighted_cursor, passed>>
    BY <1>6 DEF ServiceRequests, interconnect
  <2> QED BY <1>1, <1>6, <2>1, ServiceRequestsInv, ElsewhereShare
<1>7. CASE StopWhenDone
  <2>1. UNCHANGED <<opt, pending, weighted_cursor, passed>>
    BY <1>7 DEF StopWhenDone, interconnect
  <2> QED BY <1>1, <1>7, <2>1, OtherStepsInv, ElsewhereShare
<1> QED
  BY <1>2, <1>3, <1>4, <1>5, <1>6, <1>7
  DEF AT3Thread, InitiatorResponses, TargetAccepts, TargetServes, TopStops

-----------------------------------------------------------------------------
(* The runs of the two programs.                                           *)

(* The options tell which program runs.                                    *)
LEMMA OptionsTellProgram ==
  /\ opt \in PolicyOptions => IsAT2
  /\ opt \in WeightOptions => ~IsAT2
<1>1. ASSUME opt \in PolicyOptions PROVE IsAT2
  BY <1>1, PolicyOptionsAssumption DEF IsAT2
<1>2. ASSUME opt \in WeightOptions PROVE ~IsAT2
  BY <1>2, WeightOptionsAssumption DEF IsAT2
<1> QED BY <1>1, <1>2

(* The invariant of the program that runs.                                 *)
ProgramInv == IF IsAT2 THEN OvertakingInv ELSE ShareInv

(* It is one of the fabric, whichever program runs.                        *)
LEMMA ProgramIsFabric == ProgramInv => FabricInv
BY DEF ProgramInv, OvertakingInv, ShareInv

(* Both programs start with it.                                            *)
LEMMA InitProgram == FabricInit => ProgramInv
<1>1. ASSUME AT2Init PROVE ProgramInv
  BY <1>1, InitOvertaking, OptionsTellProgram DEF AT2Init, ProgramInv
<1>2. ASSUME AT3Init PROVE ProgramInv
  BY <1>2, InitShare, OptionsTellProgram DEF AT3Init, ProgramInv
<1> QED BY <1>1, <1>2 DEF FabricInit

(* No step changes the options.                                            *)
LEMMA OptionsStay == [Next]_vars => opt' = opt
<1> SUFFICES ASSUME [Next]_vars PROVE opt' = opt
  OBVIOUS
<1>1. ASSUME NEW i \in Initiators, AT2Issue(i) \/ AT3Issue(i) \/ SendEndResponses(i)
      PROVE  opt' = opt
  BY <1>1 DEF AT2Issue, AT3Issue, IssueRequests, SendEndResponses
<1>2. CASE AT2Arbitrate \/ AT3Arbitrate
  BY <1>2 DEF AT2Arbitrate, AT3Arbitrate, ArbitrateRequests
<1>3. CASE SendEndRequests \/ ServiceRequests \/ StopWhenDone
  BY <1>3 DEF SendEndRequests, ServiceRequests, StopWhenDone
<1>4. CASE Scheduler \/ UNCHANGED vars
  BY <1>4 DEF Scheduler, vars
<1> QED
  BY <1>1, <1>2, <1>3, <1>4
  DEF Next, Thread, Exit, AT2Thread, AT3Thread, InitiatorResponses, TargetAccepts,
      TargetServes, TopStops

(* The threads keep it, and neither scheduler nor exit touches the fabric. *)
LEMMA NextProgram == ProgramInv /\ [Next]_vars => ProgramInv'
<1> SUFFICES ASSUME ProgramInv, [Next]_vars PROVE ProgramInv'
  OBVIOUS
<1>1. IsAT2' = IsAT2
  BY OptionsStay DEF IsAT2
<1>2. CASE IsAT2 /\ AT2Thread
  BY <1>1, <1>2, PolicyThreads DEF ProgramInv
<1>3. CASE ~IsAT2 /\ AT3Thread
  BY <1>1, <1>3, WeightThreads DEF ProgramInv
<1>4. CASE Scheduler \/ UNCHANGED vars
  <2>1. UNCHANGED <<opt, next_txn, pending, last_rr_index, weighted_cursor, passed>>
    BY <1>4 DEF Scheduler, issuers, interconnect, vars
  <2>2. FabricInv'
    BY <1>4, ProgramIsFabric, OtherStepsInv
  <2>3. CASE IsAT2
    BY <1>1, <2>1, <2>2, <2>3, ElsewhereOvertaking DEF ProgramInv
  <2>4. CASE ~IsAT2
    BY <1>1, <2>1, <2>2, <2>4, ElsewhereShare DEF ProgramInv
  <2> QED BY <2>3, <2>4
<1> QED BY <1>2, <1>3, <1>4 DEF Next, Thread, Exit

(* So it holds in every run of either program.                             *)
LEMMA SpecProgram == Spec => []ProgramInv
<1> QED BY InitProgram, NextProgram, PTL DEF Spec

(* The interconnect has one request outstanding exactly when it thinks so, *)
(* the slots of the target are accounted for, and no request waits while   *)
(* one is free, for any number of transactions, depth, latency, gaps,      *)
(* bursts and weights, and although AT-2 admits one request per release    *)
(* where AT-3 admits all it can.                                           *)
THEOREM FabricIsAccounted == Spec => [](OneDownstream /\ SlotsAccounted /\ NoIdleSlot)
<1>1. ProgramInv => OneDownstream /\ SlotsAccounted /\ NoIdleSlot
  BY ProgramIsFabric, PropertiesFollow
<1> QED BY <1>1, SpecProgram, PTL

(* No SC_REPORT_FATAL: neither "no pending initiator" from an arbiter nor  *)
(* "occupancy underflow" from the target is ever reached.                  *)
THEOREM FabricNeverAborts == Spec => [](sim # "aborted")
<1>1. ProgramInv => sim # "aborted"
  BY ProgramIsFabric DEF FabricInv
<1> QED BY <1>1, SpecProgram, PTL

(* How often a waiting initiator is overtaken is bounded: in AT-2 by the   *)
(* policy, in AT-3 by the weights, for any number of transactions and      *)
(* whatever the other queues hold.                                         *)
THEOREM OvertakingIsBounded == Spec => []OvertakingBounded
<1>1. ProgramInv => OvertakingBounded
  BY PaidBoundsOvertaking, ShareFollows DEF ProgramInv, OvertakingBounded
<1> QED BY <1>1, SpecProgram, PTL

(* No thread of AT-2 or AT-3 sleeps on its event with work for it and      *)
(* without a notification on its way, in whatever order the threads of a   *)
(* delta cycle run and for any options.                                    *)
THEOREM WakeupsAreKept == Spec => []NoLostWakeup
<1>1. FabricInit => WakeupInv
  BY PolicyOptionsOK, WeightOptionsOK, InitWakeup DEF FabricInit, AT2Init, AT3Init
<1>2. ProgramInv' /\ WakeupInv /\ [Next]_vars => WakeupInv'
  <2> SUFFICES ASSUME ProgramInv', WakeupInv, [Next]_vars PROVE WakeupInv'
    OBVIOUS
  <2>1. FabricInv'
    BY DEF ProgramInv, OvertakingInv, ShareInv
  <2>2. ASSUME NEW i \in Initiators, AT2Issue(i) \/ AT3Issue(i) PROVE WakeupInv'
    BY <2>1, <2>2, IssueWakeup DEF AT2Issue, AT3Issue
  <2>3. ASSUME NEW i \in Initiators, SendEndResponses(i) PROVE WakeupInv'
    BY <2>1, <2>3, ResponseWakeup
  <2>4. CASE AT2Arbitrate \/ AT3Arbitrate
    BY <2>1, <2>4, ArbitrateWakeup DEF AT2Arbitrate, AT3Arbitrate
  <2>5. CASE SendEndRequests
    BY <2>1, <2>5, EndRequestWakeup
  <2>6. CASE ServiceRequests
    BY <2>1, <2>6, ServiceWakeup
  <2>7. CASE StopWhenDone
    BY <2>1, <2>7, StopWakeup
  <2>8. CASE Scheduler
    BY <2>1, <2>8, SchedulerWakeup
  <2>9. CASE UNCHANGED vars
    BY <2>9, UnchangedWakeup
  <2> QED
    BY <2>2, <2>3, <2>4, <2>5, <2>6, <2>7, <2>8, <2>9
    DEF Next, Thread, Exit, AT2Thread, AT3Thread, InitiatorResponses, TargetAccepts,
        TargetServes, TopStops
<1>3. WakeupInv => NoLostWakeup
  BY WakeupFollows
<1> QED BY <1>1, <1>2, <1>3, SpecProgram, PTL DEF Spec

(* The arbiter of AT-2 chooses somebody who waits, so its grant is a step  *)
(* of the link.                                                            *)
LEMMA AT2GrantLink ==
  ProgramInv /\ ProgramInv' /\ LinkInv /\ IsAT2 /\ AT2Arbitrate => LinkInv' /\ LinkStep
<1> SUFFICES ASSUME ProgramInv, ProgramInv', LinkInv, IsAT2, AT2Arbitrate
             PROVE  LinkInv' /\ LinkStep
  OBVIOUS
<1> DEFINE choice == ChooseNextInitiator(opt.policy, HasPending, last_rr_index,
                                         weighted_cursor)
<1>1. FabricInv /\ FabricInv'
  BY DEF ProgramInv, OvertakingInv, ShareInv
<1>2. Sound(choice)
  BY ChoiceIsFair DEF Sound, ProgramInv
<1>3. ArbitrateRequests(choice)
  BY DEF AT2Arbitrate
<1> HIDE DEF choice
<1> QED BY <1>1, <1>2, <1>3, ArbitrateLink

(* So does that of AT-3.                                                   *)
LEMMA AT3GrantLink ==
  ProgramInv /\ ProgramInv' /\ LinkInv /\ ~IsAT2 /\ AT3Arbitrate => LinkInv' /\ LinkStep
<1> SUFFICES ASSUME ProgramInv, ProgramInv', LinkInv, ~IsAT2, AT3Arbitrate
             PROVE  LinkInv' /\ LinkStep
  OBVIOUS
<1> DEFINE choice == ChooseByWeight(opt.weights, HasPending, weighted_cursor)
<1>1. FabricInv /\ FabricInv'
  BY DEF ProgramInv, OvertakingInv, ShareInv
<1>2. /\ opt.weights \in [Initiators -> Nat \ {0}]
      /\ weighted_cursor \in 0..(Total(opt.weights) - 1)
      /\ HasPending \in SUBSET Initiators
  BY WeightOptionsOK DEF ProgramInv, ShareInv, HasPending
<1>3. Sound(choice)
  BY <1>2, ChoiceIsNearest DEF Sound
<1>4. ArbitrateRequests(choice)
  BY DEF AT3Arbitrate
<1> HIDE DEF choice
<1> QED BY <1>1, <1>3, <1>4, ArbitrateLink

(* The steps of the programs on the queues and phases of the transactions. *)
LEMMA NextLink ==
  ProgramInv /\ ProgramInv' /\ LinkInv /\ [Next]_vars => LinkInv' /\ LinkStep
<1> SUFFICES ASSUME ProgramInv, ProgramInv', LinkInv, [Next]_vars
             PROVE  LinkInv' /\ LinkStep
  OBVIOUS
<1>1. FabricInv /\ FabricInv'
  BY DEF ProgramInv, OvertakingInv, ShareInv
<1>2. ASSUME NEW i \in Initiators, AT2Issue(i) \/ AT3Issue(i) PROVE LinkInv' /\ LinkStep
  BY <1>1, <1>2, IssueLink DEF AT2Issue, AT3Issue
<1>3. ASSUME NEW i \in Initiators, SendEndResponses(i) PROVE LinkInv' /\ LinkStep
  BY <1>1, <1>3, ResponseLink
<1>4. IsAT2 /\ AT2Arbitrate => LinkInv' /\ LinkStep
  BY AT2GrantLink
<1>5. ~IsAT2 /\ AT3Arbitrate => LinkInv' /\ LinkStep
  BY AT3GrantLink
<1>6. CASE SendEndRequests
  BY <1>1, <1>6, EndRequestLink
<1>7. CASE ServiceRequests
  BY <1>1, <1>7, ServiceLink
<1>8. CASE StopWhenDone \/ Scheduler \/ UNCHANGED vars
  BY <1>8, OtherLink
<1>9. CASE IsAT2 /\ AT2Thread
  BY <1>2, <1>3, <1>4, <1>6, <1>7, <1>8, <1>9 DEF AT2Thread
<1>10. CASE ~IsAT2 /\ AT3Thread
  BY <1>2, <1>3, <1>5, <1>6, <1>7, <1>8, <1>10
  DEF AT3Thread, InitiatorResponses, TargetAccepts, TargetServes, TopStops
<1> QED BY <1>8, <1>9, <1>10 DEF Next, Thread, Exit

(* At first no transaction is under way, as in the link.                   *)
LEMMA InitTracks == FabricInit => LinkInv /\ Link!Init
BY PolicyOptionsOK, WeightOptionsOK, InitLink DEF FabricInit, AT2Init, AT3Init

(* Every transaction that was issued and not completed is in one queue or  *)
(* thread, at most one is downstream, and none overtakes an earlier one of *)
(* its initiator, under every policy and for any weights, bursts, gaps,    *)
(* number of transactions, depth and latency.                              *)
THEOREM TransactionsAreTracked == Spec => []TransactionsTracked
<1>1. ProgramInv /\ LinkInv => TransactionsTracked
  BY ProgramIsFabric, TrackedFollows
<1> QED BY <1>1, InitTracks, NextLink, SpecProgram, PTL DEF Spec

(* The interconnect and the target of AT-2 and of AT-3 implement the       *)
(* abstract link: every grant, END_REQ, BEGIN_RESP and END_RESP is a step  *)
(* it allows, and every other step leaves it alone.                        *)
THEOREM FabricsImplementLink == Spec => ImplementsLink
<1>1. LinkStep => [Link!Next]_(Link!vars)
  BY LinkStepIsNext
<1> QED
  BY <1>1, InitTracks, NextLink, SpecProgram, PTL DEF Spec, ImplementsLink, Link!Spec
=============================================================================
