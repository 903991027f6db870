---------------------- MODULE HeterogeneousFabricProofs ----------------------
(***************************************************************************)
(* Proofs about AT-6, for every set of cases: run_fabric_model serves each *)
(* initiator's records in order and none over another, keeps the NPU a     *)
(* token gap apart, idles only when nothing may be served, and keeps the   *)
(* promise of its policy.                                                  *)
(*                                                                         *)
(* The schedule comes first: that issue times rise with the sequence       *)
(* number, and that the ranks of the records are the places of a sequence, *)
(* so that make_initial_records is sorted and complete.  Then the          *)
(* invariant of the loop, and for round robin the invariant that who has   *)
(* passed a waiting record has passed it once and comes after it in turn.  *)
(***************************************************************************)
EXTENDS HeterogeneousFabric, FiniteSetTheorems, SequenceTheorems, WellFoundedInduction, TLAPS

(* What the assumption says of a case.                                     *)
LEMMA CaseFacts ==
  ASSUME NEW c \in Cases, NEW i \in Initiators
  PROVE  /\ c.transactions[i + 1] \in Nat
         /\ c.issue_gap[i + 1] \in Nat /\ c.issue_gap[i + 1] >= 3
         /\ c.burst_every[i + 1] \in Nat \ {0}
         /\ c.burst_pause[i + 1] \in Nat
         /\ c.size_bytes[i + 1] \in Nat /\ c.size_bytes[i + 1] >= 64
         /\ c.service_factor[i + 1] \in Nat \ {0}
         /\ c.base_service \in Nat \ {0}
         /\ c.npu_token_gap \in Nat
         /\ c.policy = "round_robin" => c.npu_token_gap = 0
<1>1. i + 1 \in 1..4
  BY DEF Initiators
<1>2. c \in [name : STRING,
        policy : {"round_robin", "priority_latency", "latency_priority_with_npu_cap",
                  "latency_priority_no_cap"},
        transactions : [1..4 -> Nat],
        issue_gap : [1..4 -> Nat \ 0..2],
        burst_every : [1..4 -> Nat \ {0}],
        burst_pause : [1..4 -> Nat],
        size_bytes : [1..4 -> Nat \ 0..63],
        service_factor : [1..4 -> Nat \ {0}],
        base_service : Nat \ {0},
        npu_token_gap : Nat]
  BY CasesAssumption
<1>3. /\ c.transactions \in [1..4 -> Nat] /\ c.issue_gap \in [1..4 -> Nat \ 0..2]
      /\ c.burst_every \in [1..4 -> Nat \ {0}] /\ c.burst_pause \in [1..4 -> Nat]
      /\ c.size_bytes \in [1..4 -> Nat \ 0..63] /\ c.service_factor \in [1..4 -> Nat \ {0}]
      /\ c.base_service \in Nat \ {0} /\ c.npu_token_gap \in Nat
  BY <1>2
<1>4. c.issue_gap[i + 1] \in Nat \ 0..2 /\ c.size_bytes[i + 1] \in Nat \ 0..63
  BY <1>1, <1>3
<1>5. c.issue_gap[i + 1] >= 3 /\ c.size_bytes[i + 1] >= 64
  BY <1>4
<1> QED BY <1>1, <1>3, <1>4, <1>5, CasesAssumption

(* Whole quotients do not fall as the dividend grows.                      *)
LEMMA QuotientRises ==
  ASSUME NEW d \in Nat \ {0}, NEW n \in Nat, NEW m \in Nat, n <= m
  PROVE  n \div d \in Nat /\ m \div d \in Nat /\ n \div d <= m \div d
<1>1. n \div d \in Nat /\ m \div d \in Nat
  OBVIOUS
<1>2. d * (n \div d) <= n
  OBVIOUS
<1>3. m < d * (m \div d) + d
  OBVIOUS
<1> DEFINE a == n \div d
           b == m \div d
<1>4. a \in Nat /\ b \in Nat /\ d * a <= n /\ m < d * b + d
  BY <1>1, <1>2, <1>3
<1> HIDE DEF a, b
<1>5. ASSUME a > b PROVE FALSE
  <2>1. a - (b + 1) \in Nat
    BY <1>4, <1>5
  <2>2. d * a = d * b + d + d * (a - (b + 1)) /\ d * (a - (b + 1)) \in Nat
        /\ d * a \in Nat /\ d * b \in Nat
    BY <1>4, <2>1
  <2> QED BY <1>4, <2>2
<1> QED BY <1>1, <1>4, <1>5 DEF a, b

(* The records of an initiator are issued in the order of their numbers:   *)
(* the gap between two of them is longer than the jitter.                  *)
LEMMA IssueTimesRise ==
  ASSUME NEW c \in Cases, NEW i \in Initiators, NEW n \in Nat, NEW m \in Nat, n < m
  PROVE  issue_time_for(c, i, n) < issue_time_for(c, i, m)
<1> DEFINE gap == c.issue_gap[i + 1]
           every == c.burst_every[i + 1]
           pause == c.burst_pause[i + 1]
           pauses(k) == IF every > 1 THEN k \div every ELSE 0
           jitter(k) == (k * 17 + i * 11) % 7
<1>1. gap \in Nat /\ gap >= 3 /\ every \in Nat \ {0} /\ pause \in Nat /\ i \in Nat
  BY CaseFacts DEF Initiators
<1>2. pauses(n) \in Nat /\ pauses(m) \in Nat /\ pauses(n) <= pauses(m)
  BY <1>1, QuotientRises
<1>3. jitter(n) \in 0..6 /\ jitter(m) \in 0..6
  BY <1>1
<1>4. \A k : issue_time_for(c, i, k) =
        (k * gap + pauses(k) * pause) * 10000 + i * 17500 + jitter(k) * 3500
  BY DEF issue_time_for
<1> HIDE DEF gap, every, pause, pauses, jitter
<1>5. pauses(m) * pause = pauses(n) * pause + (pauses(m) - pauses(n)) * pause
      /\ (pauses(m) - pauses(n)) * pause \in Nat /\ pauses(n) * pause \in Nat
  <2>1. pauses(m) - pauses(n) \in Nat
    BY <1>2
  <2> DEFINE a == pauses(m)
             b == pauses(n)
  <2>2. a \in Nat /\ b \in Nat /\ a - b \in Nat
    BY <1>2, <2>1
  <2> HIDE DEF a, b
  <2>3. a * pause = b * pause + (a - b) * pause /\ (a - b) * pause \in Nat /\ b * pause \in Nat
    BY <1>1, <2>2
  <2> QED BY <2>3 DEF a, b
<1>6. m * gap = n * gap + gap + (m - n - 1) * gap /\ (m - n - 1) * gap \in Nat /\ n * gap \in Nat
  <2>1. m - n - 1 \in Nat
    OBVIOUS
  <2> QED BY <1>1, <2>1
<1> DEFINE a == n * gap
           b == m * gap
           x == pauses(n) * pause
           y == pauses(m) * pause
<1>7. a \in Nat /\ b \in Nat /\ b >= a + 3 /\ x \in Nat /\ y \in Nat /\ x <= y
  BY <1>1, <1>5, <1>6
<1> HIDE DEF a, b, x, y
<1>8. (a + x) * 10000 + i * 17500 + jitter(n) * 3500 < (b + y) * 10000 + i * 17500 + jitter(m) * 3500
  BY <1>1, <1>3, <1>7
<1> QED BY <1>4, <1>8 DEF a, b, x, y

(* Issue times are whole and not negative.                                 *)
LEMMA IssueTimeType ==
  ASSUME NEW c \in Cases, NEW i \in Initiators, NEW n \in Nat
  PROVE  issue_time_for(c, i, n) \in Nat
<1> DEFINE gap == c.issue_gap[i + 1]
           every == c.burst_every[i + 1]
           pause == c.burst_pause[i + 1]
           pauses == IF every > 1 THEN n \div every ELSE 0
           jitter == (n * 17 + i * 11) % 7
<1>1. gap \in Nat /\ every \in Nat \ {0} /\ pause \in Nat /\ i \in Nat
  BY CaseFacts DEF Initiators
<1>2. pauses \in Nat
  BY <1>1, QuotientRises
<1>3. jitter \in 0..6
  BY <1>1
<1>4. issue_time_for(c, i, n) = (n * gap + pauses * pause) * 10000 + i * 17500 + jitter * 3500
  BY DEF issue_time_for
<1> HIDE DEF gap, every, pause, pauses, jitter
<1>5. n * gap \in Nat /\ pauses * pause \in Nat
  BY <1>1, <1>2
<1> QED BY <1>1, <1>3, <1>4, <1>5

-----------------------------------------------------------------------------
(***************************************************************************)
(* The schedule.                                                           *)
(***************************************************************************)
RecordType == [initiator : Initiators, sequence : Nat, issue_time : Nat]

(* The records of one initiator.                                           *)
records_of(c, i) ==
  {[initiator |-> i, sequence |-> n, issue_time |-> issue_time_for(c, i, n)] :
     n \in 0..(c.transactions[i + 1] - 1)}

(* They are finitely many.                                                 *)
LEMMA RecordsOf ==
  ASSUME NEW c \in Cases, NEW i \in Initiators
  PROVE  /\ IsFiniteSet(records_of(c, i))
         /\ records_of(c, i) \subseteq RecordType
<1> DEFINE ns == 0..(c.transactions[i + 1] - 1)
           f == [n \in ns |-> [initiator |-> i, sequence |-> n,
                               issue_time |-> issue_time_for(c, i, n)]]
<1>1. c.transactions[i + 1] \in Nat
  BY CaseFacts
<1>2. IsFiniteSet(ns) /\ \A n \in ns : n \in Nat
  <2> DEFINE last == c.transactions[i + 1] - 1
  <2>1. 0 \in Int /\ last \in Int
    BY <1>1
  <2> HIDE DEF last
  <2>2. IsFiniteSet(0..last)
    BY <2>1, FS_Interval
  <2>3. \A n \in 0..last : n \in Nat
    BY <2>1
  <2> QED BY <2>2, <2>3 DEF last
<1>3. f \in Surjection(ns, records_of(c, i))
  BY DEF Surjection, records_of
<1>4. \A n \in ns : issue_time_for(c, i, n) \in Nat
  BY <1>2, IssueTimeType
<1>5. records_of(c, i) \subseteq RecordType
  BY <1>2, <1>4 DEF records_of, RecordType
<1> QED BY <1>2, <1>3, <1>5, FS_Surjection

(* All records: finitely many, each issued when its number says, and no    *)
(* number left out.                                                        *)
LEMMA AllRecords ==
  ASSUME NEW c \in Cases
  PROVE  /\ IsFiniteSet(all_records(c))
         /\ all_records(c) \subseteq RecordType
         /\ \A r \in all_records(c) : r.issue_time = issue_time_for(c, r.initiator, r.sequence)
         /\ \A r \in all_records(c), n \in Nat : n < r.sequence =>
              \E q \in all_records(c) : q.initiator = r.initiator /\ q.sequence = n
<1> DEFINE parts == {records_of(c, i) : i \in Initiators}
           g == [i \in Initiators |-> records_of(c, i)]
<1>1. IsFiniteSet(parts)
  <2>1. g \in Surjection(Initiators, parts)
    BY DEF Surjection
  <2>2. IsFiniteSet(Initiators)
    <3>1. 0 \in Int /\ 3 \in Int
      OBVIOUS
    <3> QED BY <3>1, FS_Interval DEF Initiators
  <2> QED BY <2>1, <2>2, FS_Surjection
<1>2. all_records(c) = UNION parts
  BY DEF all_records, records_of
<1>3. IsFiniteSet(all_records(c))
  <2>1. \A T \in parts : IsFiniteSet(T)
    BY RecordsOf
  <2> HIDE DEF parts
  <2> QED BY <1>1, <1>2, <2>1, FS_UNION
<1>4. all_records(c) \subseteq RecordType
  BY <1>2, RecordsOf
<1>5. ASSUME NEW r \in all_records(c)
      PROVE  /\ r.issue_time = issue_time_for(c, r.initiator, r.sequence)
             /\ \A n \in Nat : n < r.sequence =>
                  \E q \in all_records(c) : q.initiator = r.initiator /\ q.sequence = n
  <2>1. PICK i \in Initiators : r \in records_of(c, i)
    BY <1>2
  <2>2. PICK m \in 0..(c.transactions[i + 1] - 1) :
          r = [initiator |-> i, sequence |-> m, issue_time |-> issue_time_for(c, i, m)]
    BY <2>1 DEF records_of
  <2>3. r.initiator = i /\ r.sequence = m /\ r.issue_time = issue_time_for(c, i, m)
    BY <2>2
  <2>4. ASSUME NEW n \in Nat, n < r.sequence
        PROVE  \E q \in all_records(c) : q.initiator = r.initiator /\ q.sequence = n
    <3> DEFINE q == [initiator |-> i, sequence |-> n, issue_time |-> issue_time_for(c, i, n)]
    <3>1. c.transactions[i + 1] \in Nat
      BY CaseFacts
    <3>2. n \in 0..(c.transactions[i + 1] - 1)
      BY <2>2, <2>3, <2>4, <3>1
    <3>3. q \in records_of(c, i)
      BY <3>2 DEF records_of
    <3>4. q \in all_records(c) /\ q.initiator = r.initiator /\ q.sequence = n
      BY <1>2, <2>3, <3>3
    <3> QED BY <3>4
  <2> QED BY <2>3, <2>4
<1> QED BY <1>3, <1>4, <1>5

(* No two records are equal in the order of the sort.                      *)
LEMMA BeforeIsOrder ==
  ASSUME NEW c \in Cases
  PROVE  /\ \A a \in all_records(c) : ~Before(a, a)
         /\ \A a, b \in all_records(c) : a = b \/ Before(a, b) \/ Before(b, a)
         /\ \A a, b, d \in all_records(c) : Before(a, b) /\ Before(b, d) => Before(a, d)
         /\ \A a, b \in all_records(c) :
              a.initiator = b.initiator /\ Before(a, b) => a.sequence < b.sequence
<1>1. ASSUME NEW a \in all_records(c)
      PROVE  /\ a.initiator \in Initiators /\ a.initiator \in Int
             /\ a.sequence \in Nat /\ a.issue_time \in Nat
             /\ a = [initiator |-> a.initiator, sequence |-> a.sequence,
                     issue_time |-> a.issue_time]
             /\ a.issue_time = issue_time_for(c, a.initiator, a.sequence)
  BY AllRecords DEF RecordType, Initiators
<1>2. ASSUME NEW a \in all_records(c), NEW b \in all_records(c), a.initiator = b.initiator
      PROVE  /\ a.sequence < b.sequence => a.issue_time < b.issue_time
             /\ b.sequence < a.sequence => b.issue_time < a.issue_time
             /\ a.sequence = b.sequence => a = b
  <2>1. a.sequence < b.sequence => a.issue_time < b.issue_time
    BY <1>1, <1>2, IssueTimesRise
  <2>2. b.sequence < a.sequence => b.issue_time < a.issue_time
    BY <1>1, <1>2, IssueTimesRise
  <2>3. a.sequence = b.sequence => a = b
    BY <1>1, <1>2
  <2> QED BY <2>1, <2>2, <2>3
<1>3. ASSUME NEW a \in all_records(c), NEW b \in all_records(c)
      PROVE  /\ a = b \/ Before(a, b) \/ Before(b, a)
             /\ a.initiator = b.initiator /\ Before(a, b) => a.sequence < b.sequence
  <2>1. /\ a.sequence \in Nat /\ b.sequence \in Nat /\ a.issue_time \in Nat /\ b.issue_time \in Nat
        /\ a.initiator \in Int /\ b.initiator \in Int
    BY <1>1
  <2>2. CASE a.initiator = b.initiator
    BY <1>2, <2>1, <2>2 DEF Before
  <2>3. CASE a.initiator # b.initiator
    BY <2>1, <2>3 DEF Before
  <2> QED BY <2>2, <2>3
<1>4. ASSUME NEW a \in all_records(c), NEW b \in all_records(c), NEW d \in all_records(c),
             Before(a, b), Before(b, d)
      PROVE  Before(a, d)
  <2>1. /\ a.issue_time \in Nat /\ b.issue_time \in Nat /\ d.issue_time \in Nat
        /\ a.initiator \in Int /\ b.initiator \in Int /\ d.initiator \in Int
    BY <1>1
  <2> QED BY <1>4, <2>1 DEF Before
<1>5. ASSUME NEW a \in all_records(c) PROVE ~Before(a, a)
  <2>1. a.issue_time \in Nat /\ a.initiator \in Int
    BY <1>1
  <2> QED BY <2>1 DEF Before
<1> QED BY <1>3, <1>4, <1>5

(* The number of records before r.                                         *)
rank(c, r) == Cardinality({q \in all_records(c) : Before(q, r)})

(* Ranks rise in the order of the sort.                                    *)
LEMMA RanksRise ==
  ASSUME NEW c \in Cases, NEW a \in all_records(c), NEW b \in all_records(c)
  PROVE  /\ rank(c, a) \in 0..(Cardinality(all_records(c)) - 1)
         /\ Before(a, b) <=> rank(c, a) < rank(c, b)
<1> DEFINE R == all_records(c)
           Below(r) == {q \in R : Before(q, r)}
<1>1. IsFiniteSet(R) /\ Cardinality(R) \in Nat
  BY AllRecords, FS_CardinalityType
<1>2. ASSUME NEW r \in R
      PROVE  /\ IsFiniteSet(Below(r)) /\ Cardinality(Below(r)) \in Nat
             /\ r \notin Below(r)
  BY <1>1, FS_Subset, FS_CardinalityType, BeforeIsOrder
<1>3. ASSUME NEW x \in R, NEW y \in R, Before(x, y)
      PROVE  Cardinality(Below(x)) < Cardinality(Below(y))
  <2>1. Below(x) \cup {x} \subseteq Below(y)
    BY <1>3, BeforeIsOrder
  <2>2. Cardinality(Below(x) \cup {x}) = Cardinality(Below(x)) + 1
    BY <1>2, FS_AddElement
  <2>3. Cardinality(Below(x) \cup {x}) <= Cardinality(Below(y))
    BY <1>2, <2>1, FS_Subset
  <2> QED BY <1>2, <2>2, <2>3
<1>4. rank(c, a) \in 0..(Cardinality(R) - 1)
  <2>1. Below(a) \cup {a} \subseteq R
    OBVIOUS
  <2>2. Cardinality(Below(a) \cup {a}) = Cardinality(Below(a)) + 1
    BY <1>2, FS_AddElement
  <2>3. Cardinality(Below(a) \cup {a}) <= Cardinality(R)
    BY <1>1, <2>1, FS_Subset
  <2> QED BY <1>1, <1>2, <2>2, <2>3 DEF rank
<1>5. ASSUME rank(c, a) < rank(c, b) PROVE Before(a, b)
  <2>1. a # b
    BY <1>2, <1>5 DEF rank
  <2>2. CASE Before(b, a)
    BY <1>2, <1>3, <1>5, <2>2 DEF rank
  <2> QED BY <2>1, <2>2, BeforeIsOrder
<1> QED BY <1>3, <1>4, <1>5 DEF rank

(* So the ranks of the records are the places of the schedule.             *)
LEMMA Sorted ==
  ASSUME NEW c \in Cases, NEW s, s = make_initial_records(c)
  PROVE  /\ s \in Seq(all_records(c))
         /\ \A j, k \in DOMAIN s : j < k => Before(s[j], s[k])
         /\ \A r \in all_records(c) : \E k \in DOMAIN s : s[k] = r
<1> DEFINE R == all_records(c)
           n == Cardinality(R)
           f == [r \in R |-> rank(c, r)]
           ranked == {[rank |-> rank(c, r), record |-> r] : r \in R}
<1>1. IsFiniteSet(R) /\ n \in Nat
  BY AllRecords, FS_CardinalityType
<1>2. f \in Surjection(R, 0..(n - 1))
  <2>1. f \in [R -> 0..(n - 1)]
    BY RanksRise
  <2>2. \A a, b \in R : f[a] = f[b] => a = b
    <3>1. ASSUME NEW a \in R, NEW b \in R, f[a] = f[b] PROVE a = b
      <4>1. rank(c, a) = rank(c, b) /\ rank(c, a) \in Int
        BY <3>1, RanksRise
      <4>2. ~Before(a, b) /\ ~Before(b, a)
        BY <4>1, RanksRise
      <4> QED BY <4>2, BeforeIsOrder
    <3> QED BY <3>1
  <2>3. f \in Injection(R, 0..(n - 1))
    BY <2>1, <2>2 DEF Injection, IsInjective
  <2>4. IsFiniteSet(0..(n - 1)) /\ Cardinality(0..(n - 1)) = n
    BY <1>1, FS_Interval
  <2> HIDE DEF f, n
  <2> QED BY <2>3, <2>4, FS_Injection DEF n
<1>3. s = [k \in 1..n |-> (CHOOSE x \in ranked : x.rank = k - 1).record]
  BY DEF make_initial_records, rank
<1>4. ASSUME NEW k \in 1..n
      PROVE  s[k] \in R /\ rank(c, s[k]) = k - 1
  <2>1. k - 1 \in 0..(n - 1)
    BY <1>1
  <2>2. PICK r \in R : f[r] = k - 1
    BY <1>2, <2>1 DEF Surjection
  <2> DEFINE x == [rank |-> rank(c, r), record |-> r]
             y == CHOOSE z \in ranked : z.rank = k - 1
  <2>3. x \in ranked /\ x.rank = k - 1
    BY <2>2
  <2>4. y \in ranked /\ y.rank = k - 1
    BY <2>3
  <2>5. PICK q \in R : y = [rank |-> rank(c, q), record |-> q]
    BY <2>4
  <2>6. s[k] = y.record
    BY <1>3
  <2> HIDE DEF y
  <2>7. y.record = q /\ y.rank = rank(c, q)
    BY <2>5
  <2> QED BY <2>4, <2>6, <2>7
<1>5. s \in Seq(R) /\ DOMAIN s = 1..n
  <2>1. DOMAIN s = 1..n /\ s = [k \in 1..n |-> s[k]]
    BY <1>3
  <2> HIDE DEF n
  <2> QED BY <1>1, <1>4, <2>1
<1>6. ASSUME NEW j \in DOMAIN s, NEW k \in DOMAIN s, j < k
      PROVE  Before(s[j], s[k])
  <2>1. j \in 1..n /\ k \in 1..n
    BY <1>5
  <2>2. /\ s[j] \in R /\ rank(c, s[j]) = j - 1
        /\ s[k] \in R /\ rank(c, s[k]) = k - 1
    BY <1>4, <2>1
  <2>3. j - 1 < k - 1
    BY <1>6, <2>1
  <2> QED BY <2>2, <2>3, RanksRise
<1>7. ASSUME NEW r \in R PROVE \E k \in DOMAIN s : s[k] = r
  <2>1. rank(c, r) \in 0..(n - 1)
    BY RanksRise
  <2>2. rank(c, r) + 1 \in 1..n /\ (rank(c, r) + 1) - 1 = rank(c, r)
    BY <1>1, <2>1
  <2> DEFINE k == rank(c, r) + 1
  <2>3. s[k] \in R /\ rank(c, s[k]) = rank(c, r)
    BY <1>4, <2>2
  <2>4. ~Before(s[k], r) /\ ~Before(r, s[k])
    <3>1. rank(c, r) \in Int
      BY <2>1
    <3> QED BY <2>3, <3>1, RanksRise
  <2>5. s[k] = r
    BY <2>3, <2>4, BeforeIsOrder
  <2> QED BY <1>5, <2>2, <2>5
<1> QED BY <1>5, <1>6, <1>7

-----------------------------------------------------------------------------
(***************************************************************************)
(* The invariant.                                                          *)
(***************************************************************************)
Started(r) == start[r] # NotStarted

(* The initiator of a record.                                              *)
Of(r) == schedule[r].initiator

(* The schedule rises in time and, initiator by initiator, in the sequence *)
(* numbers, of which none is left out.                                     *)
ScheduleOK ==
  /\ schedule \in Seq(RecordType)
  /\ \A q, r \in Records : q < r =>
       /\ schedule[q].issue_time <= schedule[r].issue_time
       /\ Of(q) = Of(r) => schedule[q].sequence < schedule[r].sequence
  /\ \A r \in Records, n \in Nat : n < schedule[r].sequence =>
       \E q \in Records : Of(q) = Of(r) /\ schedule[q].sequence = n

(* The types of the state.                                                 *)
TypeInv ==
  /\ spec \in Cases
  /\ ScheduleOK
  /\ start \in [Records -> Nat \cup {NotStarted}]
  /\ pending \in Seq(Records)
  /\ next_record \in 1..(Len(schedule) + 1)
  /\ time \in Nat
  /\ last_rr_initiator \in Initiators
  /\ next_npu_token \in Nat

(* What is enqueued and not served is pending, once, in the order of the   *)
(* schedule; of an initiator, the records are served in that order.        *)
QueueOK ==
  /\ \A j, k \in DOMAIN pending : j < k => pending[j] < pending[k]
  /\ \A k \in DOMAIN pending : ~Started(pending[k])
  /\ \A r \in Records :
       /\ r < next_record <=> Started(r) \/ \E k \in DOMAIN pending : pending[k] = r
       /\ r < next_record => schedule[r].issue_time <= time
       /\ Started(r) => \A q \in Records : q < r /\ Of(q) = Of(r) => Started(q)

(* No service overlaps another, and the NPU's token is due a gap after the *)
(* last of its services.                                                   *)
ServiceOK ==
  \A r \in Records : Started(r) =>
    /\ start[r] + service_delay_for(schedule[r]) <= time
    /\ Of(r) = NPU /\ spec.npu_token_gap > 0 => start[r] + spec.npu_token_gap <= next_npu_token

(* The invariant of run_fabric_model's loop.                               *)
Inv == TypeInv /\ QueueOK /\ ServiceOK

(* A set of naturals that is not empty has a least element.                *)
LEMMA LeastElement ==
  ASSUME NEW S \in SUBSET Nat, S # {}
  PROVE  \E n \in S : \A m \in S : n <= m
<1> DEFINE Less == OpToRel(<, Nat)
<1>1. \E n \in S : \A m \in S : ~(<<m, n>> \in Less)
  BY NatLessThanWellFounded, WFMin
<1>2. \A n, m \in Nat : <<m, n>> \in Less <=> m < n
  BY DEF OpToRel
<1> HIDE DEF Less
<1>3. PICK n \in S : \A m \in S : ~(<<m, n>> \in Less)
  BY <1>1
<1>4. \A m \in S : m \in Nat /\ n \in Nat /\ ~(m < n)
  BY <1>2, <1>3
<1>5. \A m \in S : n <= m
  BY <1>4
<1> QED BY <1>5

(* The sequence without its element at position p.                         *)
LEMMA RemoveAtFacts ==
  ASSUME NEW S, NEW s \in Seq(S), NEW p \in 1..Len(s)
  PROVE  /\ RemoveAt(s, p) \in Seq(S)
         /\ Len(RemoveAt(s, p)) = Len(s) - 1
         /\ \A k \in 1..(Len(s) - 1) :
              RemoveAt(s, p)[k] = IF k < p THEN s[k] ELSE s[k + 1]
<1> DEFINE a == SubSeq(s, 1, p - 1)
           b == SubSeq(s, p + 1, Len(s))
<1>1. Len(s) \in Nat /\ \A k \in 1..Len(s) : s[k] \in S
  OBVIOUS
<1>2. /\ a \in Seq(S) /\ Len(a) = p - 1
      /\ \A k \in 1..(p - 1) : a[k] = s[k]
  <2>1. 1 \in Int /\ p - 1 \in Int /\ \A k \in 1..(p - 1) : s[k] \in S
    BY <1>1
  <2>2. /\ a \in Seq(S) /\ Len(a) = IF 1 <= p - 1 THEN p - 1 - 1 + 1 ELSE 0
        /\ \A k \in 1..(p - 1 - 1 + 1) : a[k] = s[1 + k - 1]
    BY <2>1, SubSeqProperties
  <2>3. p - 1 - 1 + 1 = p - 1 /\ p >= 1 /\ \A k \in 1..(p - 1) : 1 + k - 1 = k
    BY <1>1
  <2> HIDE DEF a
  <2> QED BY <2>2, <2>3
<1>3. /\ b \in Seq(S) /\ Len(b) = Len(s) - p
      /\ \A k \in 1..(Len(s) - p) : b[k] = s[p + k]
  <2>1. p + 1 \in Int /\ Len(s) \in Int /\ \A k \in (p + 1)..Len(s) : s[k] \in S
    BY <1>1
  <2>2. /\ b \in Seq(S) /\ Len(b) = IF p + 1 <= Len(s) THEN Len(s) - (p + 1) + 1 ELSE 0
        /\ \A k \in 1..(Len(s) - (p + 1) + 1) : b[k] = s[(p + 1) + k - 1]
    BY <2>1, SubSeqProperties
  <2>3. Len(s) - (p + 1) + 1 = Len(s) - p /\ p <= Len(s)
        /\ \A k \in 1..(Len(s) - p) : (p + 1) + k - 1 = p + k
    BY <1>1
  <2> HIDE DEF b
  <2>4. p \in Int /\ Len(s) \in Nat /\ p <= Len(s)
    BY <1>1
  <2>5. Len(b) = Len(s) - p
    <3> DEFINE n == Len(s)
    <3>1. n \in Nat /\ p \in Int /\ p <= n /\ Len(b) = IF p + 1 <= n THEN n - (p + 1) + 1 ELSE 0
      BY <2>2, <2>4
    <3> HIDE DEF n
    <3>2. Len(b) = n - p
      BY <3>1
    <3> QED BY <3>2 DEF n
  <2>6. ASSUME NEW k \in 1..(Len(s) - p) PROVE b[k] = s[p + k]
    <3>1. k \in 1..(Len(s) - (p + 1) + 1) /\ (p + 1) + k - 1 = p + k
      BY <2>3
    <3>2. b[k] = s[(p + 1) + k - 1]
      BY <2>2, <3>1
    <3> QED BY <3>1, <3>2
  <2> QED BY <2>2, <2>5, <2>6
<1>4. RemoveAt(s, p) = a \o b
  BY DEF RemoveAt
<1> HIDE DEF a, b
<1>5. /\ a \o b \in Seq(S) /\ Len(a \o b) = Len(a) + Len(b)
      /\ \A k \in 1..(Len(a) + Len(b)) :
           (a \o b)[k] = IF k <= Len(a) THEN a[k] ELSE b[k - Len(a)]
  <2>1. a \in Seq(S) /\ b \in Seq(S)
    BY <1>2, <1>3
  <2> QED BY <2>1, ConcatProperties
<1>6. Len(a) + Len(b) = Len(s) - 1
  BY <1>1, <1>2, <1>3
<1>7. ASSUME NEW k \in 1..(Len(s) - 1)
      PROVE  (a \o b)[k] = IF k < p THEN s[k] ELSE s[k + 1]
  <2>1. CASE k < p
    <3>1. k \in 1..(p - 1) /\ k <= Len(a) /\ k \in 1..(Len(a) + Len(b))
      BY <1>1, <1>2, <1>6, <2>1
    <3> QED BY <1>2, <1>5, <2>1, <3>1
  <2>2. CASE ~(k < p)
    <3>1. k - (p - 1) \in 1..(Len(s) - p) /\ p + (k - (p - 1)) = k + 1
          /\ ~(k <= Len(a)) /\ k \in 1..(Len(a) + Len(b))
      BY <1>1, <1>2, <1>6, <2>2
    <3>2. (a \o b)[k] = b[k - (p - 1)]
      BY <1>2, <1>5, <3>1
    <3> QED BY <1>3, <2>2, <3>1, <3>2
  <2> QED BY <2>1, <2>2
<1> QED BY <1>4, <1>5, <1>6, <1>7

(* A service takes time.                                                   *)
LEMMA ServiceTakesTime ==
  ASSUME spec \in Cases, NEW r \in RecordType
  PROVE  service_delay_for(r) \in Nat \ {0}
<1> DEFINE i == r.initiator
           base == spec.base_service
           factor == spec.service_factor[i + 1]
           size == spec.size_bytes[i + 1]
           stretch == ((size - 64) * 37500) \div 64
           jitter == (r.sequence + i) % 5
           delay == base * factor * 100 + stretch + jitter * 4500
<1>1. /\ i \in Initiators /\ i \in Nat /\ r.sequence \in Nat
  BY DEF RecordType, Initiators
<1>2. base \in Nat \ {0} /\ factor \in Nat \ {0} /\ size \in Nat /\ size >= 64
  BY <1>1, CaseFacts
<1>3. stretch \in Nat
  <2>1. (size - 64) * 37500 \in Nat
    <3> HIDE DEF size
    <3> QED BY <1>2
  <2>2. \A n \in Nat : n \div 64 \in Nat
    OBVIOUS
  <2> QED BY <2>1, <2>2
<1>4. jitter \in 0..4
  BY <1>1
<1>5. base * factor \in Nat \ {0}
  <2> HIDE DEF base, factor
  <2> QED BY <1>2
<1>6. delay \in Nat /\ delay >= 100
  <2> DEFINE x == base * factor
  <2>1. x \in Nat /\ x >= 1
    BY <1>5
  <2> HIDE DEF x, stretch, jitter
  <2>2. x * 100 + stretch + jitter * 4500 \in Nat /\ x * 100 + stretch + jitter * 4500 >= 100
    BY <1>3, <1>4, <2>1
  <2> QED BY <2>2 DEF x
<1>7. service_delay_for(r) = CASE spec.name = "dma_stress" /\ i = 2            -> delay + 180000
                               [] spec.name = "mixed_stress" /\ i \in {1, 2}   -> delay + 160000
                               [] spec.name = "bandwidth_cap_npu" /\ i = NPU   -> (delay * 98) \div 100
                               [] OTHER                                        -> delay
  BY DEF service_delay_for
<1> HIDE DEF delay
<1>8. (delay * 98) \div 100 \in Nat \ {0}
  <2>1. \A n \in Nat : n >= 9800 => n \div 100 \in Nat \ {0}
    OBVIOUS
  <2>2. delay * 98 \in Nat /\ delay * 98 >= 9800
    BY <1>6
  <2> QED BY <2>1, <2>2
<1>9. delay \in Nat \ {0} /\ delay + 180000 \in Nat \ {0} /\ delay + 160000 \in Nat \ {0}
  BY <1>6
<1> DEFINE A == spec.name = "dma_stress" /\ i = 2
           B == spec.name = "mixed_stress" /\ i \in {1, 2}
           C == spec.name = "bandwidth_cap_npu" /\ i = NPU
<1>10. ~(A /\ B) /\ ~(A /\ C) /\ ~(B /\ C)
  OBVIOUS
<1> HIDE DEF A, B, C
<1>11. service_delay_for(r) = CASE A -> delay + 180000
                               [] B -> delay + 160000
                               [] C -> (delay * 98) \div 100
                               [] OTHER -> delay
  BY <1>7 DEF A, B, C
<1>12. service_delay_for(r) \in {delay + 180000, delay + 160000, (delay * 98) \div 100, delay}
  <2>1. CASE A
    BY <1>10, <1>11, <2>1
  <2>2. CASE B
    BY <1>10, <1>11, <2>2
  <2>3. CASE C
    BY <1>10, <1>11, <2>3
  <2>4. CASE ~A /\ ~B /\ ~C
    BY <1>11, <2>4
  <2> QED BY <2>1, <2>2, <2>3, <2>4
<1> QED BY <1>8, <1>9, <1>12

(* The invariant holds when run_fabric_model enters its loop.              *)
LEMMA InitInv ==
  Init => Inv
<1> SUFFICES ASSUME Init PROVE Inv
  OBVIOUS
<1> DEFINE R == all_records(spec)
<1>1. spec \in Cases /\ R \subseteq RecordType
  BY AllRecords DEF Init
<1>2. /\ schedule \in Seq(R)
      /\ \A j, k \in DOMAIN schedule : j < k => Before(schedule[j], schedule[k])
      /\ \A r \in R : \E k \in DOMAIN schedule : schedule[k] = r
  <2>1. schedule = make_initial_records(spec)
    BY DEF Init
  <2> QED BY <1>1, <2>1, Sorted
<1>3. Len(schedule) \in Nat /\ DOMAIN schedule = 1..Len(schedule) /\ Records = DOMAIN schedule
  BY <1>2 DEF Records
<1>4. \A r \in Records : schedule[r] \in R /\ schedule[r] \in RecordType
  BY <1>1, <1>2, <1>3
<1>5. ScheduleOK
  <2>1. schedule \in Seq(RecordType)
    BY <1>2, <1>3, <1>4
  <2>2. ASSUME NEW q \in Records, NEW r \in Records, q < r
        PROVE  /\ schedule[q].issue_time <= schedule[r].issue_time
               /\ Of(q) = Of(r) => schedule[q].sequence < schedule[r].sequence
    <3>1. Before(schedule[q], schedule[r])
      BY <1>2, <1>3, <2>2
    <3>2. schedule[q].issue_time \in Nat /\ schedule[r].issue_time \in Nat
      BY <1>4 DEF RecordType
    <3> QED BY <1>1, <1>4, <3>1, <3>2, BeforeIsOrder DEF Before, Of
  <2>3. ASSUME NEW r \in Records, NEW n \in Nat, n < schedule[r].sequence
        PROVE  \E q \in Records : Of(q) = Of(r) /\ schedule[q].sequence = n
    <3>1. PICK x \in R : x.initiator = schedule[r].initiator /\ x.sequence = n
      BY <1>1, <1>4, <2>3, AllRecords
    <3>2. PICK q \in Records : schedule[q] = x
      BY <1>2, <1>3
    <3> QED BY <3>1, <3>2 DEF Of
  <2> QED BY <2>1, <2>2, <2>3 DEF ScheduleOK
<1>6. TypeInv
  <2>1. pending = <<>> /\ next_record = 1 /\ time = 0 /\ last_rr_initiator = 3
        /\ next_npu_token = 0 /\ start = [r \in DOMAIN schedule |-> NotStarted]
    BY DEF Init
  <2>2. next_record \in 1..(Len(schedule) + 1) /\ time \in Nat /\ next_npu_token \in Nat
    BY <1>3, <2>1
  <2>3. last_rr_initiator \in Initiators
    BY <2>1 DEF Initiators
  <2>4. start \in [Records -> Nat \cup {NotStarted}]
    BY <1>3, <2>1
  <2>5. pending \in Seq(Records)
    BY <2>1
  <2> QED BY <1>1, <1>5, <2>2, <2>3, <2>4, <2>5 DEF TypeInv
<1>7. \A r \in Records : ~Started(r) /\ ~(r < next_record)
  BY <1>3 DEF Init, Started
<1>8. QueueOK
  BY <1>7 DEF QueueOK, Init
<1>9. ServiceOK
  BY <1>7 DEF ServiceOK
<1> QED BY <1>6, <1>8, <1>9 DEF Inv

(* What the invariant says of one record.                                  *)
LEMMA RecordFacts ==
  ASSUME TypeInv, NEW r \in Records
  PROVE  /\ Len(schedule) \in Nat /\ Records = 1..Len(schedule)
         /\ r \in Nat /\ r >= 1 /\ r <= Len(schedule)
         /\ schedule[r] \in RecordType
         /\ Of(r) \in Initiators /\ schedule[r].initiator = Of(r)
         /\ schedule[r].sequence \in Nat /\ schedule[r].issue_time \in Nat
         /\ start[r] \in Nat \cup {NotStarted}
         /\ Started(r) <=> start[r] \in Nat
         /\ service_delay_for(schedule[r]) \in Nat \ {0}
<1>1. schedule \in Seq(RecordType) /\ spec \in Cases
      /\ start \in [Records -> Nat \cup {NotStarted}]
  BY DEF TypeInv, ScheduleOK
<1>2. Len(schedule) \in Nat /\ Records = 1..Len(schedule)
  BY <1>1 DEF Records
<1>3. schedule[r] \in RecordType
  BY <1>1, <1>2
<1>4. /\ schedule[r].initiator \in Initiators
      /\ schedule[r].sequence \in Nat /\ schedule[r].issue_time \in Nat
  BY <1>3 DEF RecordType
<1>5. service_delay_for(schedule[r]) \in Nat \ {0}
  BY <1>1, <1>3, ServiceTakesTime
<1>6. start[r] \in Nat \cup {NotStarted} /\ (Started(r) <=> start[r] \in Nat)
  BY <1>1 DEF Started, NotStarted
<1> QED BY <1>2, <1>3, <1>4, <1>5, <1>6 DEF Of

(* What the invariant says of one place of the queue.                      *)
LEMMA PendingFacts ==
  ASSUME Inv, NEW k \in DOMAIN pending
  PROVE  /\ pending[k] \in Records /\ ~Started(pending[k])
         /\ pending[k] < next_record /\ schedule[pending[k]].issue_time <= time
         /\ k \in Nat /\ DOMAIN pending = 1..Len(pending) /\ Len(pending) \in Nat
<1>1. pending \in Seq(Records)
  BY DEF Inv, TypeInv
<1>2. DOMAIN pending = 1..Len(pending) /\ Len(pending) \in Nat
  BY <1>1
<1>3. pending[k] \in Records /\ k \in Nat
  BY <1>1, <1>2
<1> QED BY <1>2, <1>3 DEF Inv, QueueOK

(* An initiator with a pending record has one nearest the head.            *)
LEMMA FirstPosition ==
  ASSUME Inv, NEW i, PositionsOf(i) # {}
  PROVE  /\ pending_position_for_initiator(i) \in PositionsOf(i)
         /\ \A q \in PositionsOf(i) : pending_position_for_initiator(i) <= q
<1>1. PositionsOf(i) \subseteq Nat
  BY PendingFacts DEF PositionsOf
<1>2. \E k \in PositionsOf(i) : \A q \in PositionsOf(i) : k <= q
  BY <1>1, LeastElement
<1> QED BY <1>2 DEF pending_position_for_initiator

(* A record that is issued and not served is pending once everything that  *)
(* has arrived is enqueued, and is served as soon as its initiator may be. *)
LEMMA IssuedIsPending ==
  ASSUME Inv, ~Arrived, NEW q \in Records, ~Started(q), schedule[q].issue_time <= time
  PROVE  /\ \E k \in DOMAIN pending : pending[k] = q
         /\ npu_token_ready(Of(q)) => Of(q) \in Selectable
<1>1. TypeInv
  BY DEF Inv
<1>2. q < next_record
  <2>1. SUFFICES ASSUME ~(q < next_record) PROVE FALSE
    OBVIOUS
  <2>2. next_record \in Nat /\ next_record >= 1 /\ time \in Nat /\ next_record <= q
        /\ next_record <= Len(schedule)
    <3>1. next_record \in 1..(Len(schedule) + 1) /\ time \in Nat
      BY <1>1 DEF TypeInv
    <3>2. Len(schedule) \in Nat /\ q \in Nat /\ q <= Len(schedule)
      BY <1>1, RecordFacts
    <3> QED BY <2>1, <3>1, <3>2
  <2>3. next_record \in Records
    BY <1>1, <2>2, RecordFacts
  <2>4. schedule[next_record].issue_time <= schedule[q].issue_time
    <3>1. CASE next_record = q
      <4>1. schedule[q].issue_time \in Nat
        BY <1>1, RecordFacts
      <4> QED BY <3>1, <4>1
    <3>2. CASE next_record # q
      <4>1. next_record < q
        BY <1>1, <2>2, <3>2, RecordFacts
      <4> QED BY <1>1, <2>3, <4>1 DEF TypeInv, ScheduleOK
    <3> QED BY <3>1, <3>2
  <2>5. schedule[next_record].issue_time \in Nat /\ schedule[q].issue_time \in Nat
    BY <1>1, <2>3, RecordFacts
  <2> QED BY <2>2, <2>4, <2>5 DEF Arrived
<1>3. PICK k \in DOMAIN pending : pending[k] = q
  BY <1>2 DEF Inv, QueueOK
<1>4. k \in PositionsOf(Of(q)) /\ Of(q) \in Initiators
  BY <1>1, <1>3, RecordFacts DEF PositionsOf, Of
<1> QED BY <1>3, <1>4 DEF Selectable

(* What a step that serves record r does.                                  *)
Serves(r) ==
  /\ r \in Records
  /\ Of(r) \in Selectable /\ \A j \in Selectable : Turn(Of(r)) <= Turn(j)
  /\ ~Started(r) /\ r < next_record /\ schedule[r].issue_time <= time
  /\ \A q \in Records : Of(q) = Of(r) => (Started(q) <=> q < r)
  /\ last_rr_initiator' = Cursor(Of(r))
  /\ \E position \in DOMAIN pending :
       pending[position] = r /\ pending' = RemoveAt(pending, position)
  /\ start' = [start EXCEPT ![r] = time]
  /\ time' = time + service_delay_for(schedule[r])
  /\ next_npu_token' = NextToken(schedule[r])
  /\ UNCHANGED <<spec, schedule, next_record>>

(* The record that is served is the first of its initiator that is not.    *)
LEMMA ServeTakesFirst ==
  ASSUME Inv, Serve
  PROVE  ~Arrived /\ \E r \in Records : Serves(r)
<1>1. TypeInv
  BY DEF Inv
<1>2. PICK i \in Selectable :
        /\ \A j \in Selectable : Turn(i) <= Turn(j)
        /\ last_rr_initiator' = Cursor(i)
        /\ \E position \in {pending_position_for_initiator(i)} :
             LET r == pending[position]
             IN  /\ pending' = RemoveAt(pending, position)
                 /\ start' = [start EXCEPT ![r] = time]
                 /\ time' = time + service_delay_for(schedule[r])
                 /\ next_npu_token' = NextToken(schedule[r])
  BY DEF Serve
<1> DEFINE p == pending_position_for_initiator(i)
           r == pending[p]
<1>3. PositionsOf(i) # {}
  BY DEF Selectable
<1>4. p \in PositionsOf(i) /\ \A q \in PositionsOf(i) : p <= q
  BY <1>3, FirstPosition
<1>5. /\ pending' = RemoveAt(pending, p)
      /\ start' = [start EXCEPT ![r] = time]
      /\ time' = time + service_delay_for(schedule[r])
      /\ next_npu_token' = NextToken(schedule[r])
  BY <1>2
<1> HIDE DEF p
<1>6. p \in DOMAIN pending /\ schedule[r].initiator = i
  BY <1>4 DEF PositionsOf
<1>7. r \in Records /\ ~Started(r) /\ r < next_record /\ schedule[r].issue_time <= time
      /\ Of(r) = i
  BY <1>6, PendingFacts DEF Of
<1>8. ASSUME NEW q \in Records, Of(q) = Of(r) PROVE Started(q) <=> q < r
  <2>1. ASSUME q < r, ~Started(q) PROVE FALSE
    <3>1. q \in Nat /\ r \in Nat /\ next_record \in Nat
      <4>1. next_record \in 1..(Len(schedule) + 1) /\ Len(schedule) \in Nat
        BY <1>1, <1>7, RecordFacts DEF TypeInv
      <4> QED BY <1>1, <1>7, <4>1, RecordFacts
    <3>2. q < next_record
      BY <1>7, <2>1, <3>1
    <3>3. PICK k \in DOMAIN pending : pending[k] = q
      BY <2>1, <3>2 DEF Inv, QueueOK
    <3>4. k \in PositionsOf(i)
      BY <1>7, <1>8, <3>3 DEF PositionsOf, Of
    <3>5. k \in Nat /\ p \in Nat /\ p <= k
      BY <1>4, <1>6, <3>3, <3>4, PendingFacts
    <3>6. CASE p = k
      BY <2>1, <3>1, <3>3, <3>6
    <3>7. CASE p < k
      <4>1. r < q
        BY <1>6, <3>3, <3>7 DEF Inv, QueueOK
      <4> QED BY <2>1, <3>1, <4>1
    <3> QED BY <3>5, <3>6, <3>7
  <2>2. ASSUME Started(q), ~(q < r) PROVE FALSE
    <3>1. q # r
      BY <1>7, <2>2
    <3>2. r < q
      BY <1>1, <1>7, <2>2, <3>1, RecordFacts
    <3>3. Started(r)
      BY <1>7, <1>8, <2>2, <3>2 DEF Inv, QueueOK
    <3> QED BY <1>7, <3>3
  <2> QED BY <2>1, <2>2
<1>9. UNCHANGED <<spec, schedule, next_record>> /\ ~Arrived
  BY DEF Serve
<1> HIDE DEF r
<1>10. Serves(r)
  BY <1>2, <1>5, <1>6, <1>7, <1>8, <1>9 DEF Serves, r
<1> QED BY <1>7, <1>9, <1>10

(* A step that leaves the schedule leaves what it says.                    *)
LEMMA ScheduleKept ==
  ASSUME spec' = spec, schedule' = schedule, Inv
  PROVE  /\ Records' = Records /\ ScheduleOK' /\ spec' \in Cases
         /\ \A r : Of(r)' = Of(r) /\ service_delay_for(schedule[r])' = service_delay_for(schedule[r])
BY DEF Records, ScheduleOK, Of, service_delay_for, Inv, TypeInv

(* The jumps of the time leave everything else.                            *)
LEMMA JumpStep ==
  ASSUME Inv, time' \in Nat, time <= time',
         UNCHANGED <<spec, schedule, start, pending, next_record, last_rr_initiator,
                     next_npu_token>>
  PROVE  Inv'
<1>1. /\ Records' = Records /\ ScheduleOK' /\ spec' \in Cases
      /\ \A r : Of(r)' = Of(r) /\ service_delay_for(schedule[r])' = service_delay_for(schedule[r])
  BY ScheduleKept
<1>2. \A r : Started(r)' <=> Started(r)
  BY DEF Started
<1>3. TypeInv' /\ time \in Nat
  BY <1>1 DEF TypeInv, Inv
<1>4. QueueOK'
  <2>1. \A r \in Records : r < next_record => schedule[r].issue_time <= time'
    <3>1. ASSUME NEW r \in Records, r < next_record PROVE schedule[r].issue_time <= time'
      <4>1. schedule[r].issue_time <= time /\ schedule[r].issue_time \in Nat
        BY <3>1, RecordFacts DEF Inv, QueueOK
      <4> QED BY <1>3, <4>1
    <3> QED BY <3>1
  <2> QED BY <1>1, <1>2, <2>1 DEF QueueOK, Inv
<1>5. ServiceOK'
  <2>1. ASSUME NEW r \in Records, Started(r)
        PROVE  /\ start[r] + service_delay_for(schedule[r]) <= time'
               /\ Of(r) = NPU /\ spec.npu_token_gap > 0 =>
                    start[r] + spec.npu_token_gap <= next_npu_token
    <3>1. start[r] + service_delay_for(schedule[r]) <= time
          /\ start[r] \in Nat /\ service_delay_for(schedule[r]) \in Nat
      BY <2>1, RecordFacts DEF Inv, ServiceOK
    <3> QED BY <1>3, <2>1, <3>1 DEF Inv, ServiceOK
  <2> QED BY <1>1, <1>2, <2>1 DEF ServiceOK
<1> QED BY <1>3, <1>4, <1>5 DEF Inv

(* A record that arrives goes to the end of the queue, after all others.   *)
LEMMA EnqueueStep ==
  ASSUME Inv, Enqueue
  PROVE  Inv'
<1>1. /\ Records' = Records /\ ScheduleOK' /\ spec' \in Cases
      /\ \A r : Of(r)' = Of(r) /\ service_delay_for(schedule[r])' = service_delay_for(schedule[r])
  BY ScheduleKept DEF Enqueue
<1>2. \A r : Started(r)' <=> Started(r)
  BY DEF Started, Enqueue
<1>3. TypeInv
  BY DEF Inv
<1> DEFINE n == next_record
<1>4. n \in Nat /\ n >= 1 /\ n <= Len(schedule) /\ Len(schedule) \in Nat
      /\ schedule[n].issue_time <= time
  <2>1. Len(schedule) \in Nat
    BY <1>3 DEF TypeInv, ScheduleOK
  <2> QED BY <1>3, <2>1 DEF Enqueue, Arrived, TypeInv
<1>5. n \in Records
  <2>1. Records = 1..Len(schedule)
    BY <1>3, <1>4 DEF TypeInv, ScheduleOK, Records
  <2> QED BY <1>4, <2>1
<1>6. pending \in Seq(Records) /\ Len(pending) \in Nat /\ DOMAIN pending = 1..Len(pending)
      /\ \A k \in DOMAIN pending : pending[k] \in Nat /\ pending[k] < n /\ ~Started(pending[k])
  <2>1. pending \in Seq(Records)
    BY <1>3 DEF TypeInv
  <2>2. \A k \in DOMAIN pending : pending[k] < n /\ ~Started(pending[k]) /\ pending[k] \in Records
    BY PendingFacts
  <2>3. \A q \in Records : q \in Nat
    BY <1>3, RecordFacts
  <2> QED BY <2>1, <2>2, <2>3
<1>7. /\ pending' \in Seq(Records) /\ Len(pending') = Len(pending) + 1
      /\ \A k \in 1..Len(pending) : pending'[k] = pending[k]
      /\ pending'[Len(pending) + 1] = n
      /\ DOMAIN pending' = 1..(Len(pending) + 1)
  <2>1. pending' = Append(pending, n)
    BY DEF Enqueue
  <2> HIDE DEF n
  <2> QED BY <1>5, <1>6, <2>1
<1>8. next_record' = n + 1 /\ UNCHANGED <<start, time, next_npu_token, last_rr_initiator, spec, schedule>>
  BY DEF Enqueue
<1> HIDE DEF n
<1>9. TypeInv'
  <2>1. next_record' \in 1..(Len(schedule) + 1)
    BY <1>4, <1>8
  <2> QED BY <1>1, <1>3, <1>7, <1>8, <2>1 DEF TypeInv
<1>10. ~Started(n)
  <2>1. ~(n < next_record)
    BY <1>4 DEF n
  <2> QED BY <1>5, <2>1 DEF Inv, QueueOK
<1>11. QueueOK'
  <2>1. ASSUME NEW j \in DOMAIN pending', NEW k \in DOMAIN pending', j < k
        PROVE  pending'[j] < pending'[k]
    <3>1. j \in 1..Len(pending) /\ k \in 1..(Len(pending) + 1)
      BY <1>6, <1>7, <2>1
    <3>2. CASE k = Len(pending) + 1
      BY <1>6, <1>7, <3>1, <3>2
    <3>3. CASE k # Len(pending) + 1
      <4>1. k \in 1..Len(pending)
        BY <1>6, <3>1, <3>3
      <4>2. pending[j] < pending[k]
        BY <1>6, <2>1, <3>1, <4>1 DEF Inv, QueueOK
      <4> QED BY <1>7, <3>1, <4>1, <4>2
    <3> QED BY <3>2, <3>3
  <2>2. ASSUME NEW k \in DOMAIN pending' PROVE ~Started(pending'[k])
    <3>1. k \in 1..Len(pending) \/ k = Len(pending) + 1
      BY <1>6, <1>7
    <3> QED BY <1>6, <1>7, <1>10, <3>1
  <2>3. ASSUME NEW r \in Records
        PROVE  /\ r < next_record' <=> Started(r) \/ \E k \in DOMAIN pending' : pending'[k] = r
               /\ r < next_record' => schedule[r].issue_time <= time
               /\ Started(r) => \A q \in Records : q < r /\ Of(q) = Of(r) => Started(q)
    <3>1. r \in Nat /\ (r < next_record' <=> r < n \/ r = n)
      BY <1>3, <1>4, <1>8, RecordFacts
    <3>2. /\ r < n <=> Started(r) \/ \E k \in DOMAIN pending : pending[k] = r
          /\ r < n => schedule[r].issue_time <= time
          /\ Started(r) => \A q \in Records : q < r /\ Of(q) = Of(r) => Started(q)
      BY DEF Inv, QueueOK, n
    <3>3. (\E k \in DOMAIN pending' : pending'[k] = r)
            <=> r = n \/ \E k \in DOMAIN pending : pending[k] = r
      <4>1. Len(pending) + 1 \in DOMAIN pending' /\ 1..Len(pending) \subseteq DOMAIN pending'
        BY <1>6, <1>7
      <4>2. \A k \in DOMAIN pending' : k \in 1..Len(pending) \/ k = Len(pending) + 1
        BY <1>6, <1>7
      <4> QED BY <1>6, <1>7, <4>1, <4>2
    <3> QED BY <1>4, <3>1, <3>2, <3>3
  <2>4. \A k \in DOMAIN pending' : ~Started(pending[k])'
    BY <1>8, <2>2 DEF Started
  <2> QED BY <1>1, <1>2, <1>8, <2>1, <2>4, <2>3 DEF QueueOK
<1>12. ServiceOK'
  BY <1>1, <1>2, <1>8 DEF ServiceOK, Inv
<1> QED BY <1>9, <1>11, <1>12 DEF Inv

(* What a service does to the starts of the records.                       *)
LEMMA ServesFacts ==
  ASSUME Inv, NEW r \in Records, Serves(r)
  PROVE  /\ Records' = Records
         /\ \A q : Of(q)' = Of(q) /\ service_delay_for(schedule[q])' = service_delay_for(schedule[q])
         /\ start' \in [Records -> Nat \cup {NotStarted}]
         /\ start'[r] = time /\ time \in Nat /\ start[r] = NotStarted
         /\ \A q \in Records \ {r} : start'[q] = start[q]
         /\ Started(r)' /\ \A q \in Records \ {r} : Started(q)' <=> Started(q)
         /\ time' \in Nat /\ time' = start'[r] + service_delay_for(schedule[r])
         /\ time < time'
         /\ \A q \in Records : Started(q) =>
              start[q] \in Nat /\ start[q] < time
                /\ start[q] + service_delay_for(schedule[q]) <= time
<1>1. /\ Records' = Records /\ ScheduleOK' /\ spec' \in Cases
      /\ \A q : Of(q)' = Of(q) /\ service_delay_for(schedule[q])' = service_delay_for(schedule[q])
  BY ScheduleKept DEF Serves
<1>2. time \in Nat /\ start \in [Records -> Nat \cup {NotStarted}] /\ TypeInv
  BY DEF Inv, TypeInv
<1>3. start' = [start EXCEPT ![r] = time] /\ time' = time + service_delay_for(schedule[r])
      /\ ~Started(r)
  BY DEF Serves
<1>4. /\ start' \in [Records -> Nat \cup {NotStarted}]
      /\ start'[r] = time /\ start[r] = NotStarted
      /\ \A q \in Records \ {r} : start'[q] = start[q]
  BY <1>2, <1>3 DEF Started
<1>5. time # NotStarted
  BY <1>2 DEF NotStarted
<1>6. Started(r)' /\ \A q \in Records \ {r} : Started(q)' <=> Started(q)
  BY <1>4, <1>5 DEF Started
<1>7. service_delay_for(schedule[r]) \in Nat \ {0}
  BY <1>2, RecordFacts
<1>8. time' \in Nat /\ time' = start'[r] + service_delay_for(schedule[r]) /\ time < time'
  BY <1>2, <1>3, <1>4, <1>7
<1>9. ASSUME NEW q \in Records, Started(q)
      PROVE  start[q] \in Nat /\ start[q] < time
             /\ start[q] + service_delay_for(schedule[q]) <= time
  <2>1. start[q] \in Nat /\ service_delay_for(schedule[q]) \in Nat \ {0}
    BY <1>2, <1>9, RecordFacts
  <2>2. start[q] + service_delay_for(schedule[q]) <= time
    BY <1>9 DEF Inv, ServiceOK
  <2> QED BY <1>2, <2>1, <2>2
<1> QED BY <1>1, <1>2, <1>4, <1>6, <1>8, <1>9

(* A service keeps the invariant.                                          *)
LEMMA ServesStep ==
  ASSUME Inv, NEW r \in Records, Serves(r)
  PROVE  Inv'
<1>1. /\ Records' = Records /\ ScheduleOK' /\ spec' \in Cases
      /\ \A q : Of(q)' = Of(q) /\ service_delay_for(schedule[q])' = service_delay_for(schedule[q])
  BY ScheduleKept DEF Serves
<1>2. /\ start' \in [Records -> Nat \cup {NotStarted}]
      /\ start'[r] = time /\ time \in Nat
      /\ \A q \in Records \ {r} : start'[q] = start[q]
      /\ Started(r)' /\ \A q \in Records \ {r} : Started(q)' <=> Started(q)
      /\ time' \in Nat /\ time' = start'[r] + service_delay_for(schedule[r]) /\ time < time'
      /\ \A q \in Records : Started(q) =>
           start[q] \in Nat /\ start[q] < time
             /\ start[q] + service_delay_for(schedule[q]) <= time
  BY ServesFacts
<1>3. /\ spec' = spec /\ schedule' = schedule /\ next_record' = next_record
      /\ ~Started(r) /\ r < next_record
      /\ \A q \in Records : Of(q) = Of(r) => (Started(q) <=> q < r)
      /\ Of(r) \in Initiators
  BY RecordFacts DEF Serves, Inv
<1>4. PICK p \in DOMAIN pending : pending[p] = r /\ pending' = RemoveAt(pending, p)
  BY DEF Serves
<1>5. /\ pending \in Seq(Records) /\ Len(pending) \in Nat /\ DOMAIN pending = 1..Len(pending)
      /\ \A k \in DOMAIN pending : pending[k] \in Nat
  <2>1. pending \in Seq(Records)
    BY DEF Inv, TypeInv
  <2>2. \A q \in Records : q \in Nat
    BY RecordFacts DEF Inv
  <2> QED BY <2>1, <2>2
<1>6. /\ pending' \in Seq(Records) /\ Len(pending') = Len(pending) - 1
      /\ \A k \in 1..(Len(pending) - 1) :
           pending'[k] = IF k < p THEN pending[k] ELSE pending[k + 1]
      /\ DOMAIN pending' = 1..(Len(pending) - 1)
  <2>1. /\ pending' \in Seq(Records) /\ Len(pending') = Len(pending) - 1
        /\ \A k \in 1..(Len(pending) - 1) :
             pending'[k] = IF k < p THEN pending[k] ELSE pending[k + 1]
    <3>1. p \in 1..Len(pending) /\ pending \in Seq(Records)
      BY <1>5
    <3>2. /\ RemoveAt(pending, p) \in Seq(Records)
          /\ Len(RemoveAt(pending, p)) = Len(pending) - 1
          /\ \A k \in 1..(Len(pending) - 1) :
               RemoveAt(pending, p)[k] = IF k < p THEN pending[k] ELSE pending[k + 1]
      BY <3>1, RemoveAtFacts
    <3> QED BY <1>4, <3>2
  <2>2. DOMAIN pending' = 1..Len(pending')
    BY <2>1
  <2> QED BY <2>1, <2>2
<1> DEFINE old(k) == IF k < p THEN k ELSE k + 1
<1>7. ASSUME NEW k \in DOMAIN pending'
      PROVE  /\ old(k) \in DOMAIN pending /\ old(k) # p /\ pending'[k] = pending[old(k)]
             /\ k \in Nat
  BY <1>4, <1>5, <1>6
<1>8. \A j, k \in DOMAIN pending' : j < k => old(j) < old(k)
  BY <1>4, <1>5, <1>6
<1>9. ASSUME NEW k \in DOMAIN pending, k # p
      PROVE  \E j \in DOMAIN pending' : old(j) = k
  <2>1. CASE k < p
    <3>1. k \in DOMAIN pending' /\ old(k) = k
      BY <1>4, <1>5, <1>6, <2>1
    <3> QED BY <3>1
  <2>2. CASE ~(k < p)
    <3>1. k - 1 \in DOMAIN pending' /\ old(k - 1) = k
      BY <1>4, <1>5, <1>6, <1>9, <2>2
    <3> QED BY <3>1
  <2> QED BY <2>1, <2>2
<1> HIDE DEF old
<1>10. \A k \in DOMAIN pending : pending[k] = r => k = p
  <2>1. ASSUME NEW k \in DOMAIN pending, pending[k] = r, k # p PROVE FALSE
    <3>1. k < p \/ p < k
      BY <1>4, <1>5, <2>1
    <3>2. pending[k] < pending[p] \/ pending[p] < pending[k]
      BY <1>4, <3>1 DEF Inv, QueueOK
    <3> QED BY <1>4, <1>5, <2>1, <3>2
  <2> QED BY <2>1
<1>11. TypeInv'
  <2>1. last_rr_initiator' \in Initiators
    BY <1>3 DEF Serves, Cursor, Inv, TypeInv
  <2>2. next_npu_token' \in Nat
    <3>1. next_npu_token' \in {next_npu_token, time + spec.npu_token_gap}
      BY DEF Serves, NextToken
    <3>2. spec.npu_token_gap \in Nat
      <4>1. spec \in Cases /\ 0 \in Initiators
        BY DEF Inv, TypeInv, Initiators
      <4> QED BY <4>1, CaseFacts
    <3>3. next_npu_token \in Nat
      BY DEF Inv, TypeInv
    <3> QED BY <1>2, <3>1, <3>2, <3>3
  <2>3. next_record' \in 1..(Len(schedule') + 1)
    BY <1>3 DEF Inv, TypeInv
  <2> QED BY <1>1, <1>2, <1>6, <2>1, <2>2, <2>3 DEF TypeInv
<1>12. QueueOK'
  <2>1. ASSUME NEW j \in DOMAIN pending', NEW k \in DOMAIN pending', j < k
        PROVE  pending'[j] < pending'[k]
    <3>1. old(j) < old(k) /\ old(j) \in DOMAIN pending /\ old(k) \in DOMAIN pending
      BY <1>7, <1>8, <2>1
    <3>2. pending[old(j)] < pending[old(k)]
      BY <3>1 DEF Inv, QueueOK
    <3> QED BY <1>7, <3>2
  <2>2. ASSUME NEW k \in DOMAIN pending' PROVE ~Started(pending[k])'
    <3>1. old(k) \in DOMAIN pending /\ old(k) # p /\ pending'[k] = pending[old(k)]
      BY <1>7
    <3> DEFINE q == pending[old(k)]
    <3>2. q \in Records \ {r} /\ ~Started(q)
      BY <1>5, <1>10, <3>1, PendingFacts
    <3>3. start'[q] = start[q]
      BY <1>2, <3>2
    <3> QED BY <3>1, <3>2, <3>3 DEF Started
  <2>3. ASSUME NEW q \in Records
        PROVE  /\ q < next_record <=> Started(q)' \/ \E k \in DOMAIN pending' : pending'[k] = q
               /\ q < next_record => schedule[q].issue_time <= time'
               /\ Started(q)' => \A x \in Records : x < q /\ Of(x) = Of(q) => Started(x)'
    <3>1. /\ q < next_record <=> Started(q) \/ \E k \in DOMAIN pending : pending[k] = q
          /\ q < next_record => schedule[q].issue_time <= time
          /\ Started(q) => \A x \in Records : x < q /\ Of(x) = Of(q) => Started(x)
      BY DEF Inv, QueueOK
    <3>2. schedule[q].issue_time \in Nat
      BY RecordFacts DEF Inv
    <3>3. q < next_record => schedule[q].issue_time <= time'
      BY <1>2, <3>1, <3>2
    <3>4. q < next_record <=> Started(q)' \/ \E k \in DOMAIN pending' : pending'[k] = q
      <4>1. CASE q = r
        BY <1>2, <1>3, <4>1
      <4>2. CASE q # r
        <5>1. (\E k \in DOMAIN pending : pending[k] = q)
                <=> \E k \in DOMAIN pending' : pending'[k] = q
          BY <1>4, <1>7, <1>9, <4>2
        <5> QED BY <1>2, <3>1, <4>2, <5>1
      <4> QED BY <4>1, <4>2
    <3>5. Started(q)' => \A x \in Records : x < q /\ Of(x) = Of(q) => Started(x)'
      <4>1. CASE q = r
        <5>1. \A x \in Records : x < r /\ Of(x) = Of(r) => Started(x)
          BY <1>3
        <5> QED BY <1>2, <4>1, <5>1
      <4>2. CASE q # r
        BY <1>2, <3>1, <4>2
      <4> QED BY <4>1, <4>2
    <3> QED BY <3>3, <3>4, <3>5
  <2> QED BY <1>1, <1>3, <2>1, <2>2, <2>3 DEF QueueOK
<1>13. ServiceOK'
  <2>1. ASSUME NEW q \in Records, Started(q)'
        PROVE  /\ start'[q] + service_delay_for(schedule[q]) <= time'
               /\ Of(q) = NPU /\ spec.npu_token_gap > 0 =>
                    start'[q] + spec.npu_token_gap <= next_npu_token'
    <3>1. /\ spec.npu_token_gap \in Nat /\ next_npu_token \in Nat
          /\ service_delay_for(schedule[q]) \in Nat
      <4>1. spec \in Cases /\ 0 \in Initiators /\ TypeInv
        BY DEF Inv, TypeInv, Initiators
      <4> QED BY <4>1, CaseFacts, RecordFacts DEF TypeInv
    <3>2. next_npu_token' = IF spec.npu_token_gap > 0 /\ Of(r) = NPU
                              THEN time + spec.npu_token_gap ELSE next_npu_token
      BY DEF Serves, NextToken, Of
    <3>3. CASE q = r
      <4>1. start'[q] + service_delay_for(schedule[q]) <= time'
        BY <1>2, <3>1, <3>3
      <4> QED BY <1>2, <3>1, <3>2, <3>3, <4>1
    <3>4. CASE q # r
      <4>1. /\ start'[q] = start[q] /\ start[q] \in Nat /\ start[q] < time
            /\ start[q] + service_delay_for(schedule[q]) <= time
            /\ Of(q) = NPU /\ spec.npu_token_gap > 0 =>
                 start[q] + spec.npu_token_gap <= next_npu_token
        BY <1>2, <2>1, <3>4 DEF Inv, ServiceOK
      <4> QED BY <1>2, <3>1, <3>2, <4>1
    <3> QED BY <3>3, <3>4
  <2> QED BY <1>1, <1>3, <2>1 DEF ServiceOK
<1> QED BY <1>11, <1>12, <1>13 DEF Inv

(* Where the jumps of the time lead.                                       *)
LEMMA JumpFacts ==
  ASSUME Inv
  PROVE  /\ AwaitRecord => time' \in Nat /\ time <= time'
                           /\ (time' > time => time' = schedule[next_record].issue_time)
         /\ AwaitToken => time' \in Nat /\ time <= time' /\ (time' > time => time' = Wakeup)
         /\ Wakeup \in Nat /\ Wakeup <= next_npu_token
         /\ next_record <= Len(schedule) => Wakeup <= schedule[next_record].issue_time
<1>1. time \in Nat /\ next_npu_token \in Nat /\ Len(schedule) \in Nat
      /\ next_record \in 1..(Len(schedule) + 1) /\ TypeInv
  BY DEF Inv, TypeInv, ScheduleOK
<1>2. next_record <= Len(schedule) => schedule[next_record].issue_time \in Nat
  <2>1. ASSUME next_record <= Len(schedule) PROVE next_record \in Records
    BY <1>1, <2>1 DEF TypeInv, ScheduleOK, Records
  <2> QED BY <1>1, <2>1, RecordFacts
<1>3. AwaitRecord => time' \in Nat /\ time <= time'
                     /\ (time' > time => time' = schedule[next_record].issue_time)
  BY <1>1, <1>2 DEF AwaitRecord, Later
<1>4. Wakeup \in Nat /\ Wakeup <= next_npu_token
      /\ (next_record <= Len(schedule) => Wakeup <= schedule[next_record].issue_time)
  BY <1>1, <1>2 DEF Wakeup, Sooner
<1>5. AwaitToken => time' \in Nat /\ time <= time' /\ (time' > time => time' = Wakeup)
  BY <1>1, <1>4 DEF AwaitToken, Later
<1> QED BY <1>3, <1>4, <1>5

(* Every step keeps the invariant.                                         *)
LEMMA InvStep ==
  Inv /\ [Next]_vars => Inv'
<1> SUFFICES ASSUME Inv, [Next]_vars PROVE Inv'
  OBVIOUS
<1>1. CASE Enqueue
  BY <1>1, EnqueueStep
<1>2. CASE AwaitRecord
  BY <1>2, JumpFacts, JumpStep DEF AwaitRecord
<1>3. CASE Serve
  <2>1. PICK r \in Records : Serves(r)
    BY <1>3, ServeTakesFirst
  <2> QED BY <2>1, ServesStep
<1>4. CASE AwaitToken
  BY <1>4, JumpFacts, JumpStep DEF AwaitToken
<1>5. CASE Finished \/ UNCHANGED vars
  <2>1. UNCHANGED vars /\ time \in Nat
    BY <1>5 DEF Finished, Inv, TypeInv
  <2>2. time' \in Nat /\ time <= time'
    BY <2>1 DEF vars
  <2> QED BY <2>1, <2>2, JumpStep DEF vars
<1> QED BY <1>1, <1>2, <1>3, <1>4, <1>5 DEF Next

(* So it always holds.                                                     *)
LEMMA InvHolds ==
  Spec => []Inv
BY InitInv, InvStep, PTL DEF Spec

(* A record is served in a step that serves it, and in no other.           *)
LEMMA ServedBy ==
  ASSUME Inv, Next, NEW r \in Records, IsServed(r)
  PROVE  Serve /\ ~Arrived /\ Serves(r)
<1>1. start' # start
  BY DEF IsServed
<1>2. Serve
  BY <1>1 DEF Next, Enqueue, AwaitRecord, AwaitToken, Finished, vars
<1>3. PICK q \in Records : Serves(q) /\ ~Arrived
  BY <1>2, ServeTakesFirst
<1>4. q = r
  <2>1. q # r => start'[r] = start[r]
    BY <1>3, ServesFacts
  <2> QED BY <2>1 DEF IsServed
<1> QED BY <1>2, <1>3, <1>4

(* Every step serves in order.                                             *)
LEMMA OrderStep ==
  ASSUME Inv, Next
  PROVE  ServedInOrder
<1> SUFFICES ASSUME NEW r \in Records, IsServed(r)
             PROVE  /\ start'[r] >= schedule[r].issue_time
                    /\ \A q \in Records \ {r} :
                         /\ start[q] # NotStarted =>
                              start[q] + service_delay_for(schedule[q]) <= start'[r]
                         /\ schedule[q].initiator = schedule[r].initiator =>
                              (start[q] # NotStarted <=>
                                 schedule[q].sequence < schedule[r].sequence)
  BY DEF ServedInOrder
<1>1. Serves(r)
  BY ServedBy
<1>2. start'[r] = time /\ time \in Nat
      /\ \A q \in Records : Started(q) => start[q] + service_delay_for(schedule[q]) <= time
  BY <1>1, ServesFacts
<1>3. schedule[r].issue_time <= time /\ schedule[r].issue_time \in Nat
  BY <1>1, RecordFacts DEF Serves, Inv
<1>4. ASSUME NEW q \in Records \ {r}, Of(q) = Of(r)
      PROVE  Started(q) <=> schedule[q].sequence < schedule[r].sequence
  <2>1. Started(q) <=> q < r
    BY <1>1, <1>4 DEF Serves
  <2>2. q \in Nat /\ r \in Nat /\ schedule[q].sequence \in Nat /\ schedule[r].sequence \in Nat
    BY RecordFacts DEF Inv
  <2>3. q < r => schedule[q].sequence < schedule[r].sequence
    BY <1>4 DEF Inv, TypeInv, ScheduleOK
  <2>4. r < q => schedule[r].sequence < schedule[q].sequence
    BY <1>4 DEF Inv, TypeInv, ScheduleOK
  <2>5. q < r \/ r < q
    BY <2>2
  <2> QED BY <2>1, <2>2, <2>3, <2>4, <2>5
<1> QED BY <1>2, <1>3, <1>4 DEF Started, Of

(* Every step keeps the NPU a token gap apart: the token a service leaves  *)
(* is due a gap after it.                                                  *)
LEMMA TokenStep ==
  ASSUME Inv, Next
  PROVE  TokenPaced
<1> SUFFICES ASSUME NEW r \in Records, IsServed(r), schedule[r].initiator = NPU,
                    NEW q \in Records, schedule[q].initiator = NPU, start[q] # NotStarted
             PROVE  start'[r] - start[q] >= spec.npu_token_gap
  BY DEF TokenPaced
<1>1. Serves(r)
  BY ServedBy
<1>2. start'[r] = time /\ time \in Nat /\ start[q] \in Nat /\ start[q] < time
  BY <1>1, ServesFacts DEF Started
<1>3. spec.npu_token_gap \in Nat /\ next_npu_token \in Nat
  <2>1. spec \in Cases /\ NPU \in Initiators
    BY DEF Inv, TypeInv, Initiators, NPU
  <2> QED BY <2>1, CaseFacts DEF Inv, TypeInv
<1>4. CASE spec.npu_token_gap = 0
  BY <1>2, <1>4
<1>5. CASE spec.npu_token_gap > 0
  <2>1. npu_token_ready(NPU)
    BY <1>1 DEF Serves, Selectable, Of
  <2>2. time >= next_npu_token
    BY <1>3, <1>5, <2>1 DEF npu_token_ready
  <2>3. start[q] + spec.npu_token_gap <= next_npu_token
    BY <1>5 DEF Inv, ServiceOK, Started, Of
  <2> QED BY <1>2, <1>3, <2>2, <2>3
<1> QED BY <1>3, <1>4, <1>5

(* Every jump of the time ends before a record is issued, or waits for the *)
(* token of the only initiator that has one.                               *)
LEMMA IdleStep ==
  ASSUME Inv, Next
  PROVE  WorkConserving
<1> SUFFICES ASSUME time' > time, start' = start,
                    NEW r \in Records, start[r] = NotStarted, schedule[r].issue_time < time'
             PROVE  /\ schedule[r].initiator = NPU /\ spec.npu_token_gap > 0
                    /\ time' <= next_npu_token
  BY DEF WorkConserving
<1>1. TypeInv /\ time \in Nat /\ ~Started(r)
  BY DEF Inv, TypeInv, Started
<1>2. AwaitRecord \/ AwaitToken
  <2>1. ~(time' = time)
    BY <1>1
  <2>2. ~Serve
    <3>1. ASSUME Serve PROVE FALSE
      <4>1. PICK q \in Records : Serves(q)
        BY <3>1, ServeTakesFirst
      <4>2. start'[q] = time /\ start[q] = NotStarted
        BY <4>1, ServesFacts
      <4> QED BY <1>1, <4>2 DEF NotStarted
    <3> QED BY <3>1
  <2> QED BY <2>1, <2>2 DEF Next, Enqueue, Finished, vars
<1>3. /\ next_record \in Nat /\ next_record >= 1 /\ Len(schedule) \in Nat
      /\ r \in Nat /\ r <= Len(schedule) /\ schedule[r].issue_time \in Nat
      /\ Records = 1..Len(schedule)
  <2>1. next_record \in 1..(Len(schedule) + 1)
    BY <1>1 DEF TypeInv
  <2> QED BY <1>1, <2>1, RecordFacts
<1>4. ASSUME ~(r < next_record)
      PROVE  /\ next_record <= Len(schedule)
             /\ schedule[next_record].issue_time \in Nat
             /\ schedule[next_record].issue_time <= schedule[r].issue_time
  <2>1. next_record <= Len(schedule) /\ next_record \in Records
    BY <1>3, <1>4
  <2>2. schedule[next_record].issue_time \in Nat
    BY <1>1, <2>1, RecordFacts
  <2>3. CASE next_record = r
    BY <1>3, <2>1, <2>3
  <2>4. CASE next_record < r
    BY <1>1, <1>3, <2>1, <2>2, <2>4 DEF TypeInv, ScheduleOK
  <2> QED BY <1>3, <1>4, <2>1, <2>2, <2>3, <2>4
<1>5. ASSUME r < next_record PROVE \E k \in DOMAIN pending : pending[k] = r
  BY <1>1, <1>5 DEF Inv, QueueOK
<1>6. CASE AwaitRecord
  <2>1. pending = <<>> /\ time' = schedule[next_record].issue_time
    BY <1>6, JumpFacts DEF AwaitRecord
  <2>2. ~(r < next_record)
    BY <1>5, <2>1
  <2> QED BY <1>3, <1>4, <2>1, <2>2
<1>7. CASE AwaitToken
  <2>1. /\ time' = Wakeup /\ Wakeup \in Nat /\ Wakeup <= next_npu_token /\ Selectable = {}
        /\ next_record <= Len(schedule) => Wakeup <= schedule[next_record].issue_time
    BY <1>7, JumpFacts DEF AwaitToken
  <2>2. r < next_record
    <3>1. ASSUME ~(r < next_record) PROVE FALSE
      BY <1>3, <1>4, <2>1, <3>1
    <3> QED BY <3>1
  <2>3. PICK k \in DOMAIN pending : pending[k] = r
    BY <1>5, <2>2
  <2>4. k \in PositionsOf(Of(r)) /\ Of(r) \in Initiators
    BY <1>1, <2>3, RecordFacts DEF PositionsOf, Of
  <2>5. ~npu_token_ready(Of(r))
    BY <2>1, <2>4 DEF Selectable
  <2>6. Of(r) = NPU /\ spec.npu_token_gap # 0 /\ spec.npu_token_gap \in Nat
    <3>1. spec.npu_token_gap \in Nat
      BY <1>1, <2>4, CaseFacts DEF TypeInv
    <3> QED BY <2>5, <3>1 DEF npu_token_ready
  <2> QED BY <2>1, <2>6 DEF Of
<1> QED BY <1>2, <1>6, <1>7

(***************************************************************************)
(* run_fabric_model serves in order, without overlap, the NPU a token gap  *)
(* apart, and leaves the memory idle only while nothing may be served.     *)
(***************************************************************************)
THEOREM ServiceIsDisciplined == Spec => ServiceDiscipline
<1>1. Inv /\ [Next]_vars => [ServedInOrder /\ TokenPaced /\ WorkConserving]_vars
  BY OrderStep, TokenStep, IdleStep
<1> QED BY <1>1, InvHolds, PTL DEF Spec, ServiceDiscipline

(* The first record of its initiator that is not served.                   *)
First(r) == ~Started(r) /\ \A q \in Records : Of(q) = Of(r) /\ q < r => Started(q)

(* Record q has passed r, the first of another initiator.                  *)
Passes(q, r) == Of(q) # Of(r) /\ Started(q) /\ start[q] >= FirstSince(r)

(* Under round robin, an initiator that has passed the first record of     *)
(* another has passed it with one record, and its turn comes later.        *)
RoundRobinInv ==
  spec.policy = "round_robin" =>
    \A r, q \in Records : First(r) /\ Passes(q, r) =>
      /\ Turn(Of(r)) < Turn(Of(q))
      /\ \A p \in Records : Of(p) = Of(q) /\ Passes(p, r) => p = q

(* The turns of round robin, from the cursor on.                           *)
RoundTurn(last, i) == (i - last - 1) % 4

(* After k is served its turn is the last, and those that came after it    *)
(* keep their order.                                                       *)
LEMMA RoundTurns ==
  ASSUME NEW l \in Initiators, NEW k \in Initiators
  PROVE  /\ \A x \in Initiators : RoundTurn(l, x) \in 0..3
         /\ \A x \in Initiators \ {k} : RoundTurn(k, x) < RoundTurn(k, k)
         /\ \A x, y \in Initiators \ {k} :
              RoundTurn(l, k) <= RoundTurn(l, x) /\ RoundTurn(l, x) < RoundTurn(l, y) =>
                RoundTurn(k, x) < RoundTurn(k, y)
<1>1. \A a \in Initiators : a \in Int /\ 0 <= a /\ a <= 3
  BY DEF Initiators
<1>2. \A n \in Int : -4 <= n /\ n <= 2 => n % 4 = IF n < 0 THEN n + 4 ELSE n
  OBVIOUS
<1>3. ASSUME NEW a \in Initiators, NEW x \in Initiators
      PROVE  RoundTurn(a, x) = IF a < x THEN x - a - 1 ELSE x - a + 3
  <2>1. x - a - 1 \in Int /\ -4 <= x - a - 1 /\ x - a - 1 <= 2 /\ (x - a - 1 < 0 <=> ~(a < x))
    BY <1>1
  <2>2. (x - a - 1) % 4 = IF x - a - 1 < 0 THEN (x - a - 1) + 4 ELSE x - a - 1
    BY <1>2, <2>1
  <2>3. (x - a - 1) + 4 = x - a + 3
    BY <1>1
  <2> QED BY <2>1, <2>2, <2>3 DEF RoundTurn
<1>5. ASSUME NEW x \in Initiators PROVE RoundTurn(l, x) \in 0..3
  <2>1. RoundTurn(l, x) = IF l < x THEN x - l - 1 ELSE x - l + 3
    BY <1>3
  <2>2. l \in Int /\ 0 <= l /\ l <= 3 /\ x \in Int /\ 0 <= x /\ x <= 3
    BY <1>1
  <2> QED BY <2>1, <2>2
<1>6. \A x \in Initiators \ {k} : RoundTurn(k, x) < RoundTurn(k, k)
  BY <1>1, <1>3
<1>7. ASSUME NEW x \in Initiators \ {k}, NEW y \in Initiators \ {k},
             RoundTurn(l, k) <= RoundTurn(l, x), RoundTurn(l, x) < RoundTurn(l, y)
      PROVE  RoundTurn(k, x) < RoundTurn(k, y)
  BY <1>1, <1>3, <1>7
<1> QED BY <1>5, <1>6, <1>7

(* A record is not the first of its initiator before it is issued.         *)
LEMMA SinceType ==
  ASSUME TypeInv, NEW r \in Records
  PROVE  FirstSince(r) \in Nat /\ FirstSince(r) >= schedule[r].issue_time
<1> DEFINE previous == {q \in Records : /\ schedule[q].initiator = schedule[r].initiator
                                        /\ schedule[q].sequence = schedule[r].sequence - 1}
           p == CHOOSE q \in previous : TRUE
<1>1. schedule[r].issue_time \in Nat
  BY RecordFacts
<1>2. previous # {} => p \in Records
  OBVIOUS
<1>3. previous # {} => start[p] \in Nat \cup {NotStarted}
  BY <1>2, RecordFacts
<1>4. FirstSince(r) = IF previous = {} THEN schedule[r].issue_time
                      ELSE Later(schedule[r].issue_time, start[p])
  BY DEF FirstSince
<1> HIDE DEF previous, p
<1>5. previous # {} => Later(schedule[r].issue_time, start[p]) \in Nat
                       /\ Later(schedule[r].issue_time, start[p]) >= schedule[r].issue_time
  BY <1>1, <1>3 DEF Later, NotStarted
<1> QED BY <1>1, <1>4, <1>5

(* A step that serves nothing, or a record of another initiator, does not  *)
(* change since when a record has been the first.                          *)
LEMMA SinceKept ==
  ASSUME spec' = spec, schedule' = schedule, Records' = Records, NEW r \in Records,
         \A q \in Records : Of(q) = Of(r) => start'[q] = start[q]
  PROVE  FirstSince(r)' = FirstSince(r)
<1> DEFINE previous == {q \in Records : /\ schedule[q].initiator = schedule[r].initiator
                                        /\ schedule[q].sequence = schedule[r].sequence - 1}
           p == CHOOSE q \in previous : TRUE
<1>1. FirstSince(r) = IF previous = {} THEN schedule[r].issue_time
                      ELSE Later(schedule[r].issue_time, start[p])
  BY DEF FirstSince
<1>2. FirstSince(r)' = IF previous = {} THEN schedule[r].issue_time
                       ELSE Later(schedule[r].issue_time, start'[p])
  BY DEF FirstSince, Later
<1>3. previous # {} => p \in Records /\ schedule[p].initiator = schedule[r].initiator
  OBVIOUS
<1>4. previous # {} => start'[p] = start[p]
  BY <1>3 DEF Of
<1> QED BY <1>1, <1>2, <1>4

(* Once its predecessor is served, a record is the first no earlier.       *)
LEMMA SinceAfter ==
  ASSUME Inv, NEW k \in Records, Serves(k), NEW r \in Records, Of(r) = Of(k), First(r)'
  PROVE  FirstSince(r)' >= time /\ FirstSince(r)' \in Nat
<1> DEFINE previous == {q \in Records : /\ schedule[q].initiator = schedule[r].initiator
                                        /\ schedule[q].sequence = schedule[r].sequence - 1}
<1>1. /\ start'[k] = time /\ time \in Nat /\ Started(k)' /\ Records' = Records
      /\ \A q \in Records \ {k} : Started(q)' <=> Started(q)
      /\ \A q : Of(q)' = Of(q)
  BY ServesFacts
<1>2. schedule' = schedule /\ spec' = spec
      /\ \A q \in Records : Of(q) = Of(k) => (Started(q) <=> q < k)
  BY DEF Serves
<1>3. TypeInv
  BY DEF Inv
<1>4. ~Started(r)' /\ \A q \in Records : Of(q) = Of(r) /\ q < r => Started(q)'
  BY <1>1 DEF First
<1>5. /\ k \in Nat /\ r \in Nat /\ schedule[k].sequence \in Nat /\ schedule[r].sequence \in Nat
      /\ schedule[r].issue_time \in Nat
  BY <1>3, RecordFacts
<1>6. r # k /\ ~(r < k)
  BY <1>1, <1>2, <1>4
<1>7. k < r /\ schedule[k].sequence < schedule[r].sequence
  BY <1>3, <1>5, <1>6 DEF TypeInv, ScheduleOK
<1>8. previous # {}
  <2>1. schedule[r].sequence - 1 \in Nat /\ schedule[r].sequence - 1 < schedule[r].sequence
    BY <1>5, <1>7
  <2>2. \E q \in Records : Of(q) = Of(r) /\ schedule[q].sequence = schedule[r].sequence - 1
    BY <1>3, <2>1 DEF TypeInv, ScheduleOK
  <2> QED BY <2>2 DEF Of
<1>9. PICK p \in Records :
        /\ p = CHOOSE q \in previous : TRUE
        /\ Of(p) = Of(r) /\ schedule[p].sequence = schedule[r].sequence - 1
  BY <1>8 DEF Of
<1>10. FirstSince(r)' = Later(schedule[r].issue_time, start'[p])
  BY <1>1, <1>2, <1>8, <1>9 DEF FirstSince, Later
<1>11. p = k
  <2>1. p \in Nat /\ schedule[p].sequence \in Nat
    BY <1>3, <1>9, RecordFacts
  <2>2. p < r
    <3>1. ~(r < p)
      <4>1. r < p => schedule[r].sequence < schedule[p].sequence
        BY <1>3, <1>9 DEF TypeInv, ScheduleOK
      <4> QED BY <1>5, <1>9, <4>1
    <3>2. p # r
      <4>1. schedule[r].sequence - 1 # schedule[r].sequence
        BY <1>5
      <4> QED BY <1>9, <4>1
    <3> QED BY <1>5, <2>1, <3>1, <3>2
  <2>3. Started(p)'
    BY <1>4, <1>9, <2>2
  <2>4. ~(p < k)
    <3>1. p < k => schedule[p].sequence < schedule[k].sequence
      BY <1>3, <1>9 DEF TypeInv, ScheduleOK
    <3> QED BY <1>5, <1>7, <1>9, <3>1
  <2>5. p # k => ~Started(p)'
    BY <1>1, <1>2, <1>9, <2>4
  <2> QED BY <2>3, <2>5
<1> QED BY <1>1, <1>5, <1>10, <1>11 DEF Later

(* Nothing has passed anything at first.                                   *)
LEMMA RoundRobinInit ==
  Init => RoundRobinInv
BY DEF Init, RoundRobinInv, Passes, Started, Records

(* A step that serves nothing keeps it.                                    *)
LEMMA RoundRobinKept ==
  ASSUME Inv, RoundRobinInv, UNCHANGED <<spec, schedule, start, last_rr_initiator>>
  PROVE  RoundRobinInv'
<1>1. Records' = Records
  BY DEF Records
<1>2. /\ \A r : Of(r)' = Of(r) /\ (Started(r)' <=> Started(r))
      /\ \A i : Turn(i)' = Turn(i)
  BY DEF Of, Started, Turn, Rank, PriorityOrder
<1>3. \A r \in Records : FirstSince(r)' = FirstSince(r)
  BY <1>1, SinceKept
<1>4. \A r \in Records : First(r)' <=> First(r)
  BY <1>1, <1>2 DEF First
<1>5. \A r, q \in Records : Passes(q, r)' <=> Passes(q, r)
  BY <1>2, <1>3 DEF Passes
<1> QED BY <1>1, <1>2, <1>4, <1>5 DEF RoundRobinInv

(* Under round robin every initiator with a pending record may be served.  *)
LEMMA RoundRobinReady ==
  ASSUME TypeInv, spec.policy = "round_robin", NEW i
  PROVE  npu_token_ready(i) /\ Turn(i) = RoundTurn(last_rr_initiator, i)
BY CaseFacts, CasesAssumption DEF TypeInv, npu_token_ready, Turn, RoundTurn

(* A service keeps it: whoever waits and is passed was tried after the one *)
(* served, so it had not been passed by it before.                         *)
LEMMA RoundRobinServes ==
  ASSUME Inv, RoundRobinInv, ~Arrived, NEW k \in Records, Serves(k)
  PROVE  RoundRobinInv'
<1>1. TypeInv /\ last_rr_initiator \in Initiators
  BY DEF Inv, TypeInv
<1>2. SUFFICES ASSUME spec.policy = "round_robin"
               PROVE  RoundRobinInv'
  BY DEF RoundRobinInv, Serves
<1>3. /\ Records' = Records /\ schedule' = schedule /\ spec' = spec
      /\ start'[k] = time /\ time \in Nat /\ start[k] = NotStarted
      /\ \A q \in Records \ {k} : start'[q] = start[q]
      /\ Started(k)' /\ \A q \in Records \ {k} : Started(q)' <=> Started(q)
      /\ \A q \in Records : Started(q) => start[q] \in Nat /\ start[q] < time
      /\ \A q : Of(q)' = Of(q)
  BY ServesFacts DEF Serves
<1> DEFINE l == last_rr_initiator
           i == Of(k)
<1>4. i \in Initiators /\ l \in Initiators /\ last_rr_initiator' = i
  BY <1>1, <1>2, RecordFacts DEF Serves, Cursor
<1>5. \A x : Turn(x) = RoundTurn(l, x) /\ Turn(x)' = RoundTurn(i, x)
  <2>1. \A x : Turn(x) = RoundTurn(l, x)
    BY <1>1, <1>2, RoundRobinReady
  <2>2. \A x : Turn(x)' = RoundTurn(i, x)
    BY <1>2, <1>3, <1>4 DEF Turn, RoundTurn
  <2> QED BY <2>1, <2>2
<1>6. i \in Selectable /\ \A j \in Selectable : Turn(i) <= Turn(j)
  BY DEF Serves
<1>7. \A r \in Records : Of(r) \in Initiators
  BY <1>1, RecordFacts
<1> HIDE DEF l, i
<1>8. ASSUME NEW r \in Records, NEW q \in Records, First(r)', Passes(q, r)'
      PROVE  /\ RoundTurn(i, Of(r)) < RoundTurn(i, Of(q))
             /\ \A p \in Records : Of(p) = Of(q) /\ Passes(p, r)' => p = q
  <2>1. /\ Of(q) # Of(r) /\ start'[q] >= FirstSince(r)' /\ Started(q)' /\ ~Started(r)'
        /\ \A p \in Records : Of(p) = Of(r) /\ p < r => Started(p)'
    BY <1>3, <1>8 DEF Passes, First
  <2>2. r # k /\ ~Started(r)
    BY <1>3, <2>1
  <2>3. CASE Of(r) = i
    <3>1. FirstSince(r)' >= time /\ FirstSince(r)' \in Nat
      BY <1>8, <2>3, SinceAfter DEF i
    <3>2. q # k
      BY <2>1, <2>3 DEF i
    <3>3. start'[q] \in Nat /\ start'[q] < time
      BY <1>3, <2>1, <3>2
    <3> QED BY <1>3, <2>1, <3>1, <3>3
  <2>4. CASE Of(r) # i
    <3>1. \A p \in Records : Of(p) = Of(r) => p # k
      BY <2>4 DEF i
    <3>2. FirstSince(r)' = FirstSince(r)
      BY <1>3, <3>1, SinceKept
    <3>3. First(r)
      BY <1>3, <2>1, <2>2, <3>1 DEF First
    <3>4. FirstSince(r) \in Nat /\ FirstSince(r) >= schedule[r].issue_time
          /\ schedule[r].issue_time \in Nat
      BY <1>1, SinceType, RecordFacts
    <3>5. start'[q] \in Nat /\ start'[q] <= time
      BY <1>3, <2>1
    <3>6. schedule[r].issue_time <= time
      BY <1>3, <2>1, <3>2, <3>4, <3>5
    <3>7. Of(r) \in Selectable
      BY <1>1, <1>2, <2>2, <3>6, IssuedIsPending, RoundRobinReady
    <3>8. Turn(i) <= Turn(Of(r))
      BY <1>6, <3>7
    <3>9. ASSUME NEW p \in Records, p # k, Passes(p, r)'
          PROVE  Passes(p, r) /\ Of(p) # i
      <4>1. Passes(p, r)
        <5>1. Of(p) # Of(r) /\ Started(p)' /\ start'[p] >= FirstSince(r)'
          BY <1>3, <3>9 DEF Passes
        <5> QED BY <1>3, <3>2, <3>9, <5>1 DEF Passes
      <4>2. Turn(Of(r)) < Turn(Of(p))
        BY <1>2, <3>3, <4>1 DEF RoundRobinInv
      <4>3. Turn(Of(r)) \in 0..3 /\ Turn(Of(p)) \in 0..3 /\ Turn(i) \in 0..3
        BY <1>4, <1>5, <1>7, RoundTurns
      <4>4. Of(p) # i
        BY <3>8, <4>2, <4>3
      <4> QED BY <4>1, <4>4
    <3>10. CASE q = k
      <4>1. RoundTurn(i, Of(r)) < RoundTurn(i, Of(q))
        BY <1>4, <1>7, <2>4, <3>10, RoundTurns DEF i
      <4>2. ASSUME NEW p \in Records, Of(p) = Of(q), Passes(p, r)', p # k PROVE FALSE
        BY <3>9, <3>10, <4>2 DEF i
      <4> QED BY <3>10, <4>1, <4>2
    <3>11. CASE q # k
      <4>1. Passes(q, r) /\ Of(q) # i
        BY <1>8, <3>9, <3>11
      <4>2. /\ Turn(Of(r)) < Turn(Of(q))
            /\ \A p \in Records : Of(p) = Of(q) /\ Passes(p, r) => p = q
        BY <1>2, <3>3, <4>1 DEF RoundRobinInv
      <4>3. RoundTurn(i, Of(r)) < RoundTurn(i, Of(q))
        <5>1. RoundTurn(l, i) <= RoundTurn(l, Of(r)) /\ RoundTurn(l, Of(r)) < RoundTurn(l, Of(q))
          BY <1>5, <3>8, <4>2
        <5>2. Of(r) \in Initiators \ {i} /\ Of(q) \in Initiators \ {i}
          BY <1>7, <2>4, <4>1
        <5> QED BY <1>4, <5>1, <5>2, RoundTurns
      <4>4. ASSUME NEW p \in Records, Of(p) = Of(q), Passes(p, r)' PROVE p = q
        <5>1. p # k
          BY <4>1, <4>4 DEF i
        <5> QED BY <3>9, <4>2, <4>4, <5>1
      <4> QED BY <4>3, <4>4
    <3> QED BY <3>10, <3>11
  <2> QED BY <2>3, <2>4
<1> QED BY <1>3, <1>5, <1>8 DEF RoundRobinInv

(* Every step keeps it.                                                    *)
LEMMA RoundRobinStep ==
  Inv /\ RoundRobinInv /\ [Next]_vars => RoundRobinInv'
<1> SUFFICES ASSUME Inv, RoundRobinInv, [Next]_vars PROVE RoundRobinInv'
  OBVIOUS
<1>1. CASE Serve
  <2>1. PICK k \in Records : Serves(k) /\ ~Arrived
    BY <1>1, ServeTakesFirst
  <2> QED BY <2>1, RoundRobinServes
<1>2. CASE Enqueue \/ AwaitRecord \/ AwaitToken \/ Finished \/ UNCHANGED vars
  <2>1. UNCHANGED <<spec, schedule, start, last_rr_initiator>>
    BY <1>2 DEF Enqueue, AwaitRecord, AwaitToken, Finished, vars
  <2> QED BY <2>1, RoundRobinKept
<1> QED BY <1>1, <1>2 DEF Next

(* At most one element: at most one.                                       *)
LEMMA AtMostOne ==
  ASSUME NEW S, \A x, y \in S : x = y
  PROVE  Cardinality(S) <= 1
<1>1. CASE S = {}
  BY <1>1, FS_EmptySet
<1>2. CASE S # {}
  <2>1. PICK x : S = {x}
    BY <1>2
  <2> QED BY <2>1, FS_Singleton
<1> QED BY <1>1, <1>2

(* What PolicyRespected says of a step that serves r.                      *)
PassedBy(i, r) == {q \in Records : schedule[q].initiator = i /\ start[q] >= FirstSince(r)}

(* Under round robin an initiator has passed the record served at most     *)
(* once.                                                                   *)
LEMMA RoundRobinServed ==
  ASSUME Inv, RoundRobinInv, spec.policy = "round_robin", NEW r \in Records, Serves(r),
         NEW i \in Initiators \ {schedule[r].initiator}
  PROVE  Cardinality(PassedBy(i, r)) <= 1
<1>1. TypeInv
  BY DEF Inv
<1>2. First(r)
  BY DEF First, Serves
<1>3. ASSUME NEW q \in PassedBy(i, r)
      PROVE  q \in Records /\ Of(q) = i /\ Passes(q, r)
  <2>1. q \in Records /\ Of(q) = i /\ Of(r) # i /\ start[q] >= FirstSince(r)
    BY DEF PassedBy, Of
  <2>2. FirstSince(r) \in Nat /\ start[q] \in Nat \cup {NotStarted}
    BY <1>1, <2>1, SinceType, RecordFacts
  <2>3. start[q] # NotStarted
    BY <2>1, <2>2 DEF NotStarted
  <2> QED BY <2>1, <2>3 DEF Passes, Started
<1>4. \A p, q \in PassedBy(i, r) : p = q
  BY <1>2, <1>3 DEF RoundRobinInv
<1> QED BY <1>4, AtMostOne

(* Under priority what is issued and may be served is not of a higher      *)
(* class: it was pending and was not selected.                             *)
LEMMA PriorityServed ==
  ASSUME Inv, spec.policy # "round_robin", ~Arrived, NEW r \in Records, Serves(r),
         NEW q \in Records, start'[q] = NotStarted, schedule[q].issue_time <= start'[r],
         npu_token_ready(schedule[q].initiator)
  PROVE  Rank(schedule[r].initiator) <= Rank(schedule[q].initiator)
<1>1. start'[r] = time /\ time \in Nat /\ \A x \in Records \ {r} : start'[x] = start[x]
  BY ServesFacts
<1>2. q # r
  BY <1>1 DEF NotStarted
<1>3. ~Started(q) /\ schedule[q].issue_time <= time
  BY <1>1, <1>2 DEF Started
<1>4. Of(q) \in Selectable
  BY <1>3, IssuedIsPending DEF Of
<1>5. Turn(Of(r)) <= Turn(Of(q))
  BY <1>4 DEF Serves
<1> QED BY <1>5 DEF Turn, Of

(***************************************************************************)
(* The policies keep their promise at the time of issue: priority serves   *)
(* no record over an issued one of a higher class, round robin lets each   *)
(* other initiator pass a waiting record at most once.                     *)
(***************************************************************************)
THEOREM PolicyIsRespected == Spec => PolicyRespected
<1>1. Inv /\ RoundRobinInv /\ [Next]_vars =>
        [\A r \in Records : IsServed(r) =>
           IF spec.policy = "round_robin"
             THEN LET since == FirstSince(r)
                      passed(i) == {q \in Records : /\ schedule[q].initiator = i
                                                    /\ start[q] >= since}
                  IN  \A i \in Initiators \ {schedule[r].initiator} :
                        Cardinality(passed(i)) <= 1
             ELSE \A q \in Records :
                    /\ start'[q] = NotStarted
                    /\ schedule[q].issue_time <= start'[r]
                    /\ npu_token_ready(schedule[q].initiator)
                    => Rank(schedule[r].initiator) <= Rank(schedule[q].initiator)]_vars
  <2> SUFFICES ASSUME Inv, RoundRobinInv, Next, NEW r \in Records, IsServed(r)
               PROVE  IF spec.policy = "round_robin"
                        THEN \A i \in Initiators \ {schedule[r].initiator} :
                               Cardinality(PassedBy(i, r)) <= 1
                        ELSE \A q \in Records :
                               /\ start'[q] = NotStarted
                               /\ schedule[q].issue_time <= start'[r]
                               /\ npu_token_ready(schedule[q].initiator)
                               => Rank(schedule[r].initiator) <= Rank(schedule[q].initiator)
    BY DEF PassedBy
  <2>1. Serves(r) /\ ~Arrived
    BY ServedBy
  <2>2. CASE spec.policy = "round_robin"
    BY <2>1, <2>2, RoundRobinServed
  <2>3. CASE spec.policy # "round_robin"
    BY <2>1, <2>3, PriorityServed
  <2> QED BY <2>2, <2>3
<1>2. Spec => []RoundRobinInv
  <2>1. Inv /\ RoundRobinInv /\ [Next]_vars => RoundRobinInv'
    BY RoundRobinStep
  <2> QED BY <2>1, RoundRobinInit, InvHolds, PTL DEF Spec
<1> QED BY <1>1, <1>2, InvHolds, PTL DEF Spec, PolicyRespected

(***************************************************************************)
(* When the loop ends no record is left: everything enqueued is pending or *)
(* served, and nothing is pending.                                         *)
(***************************************************************************)
THEOREM EveryRecordIsServed ==
  Spec => [](AllServed => \A r \in Records : start[r] # NotStarted)
<1>1. Inv => (AllServed => \A r \in Records : start[r] # NotStarted)
  <2> SUFFICES ASSUME Inv, AllServed, NEW r \in Records PROVE Started(r)
    BY DEF Started
  <2>1. r < next_record
    <3>1. next_record \in 1..(Len(schedule) + 1) /\ next_record > Len(schedule)
      BY DEF AllServed, Inv, TypeInv
    <3> QED BY <3>1, RecordFacts DEF Inv
  <2>2. ~\E k \in DOMAIN pending : pending[k] = r
    BY DEF AllServed
  <2> QED BY <2>1, <2>2 DEF Inv, QueueOK
<1> QED BY <1>1, InvHolds, PTL
=============================================================================
