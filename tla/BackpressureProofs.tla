------------------------- MODULE BackpressureProofs -------------------------
(***************************************************************************)
(* Proofs about AT-5, for every set of options: the two lists never hold   *)
(* more than their queues, the server serves one record after another, the *)
(* requests of one initiator in the order it issued them, and none is left *)
(* out.                                                                    *)
(*                                                                         *)
(* First the schedule: the keys of one initiator's records rise with their *)
(* numbers, because its gaps are wider than the jitter and the spread of   *)
(* the bias together, and make_initial_records sorts by them.  Then one    *)
(* visit to a queue, one iteration of the loop, and its invariant.         *)
(***************************************************************************)
EXTENDS BackpressureModel, FiniteSetTheorems, SequenceTheorems, WellFoundedInduction, TLAPS

(* What a profile gives an initiator: gaps of 4 ns and more.               *)
GoodProfile(p) ==
  /\ p.issue_gap \in [Initiators -> Nat] /\ \A i \in Initiators : p.issue_gap[i] >= 40000
  /\ p.burst_every \in [Initiators -> Nat \ {0}]
  /\ p.burst_pause \in [Initiators -> Nat]
  /\ p.service_factor \in [Initiators -> Nat]
  /\ p.accel_tail_penalty \in Nat

(* The profiles of the program are built of such numbers.                  *)
LEMMA ProfileBuilt ==
  ASSUME NEW gaps, NEW e \in Nat \ {0}, NEW pause \in Nat, NEW f, NEW q \in Nat,
         gaps[1] \in Nat, gaps[2] \in Nat, gaps[3] \in Nat,
         gaps[1] >= 4, gaps[2] >= 4, gaps[3] >= 4,
         f[1] \in Nat, f[2] \in Nat, f[3] \in Nat
  PROVE  /\ GoodProfile(Profile(gaps, e, pause, f, q))
         /\ Profile(gaps, e, pause, f, q).issue_gap[0] = 10000 * gaps[1]
<1> DEFINE P == Profile(gaps, e, pause, f, q)
<1>1. /\ P.issue_gap = [i \in Initiators |-> Tick(10 * gaps[i + 1])]
      /\ P.burst_every = [i \in Initiators |-> IF i = 2 THEN e ELSE 1]
      /\ P.burst_pause = [i \in Initiators |-> IF i = 2 THEN Tick(10 * pause) ELSE 0]
      /\ P.service_factor = [i \in Initiators |-> f[i + 1]]
      /\ P.accel_tail_penalty = Tick(10 * q)
  BY DEF Profile
<1> HIDE DEF P
<1>2. Initiators = {0, 1, 2}
  BY DEF Initiators
<1>3. P.issue_gap[0] = 10000 * gaps[1]
  BY <1>1, <1>2 DEF Tick
<1>4. P.issue_gap \in [Initiators -> Nat] /\ \A i \in Initiators : P.issue_gap[i] >= 40000
  BY <1>1, <1>2, SMT DEF Tick
<1>5. P.burst_every \in [Initiators -> Nat \ {0}] /\ P.burst_pause \in [Initiators -> Nat]
  BY <1>1 DEF Tick
<1>6. P.service_factor \in [Initiators -> Nat] /\ P.accel_tail_penalty \in Nat
  BY <1>1, <1>2 DEF Tick
<1> QED BY <1>3, <1>4, <1>5, <1>6 DEF P, GoodProfile

(* So are those of all cases.                                              *)
LEMMA ProfilesGood ==
  ASSUME NEW name \in CaseNames
  PROVE  /\ GoodProfile(profile_for(name))
         /\ name = "strict_priority_helps_cpu" => profile_for(name).issue_gap[0] = 700000
<1>1. CASE name = "strict_priority_helps_cpu"
  <2>1. profile_for(name) = Profile(<<70, 42, 90>>, 4, 28, <<96, 105, 102>>, 8)
    BY <1>1, SMT DEF profile_for, Profiles, CaseNames
  <2> DEFINE gaps == <<70, 42, 90>>
             f == <<96, 105, 102>>
  <2>2. /\ gaps[1] \in Nat /\ gaps[2] \in Nat /\ gaps[3] \in Nat
        /\ gaps[1] >= 4 /\ gaps[2] >= 4 /\ gaps[3] >= 4
        /\ f[1] \in Nat /\ f[2] \in Nat /\ f[3] \in Nat
        /\ gaps[1] = 70
    BY SMT
  <2>3. profile_for(name) = Profile(gaps, 4, 28, f, 8)
    BY <2>1
  <2> HIDE DEF gaps, f
  <2> QED BY <1>1, <2>2, <2>3, ProfileBuilt, SMT
<1>2. CASE name = "strict_priority_starves_dma"
  <2>1. profile_for(name) = Profile(<<56, 24, 80>>, 4, 24, <<94, 110, 102>>, 10)
    BY <1>2, SMT DEF profile_for, Profiles, CaseNames
  <2> DEFINE gaps == <<56, 24, 80>>
             f == <<94, 110, 102>>
  <2>2. /\ gaps[1] \in Nat /\ gaps[2] \in Nat /\ gaps[3] \in Nat
        /\ gaps[1] >= 4 /\ gaps[2] >= 4 /\ gaps[3] >= 4
        /\ f[1] \in Nat /\ f[2] \in Nat /\ f[3] \in Nat
    BY SMT
  <2>3. profile_for(name) = Profile(gaps, 4, 24, f, 10)
    BY <2>1
  <2> HIDE DEF gaps, f
  <2> QED BY <1>2, <2>2, <2>3, ProfileBuilt, SMT
<1>3. CASE name = "downstream_saturation_qos_collapse"
  <2>1. profile_for(name) = Profile(<<11, 7, 10>>, 3, 6, <<100, 108, 108>>, 18)
    BY <1>3, SMT DEF profile_for, Profiles, CaseNames
  <2> DEFINE gaps == <<11, 7, 10>>
             f == <<100, 108, 108>>
  <2>2. /\ gaps[1] \in Nat /\ gaps[2] \in Nat /\ gaps[3] \in Nat
        /\ gaps[1] >= 4 /\ gaps[2] >= 4 /\ gaps[3] >= 4
        /\ f[1] \in Nat /\ f[2] \in Nat /\ f[3] \in Nat
    BY SMT
  <2>3. profile_for(name) = Profile(gaps, 3, 6, f, 18)
    BY <2>1
  <2> HIDE DEF gaps, f
  <2> QED BY <1>3, <2>2, <2>3, ProfileBuilt, SMT
<1>4. CASE name = "small_queue_backpressure"
  <2>1. profile_for(name) = Profile(<<72, 64, 6>>, 6, 220, <<92, 102, 100>>, 6)
    BY <1>4, SMT DEF profile_for, Profiles, CaseNames
  <2> DEFINE gaps == <<72, 64, 6>>
             f == <<92, 102, 100>>
  <2>2. /\ gaps[1] \in Nat /\ gaps[2] \in Nat /\ gaps[3] \in Nat
        /\ gaps[1] >= 4 /\ gaps[2] >= 4 /\ gaps[3] >= 4
        /\ f[1] \in Nat /\ f[2] \in Nat /\ f[3] \in Nat
    BY SMT
  <2>3. profile_for(name) = Profile(gaps, 6, 220, f, 6)
    BY <2>1
  <2> HIDE DEF gaps, f
  <2> QED BY <1>4, <2>2, <2>3, ProfileBuilt, SMT
<1>5. CASE name = "throttled_dma_recovers_sla"
  <2>1. profile_for(name) = Profile(<<45, 12, 60>>, 4, 24, <<92, 108, 100>>, 8)
    BY <1>5, SMT DEF profile_for, Profiles, CaseNames
  <2> DEFINE gaps == <<45, 12, 60>>
             f == <<92, 108, 100>>
  <2>2. /\ gaps[1] \in Nat /\ gaps[2] \in Nat /\ gaps[3] \in Nat
        /\ gaps[1] >= 4 /\ gaps[2] >= 4 /\ gaps[3] >= 4
        /\ f[1] \in Nat /\ f[2] \in Nat /\ f[3] \in Nat
    BY SMT
  <2>3. profile_for(name) = Profile(gaps, 4, 24, f, 8)
    BY <2>1
  <2> HIDE DEF gaps, f
  <2> QED BY <1>5, <2>2, <2>3, ProfileBuilt, SMT
<1>6. CASE name = "bursty_accel_tail_spike"
  <2>1. profile_for(name) = Profile(<<58, 46, 4>>, 8, 240, <<94, 104, 120>>, 42)
    BY <1>6, SMT DEF profile_for, Profiles, CaseNames
  <2> DEFINE gaps == <<58, 46, 4>>
             f == <<94, 104, 120>>
  <2>2. /\ gaps[1] \in Nat /\ gaps[2] \in Nat /\ gaps[3] \in Nat
        /\ gaps[1] >= 4 /\ gaps[2] >= 4 /\ gaps[3] >= 4
        /\ f[1] \in Nat /\ f[2] \in Nat /\ f[3] \in Nat
    BY SMT
  <2>3. profile_for(name) = Profile(gaps, 8, 240, f, 42)
    BY <2>1
  <2> HIDE DEF gaps, f
  <2> QED BY <1>6, <2>2, <2>3, ProfileBuilt, SMT
<1>7. CASE name = "baseline_balanced_rr"
  <2>1. profile_for(name) = Profile(<<140, 130, 160>>, 4, 80, <<92, 100, 96>>, 4)
    BY <1>7, SMT DEF profile_for, Profiles, CaseNames
  <2> DEFINE gaps == <<140, 130, 160>>
             f == <<92, 100, 96>>
  <2>2. /\ gaps[1] \in Nat /\ gaps[2] \in Nat /\ gaps[3] \in Nat
        /\ gaps[1] >= 4 /\ gaps[2] >= 4 /\ gaps[3] >= 4
        /\ f[1] \in Nat /\ f[2] \in Nat /\ f[3] \in Nat
    BY SMT
  <2>3. profile_for(name) = Profile(gaps, 4, 80, f, 4)
    BY <2>1
  <2> HIDE DEF gaps, f
  <2> QED BY <1>7, <2>2, <2>3, ProfileBuilt, SMT
<1> QED BY <1>1, <1>2, <1>3, <1>4, <1>5, <1>6, <1>7 DEF CaseNames

(* A policy only makes gaps and pauses longer.                             *)
LEMMA ShapedGood ==
  ASSUME NEW name \in CaseNames, NEW policy \in Policies
  PROVE  LET p == profile_for(name) IN
         /\ Shaped(p, policy).issue_gap \in [Initiators -> Nat]
         /\ \A i \in Initiators : Shaped(p, policy).issue_gap[i] >= p.issue_gap[i]
         /\ Shaped(p, policy).burst_every = p.burst_every
         /\ Shaped(p, policy).burst_pause \in [Initiators -> Nat]
<1> DEFINE p == profile_for(name)
           percent == GapPercent[policy]
           pause == LongerPause[policy]
           gaps == [i \in Initiators |-> (p.issue_gap[i] * percent[i + 1]) \div 100]
           pauses == [i \in Initiators |-> p.burst_pause[i] + Tick(pause[i + 1])]
<1>0. GoodProfile(p)
  BY ProfilesGood
<1>1. Shaped(p, policy) = [p EXCEPT !.issue_gap = gaps, !.burst_pause = pauses]
  BY Zenon DEF Shaped
<1>2. ASSUME NEW i \in Initiators
      PROVE percent[i + 1] \in {100, 280, 180, 125, 115, 105} /\ pause[i + 1] \in {0, 160, 180}
  <2>1. i \in {0, 1, 2}
    BY DEF Initiators
  <2>2. percent \in {<<100, 280, 100>>, <<100, 180, 125>>, <<100, 115, 105>>, <<100, 100, 100>>}
    BY DEF GapPercent, Policies
  <2>3. pause \in {<<0, 180, 0>>, <<0, 0, 160>>, <<0, 0, 0>>}
    BY DEF LongerPause, Policies
  <2> HIDE DEF percent, pause
  <2> QED BY <2>1, <2>2, <2>3
<1> HIDE DEF percent, pause
<1>3. ASSUME NEW i \in Initiators
      PROVE  /\ (p.issue_gap[i] * percent[i + 1]) \div 100 \in Nat
             /\ (p.issue_gap[i] * percent[i + 1]) \div 100 >= p.issue_gap[i]
             /\ p.burst_pause[i] + Tick(pause[i + 1]) \in Nat
  <2>1. p.issue_gap[i] \in Nat /\ p.burst_pause[i] \in Nat
    BY <1>0 DEF GoodProfile
  <2> HIDE DEF p
  <2> QED BY <1>2, <2>1 DEF Tick
<1>4. /\ gaps \in [Initiators -> Nat] /\ \A i \in Initiators : gaps[i] >= p.issue_gap[i]
      /\ pauses \in [Initiators -> Nat]
  <2> HIDE DEF p
  <2> QED BY <1>3
<1>6. /\ Shaped(p, policy).issue_gap = gaps /\ Shaped(p, policy).burst_pause = pauses
      /\ Shaped(p, policy).burst_every = p.burst_every
  <2>1. PICK a, b, c, d, e : p = Profile(a, b, c, d, e)
    BY SMT DEF profile_for, Profiles, CaseNames
  <2> HIDE DEF p, gaps, pauses
  <2> QED BY <1>1, <2>1 DEF Profile
<1> QED BY <1>4, <1>6

(* What the assumption says of the options of a run.                       *)
LEMMA OptionFacts ==
  ASSUME NEW o \in Options
  PROVE  /\ o.case_name \in CaseNames /\ o.policy \in Policies
         /\ o.num_transactions \in Nat \ {0}
         /\ o.ingress_queue_capacity \in Nat \ {0}
         /\ o.downstream_queue_capacity \in Nat \ {0}
         /\ o.memory_service_latency \in Nat \ {0} /\ o.rate_limited_latency \in Nat \ {0}
<1>1. 1..MaxTransactions \subseteq Nat \ {0}
  BY SMT DEF MaxTransactions
<1> QED BY <1>1, OptionsAssumption

(* Whole quotients do not fall as the dividend grows.                      *)
LEMMA QuotientRises ==
  ASSUME NEW d \in Nat \ {0}, NEW n \in Nat, NEW m \in Nat, n <= m
  PROVE  n \div d \in Nat /\ m \div d \in Nat /\ n \div d <= m \div d
<1>1. n \div d \in Nat /\ m \div d \in Nat
  OBVIOUS
<1>2. d * (n \div d) <= n
  OBVIOUS
<1>3. m < d * (m \div d) + d
  OBVIOUS
<1> DEFINE a == n \div d
           b == m \div d
<1>4. a \in Nat /\ b \in Nat /\ d * a <= n /\ m < d * b + d
  BY <1>1, <1>2, <1>3
<1> HIDE DEF a, b
<1>5. ASSUME a > b PROVE FALSE
  <2>1. a - (b + 1) \in Nat
    BY <1>4, <1>5
  <2>2. d * a = d * b + d + d * (a - (b + 1)) /\ d * (a - (b + 1)) \in Nat
        /\ d * a \in Nat /\ d * b \in Nat
    BY <1>4, <2>1
  <2> QED BY <1>4, <2>2
<1> QED BY <1>1, <1>4, <1>5 DEF a, b

(* The shaped profile of a run.                                            *)
ProfileOf(o) == Shaped(profile_for(o.case_name), o.policy)

(* Its gaps are those of the case or longer.                               *)
LEMMA ProfileFacts ==
  ASSUME NEW o \in Options, NEW i \in Initiators
  PROVE  /\ ProfileOf(o).issue_gap[i] \in Nat /\ ProfileOf(o).issue_gap[i] >= 40000
         /\ (o.case_name = "strict_priority_helps_cpu" /\ i = 0) =>
              ProfileOf(o).issue_gap[i] >= 700000
         /\ ProfileOf(o).burst_every[i] \in Nat \ {0}
         /\ ProfileOf(o).burst_pause[i] \in Nat
<1> DEFINE p == profile_for(o.case_name)
           q == ProfileOf(o)
<1>1. /\ q.issue_gap \in [Initiators -> Nat] /\ q.burst_pause \in [Initiators -> Nat]
      /\ q.issue_gap[i] >= p.issue_gap[i] /\ q.burst_every = p.burst_every
  BY OptionFacts, ShapedGood DEF ProfileOf
<1>2. GoodProfile(p) /\ (o.case_name = "strict_priority_helps_cpu" => p.issue_gap[0] = 700000)
  BY OptionFacts, ProfilesGood
<1> HIDE DEF p, q
<1>3. /\ p.issue_gap[i] \in Nat /\ p.issue_gap[i] >= 40000 /\ p.burst_every[i] \in Nat \ {0}
      /\ q.issue_gap[i] \in Nat /\ q.burst_pause[i] \in Nat
  BY <1>1, <1>2 DEF GoodProfile
<1>4. q.issue_gap[i] >= 40000
  BY <1>1, <1>3
<1>5. ASSUME o.case_name = "strict_priority_helps_cpu", i = 0
      PROVE  q.issue_gap[i] >= 700000
  BY <1>1, <1>2, <1>3, <1>5
<1> QED BY <1>1, <1>3, <1>4, <1>5 DEF q

(* The issue time without the factor of strict_priority_helps_cpu.         *)
raw_time(o, i, n) ==
  n * ProfileOf(o).issue_gap[i] + i * 7500 + ((n + i * 5) % 4) * Tick(3)
    + (IF ProfileOf(o).burst_every[i] > 1
         THEN (n \div ProfileOf(o).burst_every[i]) * ProfileOf(o).burst_pause[i] ELSE 0)

(* Two of one initiator are apart by the gap but for the jitter.           *)
LEMMA RawTimesRise ==
  ASSUME NEW o \in Options, NEW i \in Initiators, NEW n \in Nat, NEW m \in Nat, n < m
  PROVE  /\ raw_time(o, i, n) \in Nat /\ raw_time(o, i, m) \in Nat
         /\ raw_time(o, i, m) >= raw_time(o, i, n) + ProfileOf(o).issue_gap[i] - 9000
<1> DEFINE gap == ProfileOf(o).issue_gap[i]
           every == ProfileOf(o).burst_every[i]
           pause == ProfileOf(o).burst_pause[i]
           pauses(k) == IF every > 1 THEN (k \div every) * pause ELSE 0
           jitter(k) == (k + i * 5) % 4
<1>1. gap \in Nat /\ every \in Nat \ {0} /\ pause \in Nat /\ i \in Nat
  BY ProfileFacts DEF Initiators
<1>2. pauses(n) \in Nat /\ pauses(m) \in Nat /\ pauses(n) <= pauses(m)
  <2> DEFINE a == n \div every
             b == m \div every
  <2>0. every \in Nat \ {0}
    BY <1>1
  <2> HIDE DEF every
  <2>1. a \in Nat /\ b \in Nat /\ a <= b
    BY <2>0, QuotientRises
  <2> HIDE DEF a, b
  <2>2. b - a \in Nat
    BY <2>1
  <2> HIDE DEF every, pause
  <2>3. b * pause = a * pause + (b - a) * pause /\ (b - a) * pause \in Nat /\ a * pause \in Nat
    BY <1>1, <2>1, <2>2
  <2>4. a * pause \in Nat /\ b * pause \in Nat /\ a * pause <= b * pause
    BY <2>3
  <2> QED BY <2>4 DEF a, b
<1>3. jitter(n) \in 0..3 /\ jitter(m) \in 0..3
  <2>1. n + i * 5 \in Int /\ m + i * 5 \in Int
    BY <1>1
  <2> QED BY <2>1
<1>4. \A k : raw_time(o, i, k) = k * gap + i * 7500 + jitter(k) * 3000 + pauses(k)
  BY DEF raw_time, Tick
<1> HIDE DEF gap, every, pause, pauses, jitter
<1>5. m * gap = n * gap + gap + (m - n - 1) * gap /\ (m - n - 1) * gap \in Nat /\ n * gap \in Nat
  <2>1. m - n - 1 \in Nat
    OBVIOUS
  <2> QED BY <1>1, <2>1
<1> DEFINE a == n * gap
           b == m * gap
           x == pauses(n)
           y == pauses(m)
           j == jitter(n)
           l == jitter(m)
<1>6. a \in Nat /\ b \in Nat /\ b >= a + gap
  BY <1>1, <1>5
<1>7. x \in Nat /\ y \in Nat /\ x <= y /\ j \in 0..3 /\ l \in 0..3
  BY <1>2, <1>3
<1>8. raw_time(o, i, n) = a + i * 7500 + j * 3000 + x
  BY <1>4
<1>9. raw_time(o, i, m) = b + i * 7500 + l * 3000 + y
  BY <1>4
<1> HIDE DEF a, b, x, y, j, l
<1>10. /\ a + i * 7500 + j * 3000 + x \in Nat /\ b + i * 7500 + l * 3000 + y \in Nat
       /\ b + i * 7500 + l * 3000 + y >= a + i * 7500 + j * 3000 + x + gap - 9000
  BY <1>1, <1>6, <1>7
<1> QED BY <1>8, <1>9, <1>10 DEF gap

(* The records of an initiator are issued in the order of their numbers,   *)
(* more than 0.8 ns apart.                                                 *)
LEMMA IssueTimesRise ==
  ASSUME NEW o \in Options, NEW i \in Initiators, NEW n \in Nat, NEW m \in Nat, n < m
  PROVE  /\ issue_time_for(o, ProfileOf(o), i, n) \in Nat
         /\ issue_time_for(o, ProfileOf(o), i, m) \in Nat
         /\ issue_time_for(o, ProfileOf(o), i, m) > issue_time_for(o, ProfileOf(o), i, n) + 8000
<1> DEFINE a == raw_time(o, i, n)
           b == raw_time(o, i, m)
           helped == o.case_name = "strict_priority_helps_cpu" /\ i = 0
           gap == ProfileOf(o).issue_gap[i]
<1>1. \A k : issue_time_for(o, ProfileOf(o), i, k)
               = IF helped THEN 23 * (raw_time(o, i, k) \div 25) ELSE raw_time(o, i, k)
  BY DEF issue_time_for, raw_time
<1>2. a \in Nat /\ b \in Nat /\ gap \in Nat /\ b >= a + gap - 9000
  BY RawTimesRise, ProfileFacts
<1>3. gap >= 40000 /\ (helped => gap >= 700000)
  BY ProfileFacts
<1>4. /\ issue_time_for(o, ProfileOf(o), i, n) = IF helped THEN 23 * (a \div 25) ELSE a
      /\ issue_time_for(o, ProfileOf(o), i, m) = IF helped THEN 23 * (b \div 25) ELSE b
  BY <1>1
<1> HIDE DEF a, b, helped, gap
<1>5. CASE helped
  <2>1. gap >= 700000
    BY <1>3, <1>5
  <2>2. /\ 23 * (a \div 25) \in Nat /\ 23 * (b \div 25) \in Nat
        /\ 23 * (b \div 25) > 23 * (a \div 25) + 8000
    BY <1>2, <2>1
  <2> QED BY <1>4, <1>5, <2>2
<1>6. CASE ~helped
  <2>1. b > a + 8000
    BY <1>2, <1>3
  <2> QED BY <1>2, <1>4, <1>6, <2>1
<1> QED BY <1>5, <1>6

(* The bias of a policy spreads by 0.8 ns at most.                         *)
LEMMA BiasBounded ==
  ASSUME NEW policy \in Policies, NEW i \in Initiators, NEW n \in Nat
  PROVE  /\ policy_bias(policy, i, n) \in Int /\ Tick(Bias[policy][i + 1]) \in Int
         /\ Tick(Bias[policy][i + 1]) <= policy_bias(policy, i, n)
         /\ policy_bias(policy, i, n) <= Tick(Bias[policy][i + 1]) + 8000
<1> DEFINE base == Tick(Bias[policy][i + 1])
           spread == [round_robin |-> ((n + i) % 3) * 4000, strict_priority |-> 0,
                      weighted_priority |-> (n % 3) * 3500, throttled_dma |-> 0,
                      backpressure_aware |-> (n % 4) * 2500][policy]
<1>1. policy_bias(policy, i, n) = base + spread
  BY DEF policy_bias
<1>2. i \in {0, 1, 2}
  BY DEF Initiators
<1>3. base \in Int
  <2>1. Bias[policy] \in {<<0, 0, 0>>, <<-180, 320, 50>>, <<-70, 90, 20>>, <<-50, 180, 30>>,
                          <<-40, 160, 60>>}
    BY SMT DEF Bias, Policies
  <2>2. Bias[policy][i + 1] \in Int
    BY <1>2, <2>1, SMT
  <2> QED BY <2>2 DEF Tick
<1>4. spread \in Nat /\ spread <= 8000
  <2>1. n % 3 \in 0..2 /\ n % 4 \in 0..3
    OBVIOUS
  <2>2. (n + i) % 3 \in 0..2
    BY <1>2
  <2> DEFINE x == n % 3
             y == n % 4
             z == (n + i) % 3
             s == [round_robin |-> z * 4000, strict_priority |-> 0,
                   weighted_priority |-> x * 3500, throttled_dma |-> 0,
                   backpressure_aware |-> y * 2500]
  <2>3. x \in 0..2 /\ y \in 0..3 /\ z \in 0..2
    BY <2>1, <2>2
  <2>4. spread = s[policy]
    OBVIOUS
  <2> HIDE DEF x, y, z
  <2>5. s[policy] \in {z * 4000, 0, x * 3500, y * 2500}
    BY SMT DEF Policies
  <2> HIDE DEF s, spread
  <2>6. \A v \in {z * 4000, 0, x * 3500, y * 2500} : v \in Nat /\ v <= 8000
    BY <2>3, SMT
  <2> QED BY <2>4, <2>5, <2>6
<1> HIDE DEF base, spread
<1> QED BY <1>1, <1>3, <1>4 DEF base

(* Hence the keys by which the records are sorted keep the order of each   *)
(* initiator.                                                              *)
LEMMA KeysRise ==
  ASSUME NEW o \in Options, NEW i \in Initiators, NEW n \in Nat, NEW m \in Nat, n < m
  PROVE  issue_time_for(o, ProfileOf(o), i, n) + policy_bias(o.policy, i, n)
           < issue_time_for(o, ProfileOf(o), i, m) + policy_bias(o.policy, i, m)
<1> DEFINE a == issue_time_for(o, ProfileOf(o), i, n)
           b == issue_time_for(o, ProfileOf(o), i, m)
           x == policy_bias(o.policy, i, n)
           y == policy_bias(o.policy, i, m)
           base == Tick(Bias[o.policy][i + 1])
<1>1. a \in Nat /\ b \in Nat /\ b > a + 8000
  BY IssueTimesRise
<1>2. x \in Int /\ y \in Int /\ base \in Int /\ base <= y /\ x <= base + 8000
  BY BiasBounded, OptionFacts
<1> HIDE DEF a, b, x, y, base
<1>3. a + x < b + y
  BY <1>1, <1>2
<1> QED BY <1>3 DEF a, b, x, y

(* What make_initial_records fills in of a record.                         *)
InitialRecord == [txn : Initiators \X Nat, begin_req : Nat, schedule_key : Int]

(* The record of transaction <<i, n>>.                                     *)
record_of(o, i, n) ==
  [txn |-> <<i, n>>, begin_req |-> issue_time_for(o, ProfileOf(o), i, n),
   schedule_key |-> issue_time_for(o, ProfileOf(o), i, n) + policy_bias(o.policy, i, n)]

(* The records are finitely many, each with the numbers of its transaction. *)
LEMMA AllRecords ==
  ASSUME NEW o \in Options
  PROVE  /\ IsFiniteSet(all_records(o))
         /\ all_records(o) \subseteq InitialRecord
         /\ \A r \in all_records(o) : r = record_of(o, r.txn[1], r.txn[2])
<1> DEFINE ns == 0..(o.num_transactions - 1)
           D == Initiators \X ns
           f == [d \in D |-> record_of(o, d[1], d[2])]
<1>1. IsFiniteSet(ns) /\ \A n \in ns : n \in Nat
  <2> DEFINE last == o.num_transactions - 1
  <2>1. 0 \in Int /\ last \in Int
    BY OptionFacts
  <2> HIDE DEF last
  <2>2. IsFiniteSet(0..last)
    BY <2>1, FS_Interval
  <2>3. \A n \in 0..last : n \in Nat
    BY <2>1
  <2> QED BY <2>2, <2>3 DEF last
<1>2. IsFiniteSet(Initiators)
  <2>1. 0 \in Int /\ 2 \in Int
    OBVIOUS
  <2> QED BY <2>1, FS_Interval DEF Initiators
<1> HIDE DEF ns
<1>3. IsFiniteSet(D)
  BY <1>1, <1>2, FS_Product
<1>4. all_records(o) = {record_of(o, i, n) : i \in Initiators, n \in ns}
  BY DEF all_records, Issued, record_of, ProfileOf, ns
<1>5. f \in Surjection(D, all_records(o))
  <2>1. \A d \in D : d[1] \in Initiators /\ d[2] \in ns
    OBVIOUS
  <2>2. f \in [D -> all_records(o)]
    BY <1>4, <2>1
  <2>3. ASSUME NEW r \in all_records(o) PROVE \E d \in D : f[d] = r
    <3>1. PICK i \in Initiators, n \in ns : r = record_of(o, i, n)
      BY <1>4
    <3>2. <<i, n>> \in D /\ f[<<i, n>>] = r
      BY <3>1
    <3> QED BY <3>2
  <2> HIDE DEF f, D
  <2> QED BY <2>2, <2>3 DEF Surjection
<1>6. ASSUME NEW i \in Initiators, NEW n \in ns
      PROVE  /\ record_of(o, i, n) \in InitialRecord
             /\ record_of(o, i, n).txn[1] = i /\ record_of(o, i, n).txn[2] = n
  <2>1. n \in Nat /\ n + 1 \in Nat /\ n < n + 1
    BY <1>1
  <2>2. issue_time_for(o, ProfileOf(o), i, n) \in Nat
    BY <2>1, IssueTimesRise
  <2>3. policy_bias(o.policy, i, n) \in Int
    BY <2>1, BiasBounded, OptionFacts
  <2> DEFINE t == issue_time_for(o, ProfileOf(o), i, n)
             b == policy_bias(o.policy, i, n)
  <2>4. t \in Nat /\ t + b \in Int
    BY <2>2, <2>3
  <2>5. record_of(o, i, n) = [txn |-> <<i, n>>, begin_req |-> t, schedule_key |-> t + b]
    BY DEF record_of
  <2> HIDE DEF t, b
  <2> QED BY <2>1, <2>4, <2>5 DEF InitialRecord
<1>7. all_records(o) \subseteq InitialRecord
  BY <1>4, <1>6
<1>8. ASSUME NEW r \in all_records(o) PROVE r = record_of(o, r.txn[1], r.txn[2])
  <2>1. PICK i \in Initiators, n \in ns : r = record_of(o, i, n)
    BY <1>4
  <2>2. r.txn[1] = i /\ r.txn[2] = n
    BY <1>6, <2>1
  <2> QED BY <2>1, <2>2
<1>9. IsFiniteSet(all_records(o))
  BY <1>3, <1>5, FS_Surjection
<1> QED BY <1>7, <1>8, <1>9

(* No two records are equal in the order of the sort, which is that of the *)
(* numbers among the records of one initiator.                             *)
LEMMA BeforeIsOrder ==
  ASSUME NEW o \in Options
  PROVE  /\ \A a \in all_records(o) : ~Before(a, a)
         /\ \A a, b \in all_records(o) : a = b \/ Before(a, b) \/ Before(b, a)
         /\ \A a, b, d \in all_records(o) : Before(a, b) /\ Before(b, d) => Before(a, d)
         /\ \A a, b \in all_records(o) :
              a.txn[1] = b.txn[1] /\ Before(a, b) => a.txn[2] < b.txn[2]
<1>1. ASSUME NEW a \in all_records(o)
      PROVE  /\ a.txn[1] \in Initiators /\ a.txn[1] \in Int /\ a.txn[2] \in Nat
             /\ a.begin_req \in Int /\ a.schedule_key \in Int
             /\ a = record_of(o, a.txn[1], a.txn[2])
  BY AllRecords DEF InitialRecord, Initiators
<1>2. ASSUME NEW a \in all_records(o), NEW b \in all_records(o), a.txn[1] = b.txn[1]
      PROVE  /\ a.txn[2] < b.txn[2] => a.schedule_key < b.schedule_key
             /\ a.txn[2] = b.txn[2] => a = b
  <2>1. a.txn[2] = b.txn[2] => a = b
    BY <1>1, <1>2
  <2>2. ASSUME a.txn[2] < b.txn[2] PROVE a.schedule_key < b.schedule_key
    <3> DEFINE i == a.txn[1]
               n == a.txn[2]
               m == b.txn[2]
    <3>1. i \in Initiators /\ n \in Nat /\ m \in Nat /\ n < m
      BY <1>1, <2>2
    <3>2. a = record_of(o, i, n) /\ b = record_of(o, i, m)
      BY <1>1, <1>2
    <3> HIDE DEF i, n, m
    <3> QED BY <3>1, <3>2, KeysRise DEF record_of
  <2> QED BY <2>1, <2>2
<1>3. ASSUME NEW a \in all_records(o), NEW b \in all_records(o)
      PROVE  /\ a = b \/ Before(a, b) \/ Before(b, a)
             /\ a.txn[1] = b.txn[1] /\ Before(a, b) => a.txn[2] < b.txn[2]
  <2>1. /\ a.txn[2] \in Int /\ b.txn[2] \in Int /\ a.txn[1] \in Int /\ b.txn[1] \in Int
        /\ a.begin_req \in Int /\ b.begin_req \in Int
        /\ a.schedule_key \in Int /\ b.schedule_key \in Int
    BY <1>1
  <2>2. CASE a.txn[1] = b.txn[1]
    <3>1. /\ a.txn[2] < b.txn[2] => a.schedule_key < b.schedule_key
          /\ b.txn[2] < a.txn[2] => b.schedule_key < a.schedule_key
          /\ a.txn[2] = b.txn[2] => a = b
      BY <1>2, <2>2
    <3> QED BY <2>1, <2>2, <3>1 DEF Before
  <2>3. CASE a.txn[1] # b.txn[1]
    BY <2>1, <2>3 DEF Before
  <2> QED BY <2>2, <2>3
<1>4. ASSUME NEW a \in all_records(o), NEW b \in all_records(o), NEW d \in all_records(o),
             Before(a, b), Before(b, d)
      PROVE  Before(a, d)
  <2>1. /\ a.txn[1] \in Int /\ b.txn[1] \in Int /\ d.txn[1] \in Int
        /\ a.txn[2] \in Int /\ b.txn[2] \in Int /\ d.txn[2] \in Int
        /\ a.begin_req \in Int /\ b.begin_req \in Int /\ d.begin_req \in Int
        /\ a.schedule_key \in Int /\ b.schedule_key \in Int /\ d.schedule_key \in Int
    BY <1>1
  <2> QED BY <1>4, <2>1 DEF Before
<1>5. ASSUME NEW a \in all_records(o) PROVE ~Before(a, a)
  <2>1. a.txn[1] \in Int /\ a.txn[2] \in Int /\ a.begin_req \in Int /\ a.schedule_key \in Int
    BY <1>1
  <2> QED BY <2>1 DEF Before
<1> QED BY <1>3, <1>4, <1>5

(* The number of records before r.                                         *)
rank(o, r) == Cardinality({q \in all_records(o) : Before(q, r)})

(* Ranks rise in the order of the sort.                                    *)
LEMMA RanksRise ==
  ASSUME NEW o \in Options, NEW a \in all_records(o), NEW b \in all_records(o)
  PROVE  /\ rank(o, a) \in 0..(Cardinality(all_records(o)) - 1)
         /\ Before(a, b) <=> rank(o, a) < rank(o, b)
<1> DEFINE R == all_records(o)
           Below(r) == {q \in R : Before(q, r)}
<1>1. IsFiniteSet(R) /\ Cardinality(R) \in Nat
  BY AllRecords, FS_CardinalityType
<1>2. ASSUME NEW r \in R
      PROVE  /\ IsFiniteSet(Below(r)) /\ Cardinality(Below(r)) \in Nat
             /\ r \notin Below(r)
  BY <1>1, FS_Subset, FS_CardinalityType, BeforeIsOrder
<1>3. ASSUME NEW x \in R, NEW y \in R, Before(x, y)
      PROVE  Cardinality(Below(x)) < Cardinality(Below(y))
  <2>1. Below(x) \cup {x} \subseteq Below(y)
    BY <1>3, BeforeIsOrder
  <2>2. Cardinality(Below(x) \cup {x}) = Cardinality(Below(x)) + 1
    BY <1>2, FS_AddElement
  <2>3. Cardinality(Below(x) \cup {x}) <= Cardinality(Below(y))
    BY <1>2, <2>1, FS_Subset
  <2> DEFINE cx == Cardinality(Below(x))
             cy == Cardinality(Below(y))
  <2>4. cx \in Nat /\ cy \in Nat /\ cx + 1 <= cy
    BY <1>2, <2>2, <2>3
  <2> HIDE DEF cx, cy
  <2>5. cx < cy
    BY <2>4
  <2> QED BY <2>5 DEF cx, cy
<1>4. rank(o, a) \in 0..(Cardinality(R) - 1)
  <2>1. Below(a) \cup {a} \subseteq R
    OBVIOUS
  <2>2. Cardinality(Below(a) \cup {a}) = Cardinality(Below(a)) + 1
    BY <1>2, FS_AddElement
  <2>3. Cardinality(Below(a) \cup {a}) <= Cardinality(R)
    BY <1>1, <2>1, FS_Subset
  <2> DEFINE ca == Cardinality(Below(a))
             cr == Cardinality(R)
  <2>4. ca \in Nat /\ cr \in Nat /\ ca + 1 <= cr
    BY <1>1, <1>2, <2>2, <2>3
  <2>5. rank(o, a) = ca
    BY DEF rank
  <2> HIDE DEF ca, cr
  <2>6. ca \in 0..(cr - 1)
    BY <2>4
  <2> QED BY <2>5, <2>6 DEF cr
<1> DEFINE ra == Cardinality(Below(a))
           rb == Cardinality(Below(b))
<1>5. rank(o, a) = ra /\ rank(o, b) = rb /\ ra \in Nat /\ rb \in Nat
  BY <1>2 DEF rank
<1>6. /\ Before(a, b) => ra < rb
      /\ Before(b, a) => rb < ra
      /\ a = b => ra = rb
  BY <1>3
<1>7. a = b \/ Before(a, b) \/ Before(b, a)
  BY BeforeIsOrder
<1> HIDE DEF R, Below, ra, rb
<1>8. Before(a, b) <=> ra < rb
  BY <1>5, <1>6, <1>7
<1> QED BY <1>4, <1>5, <1>8 DEF R

(* So the ranks of the records are the places of the schedule.             *)
LEMMA Sorted ==
  ASSUME NEW o \in Options, NEW s, s = make_initial_records(o)
  PROVE  /\ s \in Seq(all_records(o))
         /\ \A j, k \in DOMAIN s : j < k => Before(s[j], s[k])
         /\ \A r \in all_records(o) : \E k \in DOMAIN s : s[k] = r
<1> DEFINE R == all_records(o)
           n == Cardinality(R)
           f == [r \in R |-> rank(o, r)]
           ranked == {[rank |-> rank(o, r), record |-> r] : r \in R}
<1>1. IsFiniteSet(R) /\ n \in Nat
  BY AllRecords, FS_CardinalityType
<1>2. f \in Surjection(R, 0..(n - 1))
  <2>1. f \in [R -> 0..(n - 1)]
    BY RanksRise
  <2>2. \A a, b \in R : f[a] = f[b] => a = b
    <3>1. ASSUME NEW a \in R, NEW b \in R, f[a] = f[b] PROVE a = b
      <4>1. rank(o, a) = rank(o, b) /\ rank(o, a) \in Int
        BY <3>1, RanksRise
      <4>2. ~Before(a, b) /\ ~Before(b, a)
        BY <4>1, RanksRise
      <4> QED BY <4>2, BeforeIsOrder
    <3> QED BY <3>1
  <2>3. f \in Injection(R, 0..(n - 1))
    BY <2>1, <2>2 DEF Injection, IsInjective
  <2>4. IsFiniteSet(0..(n - 1)) /\ Cardinality(0..(n - 1)) = n
    BY <1>1, FS_Interval
  <2> HIDE DEF f, n
  <2> QED BY <2>3, <2>4, FS_Injection DEF n
<1>3. s = [k \in 1..n |-> (CHOOSE x \in ranked : x.rank = k - 1).record]
  BY DEF make_initial_records, Ranked, rank
<1>4. ASSUME NEW k \in 1..n
      PROVE  s[k] \in R /\ rank(o, s[k]) = k - 1
  <2>1. k - 1 \in 0..(n - 1)
    BY <1>1
  <2>2. PICK r \in R : f[r] = k - 1
    BY <1>2, <2>1 DEF Surjection
  <2> DEFINE x == [rank |-> rank(o, r), record |-> r]
             y == CHOOSE z \in ranked : z.rank = k - 1
  <2>3. x \in ranked /\ x.rank = k - 1
    BY <2>2
  <2>4. y \in ranked /\ y.rank = k - 1
    BY <2>3
  <2>5. PICK q \in R : y = [rank |-> rank(o, q), record |-> q]
    BY <2>4
  <2>6. s[k] = y.record
    BY <1>3
  <2> HIDE DEF y
  <2>7. y.record = q /\ y.rank = rank(o, q)
    BY <2>5
  <2> QED BY <2>4, <2>6, <2>7
<1>5. s \in Seq(R) /\ DOMAIN s = 1..n
  <2>1. DOMAIN s = 1..n /\ s = [k \in 1..n |-> s[k]]
    BY <1>3
  <2> HIDE DEF n
  <2> QED BY <1>1, <1>4, <2>1
<1>6. ASSUME NEW j \in DOMAIN s, NEW k \in DOMAIN s, j < k
      PROVE  Before(s[j], s[k])
  <2>1. j \in 1..n /\ k \in 1..n
    BY <1>5
  <2>2. /\ s[j] \in R /\ rank(o, s[j]) = j - 1
        /\ s[k] \in R /\ rank(o, s[k]) = k - 1
    BY <1>4, <2>1
  <2>3. j - 1 < k - 1
    BY <1>6, <2>1
  <2> QED BY <2>2, <2>3, RanksRise
<1>7. ASSUME NEW r \in R PROVE \E k \in DOMAIN s : s[k] = r
  <2>1. rank(o, r) \in 0..(n - 1)
    BY RanksRise
  <2>2. rank(o, r) + 1 \in 1..n /\ (rank(o, r) + 1) - 1 = rank(o, r)
    BY <1>1, <2>1
  <2> DEFINE k == rank(o, r) + 1
  <2>3. s[k] \in R /\ rank(o, s[k]) = rank(o, r)
    BY <1>4, <2>2
  <2>4. ~Before(s[k], r) /\ ~Before(r, s[k])
    <3>1. rank(o, r) \in Int
      BY <2>1
    <3> QED BY <2>3, <3>1, RanksRise
  <2>5. s[k] = r
    BY <2>3, <2>4, BeforeIsOrder
  <2> QED BY <1>5, <2>2, <2>5
<1> QED BY <1>5, <1>6, <1>7

(* A set of naturals that is not empty has a least element.                *)
LEMMA LeastElement ==
  ASSUME NEW S \in SUBSET Nat, S # {}
  PROVE  \E n \in S : \A m \in S : n <= m
<1> DEFINE Less == OpToRel(<, Nat)
<1>1. \E n \in S : \A m \in S : ~(<<m, n>> \in Less)
  BY NatLessThanWellFounded, WFMin
<1>2. \A n, m \in Nat : <<m, n>> \in Less <=> m < n
  BY DEF OpToRel
<1> HIDE DEF Less
<1>3. PICK n \in S : \A m \in S : ~(<<m, n>> \in Less)
  BY <1>1
<1>4. \A m \in S : m \in Nat /\ n \in Nat /\ ~(m < n)
  BY <1>2, <1>3
<1>5. \A m \in S : n <= m
  BY <1>4
<1> QED BY <1>5

(* A list of end times that holds no more than its queue does.             *)
ListOf(times, capacity) ==
  /\ IsFiniteSet(times)
  /\ \A e \in times : e.until \in Nat
  /\ Cardinality(times) <= capacity

(* Completed entries leave a list; none is added.                          *)
LEMMA Removed ==
  ASSUME NEW times, NEW capacity \in Nat, ListOf(times, capacity), NEW time
  PROVE  /\ remove_completed(times, time) \subseteq times
         /\ ListOf(remove_completed(times, time), capacity)
         /\ \A e \in remove_completed(times, time) : e.until > time
<1> DEFINE kept == remove_completed(times, time)
<1>1. kept \subseteq times /\ \A e \in kept : e.until > time
  BY DEF remove_completed
<1> HIDE DEF kept
<1>2. IsFiniteSet(kept) /\ Cardinality(kept) <= Cardinality(times)
  BY <1>1, FS_Subset DEF ListOf
<1>3. Cardinality(kept) \in Nat /\ Cardinality(times) \in Nat
  BY <1>2, FS_CardinalityType DEF ListOf
<1>4. Cardinality(kept) <= capacity
  BY <1>2, <1>3 DEF ListOf
<1> QED BY <1>1, <1>2, <1>4 DEF ListOf, kept

(* What a queue of at least one place does with a record that arrives: it  *)
(* enters no earlier than it arrived, was told the queue is full exactly   *)
(* when every place was taken, and leaves one place free behind it.        *)
LEMMA EnterFacts ==
  ASSUME NEW times, NEW capacity \in Nat \ {0}, ListOf(times, capacity),
         NEW candidate \in Nat, NEW e, e = Enter(times, capacity, candidate)
  PROVE  /\ e.at \in Nat /\ candidate <= e.at
         /\ e.depth \in Nat /\ e.depth <= capacity
         /\ e.full \in BOOLEAN /\ (e.full <=> e.depth = capacity)
         /\ e.times \subseteq times /\ ListOf(e.times, capacity - 1)
         /\ \A x \in e.times : x.until > e.at
<1> DEFINE waiting == remove_completed(times, candidate)
           depth   == Cardinality(waiting)
           first   == earliest_time(waiting)
           full    == depth >= capacity
           entry   == IF full THEN Later(candidate, first) ELSE candidate
           kept    == remove_completed(waiting, entry)
<1>1. /\ e.full = full /\ e.depth = depth /\ e.at = entry /\ e.times = kept
  BY DEF Enter, Waited, Entered, EntryTime
<1>2. /\ waiting \subseteq times /\ ListOf(waiting, capacity)
      /\ \A x \in waiting : x.until \in Nat /\ x.until > candidate
  BY Removed DEF ListOf
<1> HIDE DEF waiting
<1>3. depth \in Nat /\ depth <= capacity
  BY <1>2, FS_CardinalityType DEF ListOf
<1>4. full => /\ first \in Nat
              /\ \E x \in waiting : x.until = first
  <2>1. SUFFICES ASSUME full
                 PROVE  first \in Nat /\ \E x \in waiting : x.until = first
    OBVIOUS
  <2> DEFINE untils == {x.until : x \in waiting}
  <2>2. waiting # {}
    <3>1. waiting = {} => depth = 0
      BY FS_EmptySet
    <3> HIDE DEF depth
    <3> QED BY <1>3, <2>1, <3>1
  <2>3. untils \in SUBSET Nat /\ untils # {}
    BY <1>2, <2>2
  <2>4. \E n \in untils : \A m \in untils : n <= m
    <3> HIDE DEF untils
    <3> QED BY <2>3, LeastElement
  <2>5. \E t \in untils : \A x \in waiting : t <= x.until
    BY <2>4
  <2>6. first \in untils
    BY <2>5 DEF earliest_time
  <2> QED BY <2>3, <2>6
<1> HIDE DEF first
<1>5. entry \in Nat /\ candidate <= entry /\ (full => first <= entry)
  <2> HIDE DEF full
  <2> QED BY <1>4 DEF Later
<1> HIDE DEF entry
<1>6. /\ kept \subseteq waiting /\ ListOf(kept, capacity)
      /\ \A x \in kept : x.until \in Nat /\ x.until > entry
  BY <1>2, Removed DEF ListOf
<1> HIDE DEF kept
<1>7. IsFiniteSet(kept) /\ Cardinality(kept) \in Nat /\ Cardinality(kept) <= depth
  BY <1>2, <1>6, FS_Subset, FS_CardinalityType DEF ListOf
<1>8. ASSUME full PROVE Cardinality(kept) < depth
  <2>1. PICK x \in waiting : x.until = first
    BY <1>4, <1>8
  <2>2. first \in Nat /\ first <= entry
    BY <1>4, <1>5, <1>8
  <2>3. x \notin kept
    <3>1. x \in kept => first > entry
      BY <1>6, <2>1
    <3> QED BY <1>5, <2>2, <3>1
  <2>4. kept # waiting
    BY <2>1, <2>3
  <2> QED BY <1>2, <1>6, <1>7, <2>4, FS_Subset, FS_CardinalityType DEF ListOf
<1> DEFINE left == Cardinality(kept)
<1>9. left <= capacity - 1
  <2>1. left \in Nat /\ left <= depth /\ (full => left < depth)
    BY <1>7, <1>8
  <2> HIDE DEF left, depth
  <2> QED BY <1>3, <2>1
<1>10. (depth >= capacity) \in BOOLEAN /\ (depth >= capacity <=> depth = capacity)
  <2> HIDE DEF depth
  <2> QED BY <1>3
<1>11. ListOf(kept, capacity - 1)
  BY <1>6, <1>7, <1>9 DEF ListOf
<1>12. kept \subseteq times
  BY <1>2, <1>6
<1> HIDE DEF depth
<1>13. e.depth \in Nat /\ e.depth <= capacity
  BY <1>1, <1>3
<1>14. e.full \in BOOLEAN /\ (e.full <=> e.depth = capacity)
  BY <1>1, <1>10
<1>15. e.at \in Nat /\ candidate <= e.at
  BY <1>1, <1>5
<1>16. \A x \in e.times : x.until > e.at
  BY <1>1, <1>6
<1> QED BY <1>1, <1>11, <1>12, <1>13, <1>14, <1>15, <1>16

(* A record that takes the free place fills the list at most.              *)
LEMMA Pushed ==
  ASSUME NEW times, NEW capacity \in Nat \ {0}, ListOf(times, capacity - 1),
         NEW txn, NEW until \in Nat
  PROVE  ListOf(push_back(times, txn, until), capacity)
<1> DEFINE e == [txn |-> txn, until |-> until]
           more == times \cup {e}
<1>1. push_back(times, txn, until) = more
  BY DEF push_back
<1>2. IsFiniteSet(times) /\ Cardinality(times) \in Nat /\ Cardinality(times) <= capacity - 1
  BY FS_CardinalityType DEF ListOf
<1>3. e.until = until
  OBVIOUS
<1> HIDE DEF e
<1>4. /\ IsFiniteSet(more)
      /\ Cardinality(more) = Cardinality(times) \/ Cardinality(more) = Cardinality(times) + 1
  BY <1>2, FS_AddElement
<1>5. Cardinality(more) <= capacity
  <2> DEFINE a == Cardinality(more)
             b == Cardinality(times)
  <2>1. b \in Nat /\ b <= capacity - 1 /\ (a = b \/ a = b + 1)
    BY <1>2, <1>4
  <2> HIDE DEF a, b
  <2>2. a <= capacity
    BY <2>1
  <2> QED BY <2>2 DEF a
<1>6. \A x \in more : x.until \in Nat
  BY <1>3 DEF ListOf
<1> QED BY <1>1, <1>4, <1>5, <1>6 DEF ListOf

(* Arbitration takes time.                                                 *)
LEMMA ArbitrationFacts ==
  ASSUME NEW policy, NEW i \in Initiators
  PROVE  arbitration_delay(policy, i) \in Nat
<1>1. i = 0 \/ i = 1 \/ i = 2
  BY DEF Initiators
<1>2. CASE policy = "strict_priority"
  BY <1>1, <1>2, SMT DEF arbitration_delay, Tick
<1>3. CASE policy = "backpressure_aware"
  BY <1>1, <1>3, SMT DEF arbitration_delay, Tick
<1>4. CASE policy # "strict_priority" /\ policy # "backpressure_aware"
  BY <1>1, <1>4, SMT DEF arbitration_delay, Tick
<1> QED BY <1>2, <1>3, <1>4

(* So does the service, or nothing less than no time.                      *)
LEMMA ServiceFacts ==
  ASSUME NEW o \in Options, NEW i \in Initiators, NEW n \in Nat
  PROVE  service_time_for(o, profile_for(o.case_name), i, n) \in Nat
<1> DEFINE p == profile_for(o.case_name)
           slowest == IF o.memory_service_latency < o.rate_limited_latency
                        THEN o.rate_limited_latency ELSE o.memory_service_latency
           slow == o.case_name = "bursty_accel_tail_spike" /\ i = 2 /\ n % 8 >= 5
           tail == IF slow THEN p.accel_tail_penalty ELSE 0
           work == slowest * p.service_factor[i]
           time == work \div 100 + tail
           saved == o.policy = "backpressure_aware" /\ i # 0
<1>1. GoodProfile(p)
  BY OptionFacts, ProfilesGood
<1>2. service_time_for(o, p, i, n) = IF saved THEN (49 * time) \div 50 ELSE time
  BY DEF service_time_for
<1>3. slowest \in Nat
  BY OptionFacts
<1>4. p.service_factor[i] \in Nat /\ p.accel_tail_penalty \in Nat
  BY <1>1 DEF GoodProfile
<1> HIDE DEF p, slow, saved, slowest
<1>5. tail \in Nat
  BY <1>4
<1> HIDE DEF tail
<1> DEFINE factor == p.service_factor[i]
<1>6. factor \in Nat /\ work = slowest * factor
  BY <1>4
<1> HIDE DEF factor
<1>7. work \in Nat
  <2>1. slowest * factor \in Nat
    BY <1>3, <1>6
  <2> QED BY <1>6, <2>1
<1> HIDE DEF work
<1>8. work \div 100 \in Nat
  BY <1>7, SMT
<1>9. time \in Nat
  BY <1>5, <1>8
<1> HIDE DEF time
<1>10. (49 * time) \div 50 \in Nat
  BY <1>9, SMT
<1> QED BY <1>2, <1>9, <1>10 DEF p

(* What the loop fills in.                                                 *)
Outcome ==
  [txn : Initiators \X Nat, begin_req : Nat,
   ingress_enqueue : Nat, ingress_full : BOOLEAN, ingress_depth : Nat,
   downstream_enqueue : Nat, downstream_full : BOOLEAN, downstream_depth : Nat,
   service_begin : Nat, service_end : Nat, observed_service_time : Nat, end_resp : Nat,
   stall : Nat, blocked : Nat]

(* What the trace says of a record's visit to the queues.                  *)
DepthsOK(o, r) ==
  /\ r.ingress_depth <= o.ingress_queue_capacity
  /\ r.ingress_full <=> r.ingress_depth = o.ingress_queue_capacity
  /\ r.downstream_depth <= o.downstream_queue_capacity

(* The times of a record follow each other, and the stall is the time from *)
(* its arrival to its service, less the step into the downstream queue.    *)
TimesOK(o, r) ==
  /\ r.begin_req + arbitration_delay(o.policy, r.txn[1]) <= r.ingress_enqueue
  /\ r.ingress_enqueue + Tick(10) <= r.downstream_enqueue
  /\ r.downstream_enqueue <= r.service_begin
  /\ r.service_end = r.service_begin + r.observed_service_time
  /\ r.end_resp = r.service_end + Tick(20)
  /\ r.blocked + r.begin_req + Tick(10) = r.service_begin

(* The lists and the server, in a record as Process takes and returns them.*)
ServerOK(o, s) ==
  /\ ListOf(s.ingress_release_times, o.ingress_queue_capacity)
  /\ ListOf(s.downstream_completion_times, o.downstream_queue_capacity)
  /\ s.next_service_available \in Nat

(* One iteration keeps the lists within their queues, and serves no record *)
(* before the ones it has served.                                          *)
LEMMA ProcessFacts ==
  ASSUME NEW o \in Options, NEW s, ServerOK(o, s), NEW q \in all_records(o),
         NEW done, done = Process(o, s, q)
  PROVE  /\ ServerOK(o, done.server)
         /\ done.record \in Outcome
         /\ done.record.txn = q.txn /\ done.record.begin_req = q.begin_req
         /\ DepthsOK(o, done.record) /\ TimesOK(o, done.record)
         /\ s.next_service_available <= done.record.service_begin
         /\ done.server.next_service_available = done.record.service_end
<1> DEFINE i == q.txn[1]
           delay == arbitration_delay(o.policy, i)
           arrival == q.begin_req + delay
           ing == Enter(s.ingress_release_times, o.ingress_queue_capacity, arrival)
           cand == ing.at + Tick(10)
           down == Enter(s.downstream_completion_times, o.downstream_queue_capacity, cand)
           begin == ServiceBegin(down.at, s.next_service_available)
           service == service_time_for(o, profile_for(o.case_name), i, q.txn[2])
           end == begin + service
           stall == Stall(arrival, ing.at, down.at, begin)
           ilist == push_back(ing.times, q.txn, down.at)
           dlist == push_back(down.times, q.txn, end)
           r == done.record
<1>1. done =
        [server |-> [ingress_release_times |-> ilist, downstream_completion_times |-> dlist,
                     next_service_available |-> end],
         record |->
           [txn |-> q.txn, begin_req |-> q.begin_req,
            ingress_enqueue |-> ing.at, ingress_full |-> ing.full, ingress_depth |-> ing.depth,
            downstream_enqueue |-> down.at, downstream_full |-> down.full,
            downstream_depth |-> down.depth,
            service_begin |-> begin, service_end |-> end,
            observed_service_time |-> service, end_resp |-> end + Tick(20),
            stall |-> stall, blocked |-> stall + delay]]
  BY DEF Process, EnterIngress, EnterDownstream, EnterServer, Serve, Served
<1>2. /\ q.txn \in Initiators \X Nat /\ i \in Initiators /\ q.txn[2] \in Nat
      /\ q.begin_req \in Nat
  BY AllRecords DEF InitialRecord
<1>3. delay \in Nat
  BY <1>2, ArbitrationFacts
<1>4. service \in Nat
  BY <1>2, ServiceFacts
<1> HIDE DEF delay, service
<1>5. arrival \in Nat /\ arrival = q.begin_req + delay
  BY <1>2, <1>3
<1>6. o.ingress_queue_capacity \in Nat \ {0} /\ o.downstream_queue_capacity \in Nat \ {0}
  BY OptionFacts
<1> HIDE DEF arrival
<1>7. /\ ing.at \in Nat /\ arrival <= ing.at
      /\ ing.depth \in Nat /\ ing.depth <= o.ingress_queue_capacity
      /\ ing.full \in BOOLEAN /\ (ing.full <=> ing.depth = o.ingress_queue_capacity)
      /\ ListOf(ing.times, o.ingress_queue_capacity - 1)
  BY <1>5, <1>6, EnterFacts DEF ServerOK
<1> HIDE DEF ing
<1>8. cand \in Nat /\ cand = ing.at + 10000
  BY <1>7, SMT DEF Tick
<1> HIDE DEF cand
<1>9. /\ down.at \in Nat /\ cand <= down.at
      /\ down.depth \in Nat /\ down.depth <= o.downstream_queue_capacity
      /\ down.full \in BOOLEAN
      /\ ListOf(down.times, o.downstream_queue_capacity - 1)
  BY <1>6, <1>8, EnterFacts DEF ServerOK
<1> HIDE DEF down
<1>10. begin \in Nat /\ down.at <= begin /\ s.next_service_available <= begin
  BY <1>9 DEF ServiceBegin, Later, ServerOK
<1>11. stall = (ing.at - arrival) + (down.at - ing.at - 10000) + (begin - down.at)
  BY SMT DEF Stall, Tick
<1> HIDE DEF begin, stall
<1>12. end \in Nat /\ end = begin + service /\ end + Tick(20) \in Nat
  BY <1>4, <1>10, SMT DEF Tick
<1> HIDE DEF end
<1>13. stall \in Nat /\ stall + delay \in Nat /\ stall + delay + q.begin_req + 10000 = begin
  <2> DEFINE a == ing.at
             b == down.at
             t == q.begin_req
  <2>1. a \in Nat /\ b \in Nat /\ t \in Nat /\ arrival = t + delay /\ arrival <= a
        /\ a + 10000 <= b /\ b <= begin /\ begin \in Nat /\ delay \in Nat
        /\ stall = (a - arrival) + (b - a - 10000) + (begin - b)
    BY <1>2, <1>3, <1>5, <1>7, <1>8, <1>9, <1>10, <1>11, SMT
  <2> HIDE DEF a, b, t
  <2>2. stall \in Nat /\ stall + delay \in Nat /\ stall + delay + t + 10000 = begin
    BY <2>1, SMT
  <2> QED BY <2>2 DEF t
<1>14. ListOf(ilist, o.ingress_queue_capacity)
  BY <1>6, <1>7, <1>9, Pushed
<1>15. ListOf(dlist, o.downstream_queue_capacity)
  BY <1>6, <1>9, <1>12, Pushed
<1> HIDE DEF ilist, dlist
<1>16. ServerOK(o, done.server)
  BY <1>1, <1>12, <1>14, <1>15 DEF ServerOK
<1>17. /\ r.txn = q.txn /\ r.begin_req = q.begin_req
       /\ r.ingress_enqueue = ing.at /\ r.ingress_full = ing.full
       /\ r.ingress_depth = ing.depth /\ r.downstream_enqueue = down.at
       /\ r.downstream_depth = down.depth
       /\ r.service_begin = begin /\ r.service_end = end
       /\ r.observed_service_time = service /\ r.end_resp = end + Tick(20)
       /\ r.stall = stall /\ r.blocked = stall + delay
       /\ done.server.next_service_available = end
  BY <1>1
<1> DEFINE response == end + Tick(20)
           blocked == stall + delay
<1> HIDE DEF response, blocked, i
<1>18. r \in Outcome
  <2>1. response \in Nat /\ blocked \in Nat
    BY <1>12, <1>13 DEF response, blocked
  <2>2. done.record =
           [txn |-> q.txn, begin_req |-> q.begin_req,
            ingress_enqueue |-> ing.at, ingress_full |-> ing.full, ingress_depth |-> ing.depth,
            downstream_enqueue |-> down.at, downstream_full |-> down.full,
            downstream_depth |-> down.depth,
            service_begin |-> begin, service_end |-> end,
            observed_service_time |-> service, end_resp |-> response,
            stall |-> stall, blocked |-> blocked]
    BY <1>1 DEF response, blocked
  <2> QED BY <1>2, <1>4, <1>7, <1>9, <1>10, <1>12, <1>13, <2>1, <2>2 DEF Outcome
<1> HIDE DEF r
<1>19. DepthsOK(o, r)
  BY <1>7, <1>9, <1>17 DEF DepthsOK
<1>20. TimesOK(o, r)
  <2>1. r.begin_req + arbitration_delay(o.policy, r.txn[1]) = arrival
    BY <1>5, <1>17 DEF delay, i
  <2>2. ing.at + 10000 <= down.at /\ Tick(10) = 10000
    BY <1>8, <1>9, SMT DEF Tick
  <2>3. r.blocked + r.begin_req + Tick(10) = begin
    BY <1>13, <1>17, <2>2, SMT
  <2> QED BY <1>7, <1>10, <1>12, <1>17, <2>1, <2>2, <2>3 DEF TimesOK
<1> QED BY <1>10, <1>16, <1>17, <1>18, <1>19, <1>20 DEF r

(* The schedule before the first record.                                   *)
WholeSchedule == make_initial_records(opt)

(* The loop always has records, lists and a server of the right kind.      *)
TypeInv ==
  /\ opt \in Options
  /\ schedule \in Seq(all_records(opt))
  /\ records \in Seq(Outcome)
  /\ ServerOK(opt, Server)

(* The processed records are the first of the schedule, the others are     *)
(* still in it.                                                            *)
ScheduleOK ==
  /\ Len(records) + Len(schedule) = Len(WholeSchedule)
  /\ \A k \in DOMAIN schedule : schedule[k] = WholeSchedule[Len(records) + k]
  /\ \A k \in DOMAIN records :
       records[k].txn = WholeSchedule[k].txn /\ records[k].begin_req = WholeSchedule[k].begin_req

(* The server serves one record after another.                             *)
ServedOK ==
  /\ \A k \in DOMAIN records :
       /\ records[k].service_end <= next_service_available
       /\ DepthsOK(opt, records[k]) /\ TimesOK(opt, records[k])
  /\ \A k, l \in DOMAIN records : k < l => records[k].service_end <= records[l].service_begin

(* The invariant of the loop.                                              *)
Inv == TypeInv /\ ScheduleOK /\ ServedOK

(* It holds when run_backpressure_model enters it.                         *)
LEMMA InitInv == Init => Inv
<1> SUFFICES ASSUME Init PROVE Inv
  OBVIOUS
<1> USE DEF Init
<1>1. opt \in Options /\ schedule = WholeSchedule /\ records = <<>>
  BY DEF WholeSchedule
<1>2. /\ Server.ingress_release_times = {} /\ Server.downstream_completion_times = {}
      /\ Server.next_service_available = 0
  BY DEF Server, Idle
<1>3. WholeSchedule \in Seq(all_records(opt))
  BY <1>1, Sorted DEF WholeSchedule
<1>4. ListOf({}, opt.ingress_queue_capacity) /\ ListOf({}, opt.downstream_queue_capacity)
  <2>1. IsFiniteSet({}) /\ Cardinality({}) = 0
    BY FS_EmptySet
  <2> QED BY <1>1, <2>1, OptionFacts DEF ListOf
<1>5. ServerOK(opt, Server)
  BY <1>2, <1>4 DEF ServerOK
<1>6. TypeInv
  BY <1>1, <1>3, <1>5 DEF TypeInv
<1>7. ScheduleOK
  <2> DEFINE whole == WholeSchedule
  <2>1. whole \in Seq(all_records(opt)) /\ schedule = whole
    BY <1>1, <1>3
  <2>2. Len(records) = 0 /\ DOMAIN records = {}
    BY <1>1
  <2> HIDE DEF whole
  <2>3. \A k \in DOMAIN schedule : schedule[k] = whole[0 + k]
    BY <2>1
  <2>4. 0 + Len(schedule) = Len(whole)
    BY <2>1
  <2> QED BY <2>2, <2>3, <2>4 DEF ScheduleOK, whole
<1>8. ServedOK
  BY <1>1 DEF ServedOK
<1> QED BY <1>6, <1>7, <1>8 DEF Inv

(* Every iteration keeps it.                                               *)
LEMMA StepInv == Inv /\ [Next]_vars => Inv'
<1> SUFFICES ASSUME Inv, [Next]_vars PROVE Inv'
  OBVIOUS
<1>1. CASE UNCHANGED vars
  <2>1. /\ UNCHANGED <<opt, schedule, records, ingress_release_times,
                       downstream_completion_times, next_service_available>>
    BY <1>1 DEF vars, model
  <2> QED BY <2>1 DEF Inv, TypeInv, ScheduleOK, ServedOK, Server, WholeSchedule
<1>2. CASE Finished
  <2>1. /\ UNCHANGED <<opt, schedule, records, ingress_release_times,
                       downstream_completion_times, next_service_available>>
    BY <1>2 DEF Finished, vars, model
  <2> QED BY <2>1 DEF Inv, TypeInv, ScheduleOK, ServedOK, Server, WholeSchedule
<1>3. CASE ProcessRecord
  <2> DEFINE q == Head(schedule)
             done == Process(opt, Server, q)
             R == all_records(opt)
             n == Len(records)
  <2>1. /\ opt \in Options /\ schedule \in Seq(R) /\ records \in Seq(Outcome)
        /\ ServerOK(opt, Server) /\ ScheduleOK /\ ServedOK
    BY DEF Inv, TypeInv
  <2>2. /\ schedule # <<>> /\ schedule' = Tail(schedule) /\ opt' = opt
        /\ ingress_release_times' = done.server.ingress_release_times
        /\ downstream_completion_times' = done.server.downstream_completion_times
        /\ next_service_available' = done.server.next_service_available
        /\ records' = Append(records, done.record)
    BY <1>3 DEF ProcessRecord
  <2> HIDE DEF R
  <2>3. q \in R /\ q = schedule[1] /\ 1 \in DOMAIN schedule
    BY <2>1, <2>2
  <2> HIDE DEF q
  <2>4. /\ ServerOK(opt, done.server) /\ done.record \in Outcome
        /\ done.record.txn = q.txn /\ done.record.begin_req = q.begin_req
        /\ DepthsOK(opt, done.record) /\ TimesOK(opt, done.record)
        /\ next_service_available <= done.record.service_begin
        /\ done.server.next_service_available = done.record.service_end
    BY <2>1, <2>3, ProcessFacts DEF Server, R
  <2> DEFINE r == done.record
  <2> HIDE DEF done
  <2>5. ServerOK(opt, Server)'
    BY <2>2, <2>4 DEF ServerOK, Server
  <2>6. schedule' \in Seq(R) /\ Len(schedule') = Len(schedule) - 1
        /\ \A k \in DOMAIN schedule' : k + 1 \in DOMAIN schedule /\ schedule'[k] = schedule[k + 1]
    BY <2>1, <2>2
  <2>7. /\ records' \in Seq(Outcome) /\ n \in Nat /\ Len(records') = n + 1
        /\ DOMAIN records = 1..n /\ DOMAIN records' = 1..(n + 1)
        /\ \A k \in 1..n : records'[k] = records[k]
        /\ records'[n + 1] = r
    BY <2>1, <2>2, <2>4
  <2>8. TypeInv'
    BY <2>1, <2>2, <2>5, <2>6, <2>7 DEF TypeInv, R
  <2>9. WholeSchedule' = WholeSchedule
    BY <2>2 DEF WholeSchedule
  <2>10. ScheduleOK'
    <3> DEFINE whole == WholeSchedule
    <3>1. /\ n + Len(schedule) = Len(whole)
          /\ \A k \in DOMAIN schedule : schedule[k] = whole[n + k]
          /\ \A k \in 1..n :
               records[k].txn = whole[k].txn /\ records[k].begin_req = whole[k].begin_req
      BY <2>1, <2>7 DEF ScheduleOK
    <3> HIDE DEF n, r, whole
    <3>2. Len(records') + Len(schedule') = Len(whole)
      <4> DEFINE a == Len(schedule)
                 b == Len(schedule')
                 c == Len(records')
                 d == Len(whole)
      <4>1. /\ a \in Nat /\ n \in Nat
            /\ b = a - 1 /\ c = n + 1 /\ n + a = d
        BY <2>1, <2>6, <2>7, <3>1
      <4> HIDE DEF a, b, c, d
      <4>2. c + b = d
        BY <4>1
      <4> QED BY <4>2 DEF b, c, d
    <3>3. ASSUME NEW k \in DOMAIN schedule' PROVE schedule'[k] = whole[Len(records') + k]
      <4>1. k + 1 \in DOMAIN schedule /\ schedule'[k] = schedule[k + 1] /\ k \in Nat
        BY <2>6
      <4>2. n + (k + 1) = (n + 1) + k
        BY <2>7, <4>1
      <4> QED BY <2>7, <3>1, <4>1, <4>2
    <3>4. r.txn = whole[n + 1].txn /\ r.begin_req = whole[n + 1].begin_req
      BY <2>3, <2>4, <3>1 DEF r
    <3>5. ASSUME NEW k \in DOMAIN records'
          PROVE  records'[k].txn = whole[k].txn /\ records'[k].begin_req = whole[k].begin_req
      <4>1. CASE k \in 1..n
        BY <2>7, <3>1, <4>1
      <4>2. CASE k = n + 1
        BY <2>7, <3>4, <4>2
      <4>3. k \in 1..n \/ k = n + 1
        BY <2>7
      <4> QED BY <4>1, <4>2, <4>3
    <3>6. whole = WholeSchedule'
      BY <2>9 DEF whole
    <3> QED BY <3>2, <3>3, <3>5, <3>6 DEF ScheduleOK
  <2>11. ServedOK'
    <3>1. /\ \A k \in 1..n :
               /\ records[k].service_end <= next_service_available
               /\ DepthsOK(opt, records[k]) /\ TimesOK(opt, records[k])
          /\ \A k, l \in 1..n : k < l => records[k].service_end <= records[l].service_begin
      BY <2>1, <2>7 DEF ServedOK
    <3>2. /\ next_service_available \in Nat /\ next_service_available <= r.service_begin
          /\ r.service_begin \in Nat /\ r.service_end \in Nat
          /\ r.service_begin <= r.service_end /\ next_service_available' = r.service_end
      <4>1. r.service_begin \in Nat /\ r.service_end \in Nat /\ r.observed_service_time \in Nat
        BY <2>4 DEF Outcome
      <4>2. r.service_end = r.service_begin + r.observed_service_time
        BY <2>4 DEF TimesOK
      <4>3. next_service_available \in Nat
        BY <2>1 DEF ServerOK, Server
      <4> QED BY <2>2, <2>4, <4>1, <4>2, <4>3
    <3>3. \A k \in 1..n : records[k].service_end \in Nat
      <4>1. \A k \in 1..n : records[k] \in Outcome
        BY <2>1, <2>7
      <4>2. \A x \in Outcome : x.service_end \in Nat
        BY DEF Outcome
      <4> QED BY <4>1, <4>2
    <3>4. \A k \in 1..n : records[k].service_end <= r.service_begin
      BY <3>1, <3>2, <3>3
    <3>5. \A k \in 1..n : records[k].service_end <= next_service_available'
      BY <3>1, <3>2, <3>3
    <3> HIDE DEF n, r
    <3>6. ASSUME NEW k \in DOMAIN records'
          PROVE  /\ records'[k].service_end <= next_service_available'
                 /\ DepthsOK(opt, records'[k]) /\ TimesOK(opt, records'[k])
      <4>1. CASE k \in 1..n
        BY <2>7, <3>1, <3>5, <4>1
      <4>2. CASE k = n + 1
        BY <2>4, <2>7, <3>2, <4>2 DEF r
      <4>3. k \in 1..n \/ k = n + 1
        BY <2>7
      <4> QED BY <4>1, <4>2, <4>3
    <3>7. ASSUME NEW k \in DOMAIN records', NEW l \in DOMAIN records', k < l
          PROVE  records'[k].service_end <= records'[l].service_begin
      <4>1. k \in 1..n /\ (l \in 1..n \/ l = n + 1)
        BY <2>7, <3>7
      <4>2. CASE l \in 1..n
        BY <2>7, <3>1, <3>7, <4>1, <4>2
      <4>3. CASE l = n + 1
        BY <2>7, <3>4, <4>1, <4>3
      <4> QED BY <4>1, <4>2, <4>3
    <3> QED BY <2>2, <3>6, <3>7 DEF ServedOK
  <2> QED BY <2>8, <2>10, <2>11 DEF Inv
<1> QED BY <1>1, <1>2, <1>3 DEF Next

(***************************************************************************)
(* So it always holds: the loop takes the records in the order of the      *)
(* schedule, and serves none before the ones it has served.                *)
(***************************************************************************)
THEOREM RunKept == Spec => []Inv
BY InitInv, StepInv, PTL DEF Spec

(***************************************************************************)
(* Neither list ever holds more end times than its queue has places, a     *)
(* record is reported as having found the queue full exactly when it did,  *)
(* and the requests of one initiator are served in the order of issue,     *)
(* whatever bias the policy gives their keys.                              *)
(***************************************************************************)
THEOREM QueuesAreRespected == Spec => []QueuesRespected
<1>1. Inv => QueuesRespected
  <2> SUFFICES ASSUME Inv PROVE QueuesRespected
    OBVIOUS
  <2>1. /\ opt \in Options /\ records \in Seq(Outcome) /\ ServerOK(opt, Server)
        /\ ScheduleOK /\ ServedOK
    BY DEF Inv, TypeInv
  <2>2. ReportedDepthBounded
    BY <2>1 DEF ReportedDepthBounded, ServerOK, Server, ListOf, ServedOK, DepthsOK
  <2>3. InitiatorOrder
    <3> SUFFICES ASSUME NEW k \in DOMAIN records, NEW l \in DOMAIN records,
                        records[k].txn[1] = records[l].txn[1],
                        records[k].txn[2] < records[l].txn[2]
                 PROVE  records[k].service_end <= records[l].service_begin
      BY DEF InitiatorOrder
    <3> DEFINE whole == WholeSchedule
               R == all_records(opt)
    <3>1. /\ whole \in Seq(R)
          /\ \A a, b \in DOMAIN whole : a < b => Before(whole[a], whole[b])
      BY <2>1, Sorted DEF WholeSchedule
    <3>2. k \in DOMAIN whole /\ l \in DOMAIN whole /\ k \in Nat /\ l \in Nat
      <4>1. Len(records) \in Nat /\ Len(schedule) \in Nat
        BY DEF Inv, TypeInv
      <4>2. Len(records) + Len(schedule) = Len(whole)
        BY <2>1 DEF ScheduleOK
      <4>3. DOMAIN records = 1..Len(records) /\ DOMAIN whole = 1..Len(whole)
        BY <2>1, <3>1
      <4> HIDE DEF whole
      <4> QED BY <4>1, <4>2, <4>3
    <3>3. records[k].txn = whole[k].txn /\ records[l].txn = whole[l].txn
      BY <2>1 DEF ScheduleOK
    <3> HIDE DEF whole
    <3>4. whole[k] \in R /\ whole[l] \in R
      BY <3>1, <3>2
    <3>5. whole[k].txn[2] \in Nat /\ whole[l].txn[2] \in Nat
      BY <2>1, <3>4, AllRecords DEF InitialRecord
    <3>6. ~(l < k)
      <4>1. SUFFICES ASSUME l < k PROVE FALSE
        OBVIOUS
      <4>2. Before(whole[l], whole[k])
        BY <3>1, <3>2, <4>1
      <4>3. whole[l].txn[2] < whole[k].txn[2]
        BY <2>1, <3>3, <3>4, <4>2, BeforeIsOrder
      <4> QED BY <3>3, <3>5, <4>3
    <3>7. k # l
      BY <3>3, <3>5
    <3>8. k < l
      BY <3>2, <3>6, <3>7
    <3> QED BY <2>1, <3>8 DEF ServedOK
  <2> QED BY <2>2, <2>3 DEF QueuesRespected
<1> QED BY <1>1, RunKept, PTL

(* The times of every record follow each other.                            *)
TimesFollow == \A k \in DOMAIN records : TimesOK(opt, records[k])

(* When the schedule is empty, every transaction has one record, that of   *)
(* the time it was issued at.                                              *)
AllServed ==
  schedule = <<>> =>
    \A i \in Initiators, n \in 0..(opt.num_transactions - 1) :
      \E k \in DOMAIN records :
        /\ records[k].txn = <<i, n>>
        /\ records[k].begin_req = issue_time_for(opt, ProfileOf(opt), i, n)
        /\ \A l \in DOMAIN records : records[l].txn = <<i, n>> => l = k

(***************************************************************************)
(* In every record a request is issued, arbitrated, admitted, dispatched,  *)
(* served and answered in that order, and the time reported as blocked is  *)
(* all of the time before its service but the step between the queues.     *)
(***************************************************************************)
THEOREM TimesOfARecordFollow == Spec => []TimesFollow
<1>1. Inv => TimesFollow
  BY DEF Inv, ServedOK, TimesFollow
<1> QED BY <1>1, RunKept, PTL

(***************************************************************************)
(* When the loop ends, every transaction of every initiator is in the      *)
(* trace, once, with the time it was issued at.                            *)
(***************************************************************************)
THEOREM EveryTransactionServed == Spec => []AllServed
<1>1. Inv => AllServed
  <2> SUFFICES ASSUME Inv, schedule = <<>>,
                      NEW i \in Initiators, NEW n \in 0..(opt.num_transactions - 1)
               PROVE  \E k \in DOMAIN records :
                        /\ records[k].txn = <<i, n>>
                        /\ records[k].begin_req = issue_time_for(opt, ProfileOf(opt), i, n)
                        /\ \A l \in DOMAIN records : records[l].txn = <<i, n>> => l = k
    BY DEF AllServed
  <2> DEFINE whole == WholeSchedule
             R == all_records(opt)
             r == record_of(opt, i, n)
  <2>1. opt \in Options /\ records \in Seq(Outcome) /\ ScheduleOK
    BY DEF Inv, TypeInv
  <2>2. r \in R
    BY DEF all_records, Issued, record_of, ProfileOf
  <2>3. r.txn = <<i, n>> /\ r.begin_req = issue_time_for(opt, ProfileOf(opt), i, n)
    BY DEF record_of
  <2>4. /\ whole \in Seq(R)
        /\ \A a, b \in DOMAIN whole : a < b => Before(whole[a], whole[b])
        /\ \A x \in R : \E k \in DOMAIN whole : whole[k] = x
    BY <2>1, Sorted DEF WholeSchedule
  <2>5. DOMAIN records = DOMAIN whole /\ DOMAIN whole \subseteq Nat
    <3>1. Len(records) + Len(schedule) = Len(whole) /\ Len(schedule) = 0
      BY <2>1 DEF ScheduleOK
    <3>2. Len(records) \in Nat /\ DOMAIN records = 1..Len(records)
      BY <2>1
    <3>3. DOMAIN whole = 1..Len(whole)
      BY <2>4
    <3> HIDE DEF whole
    <3> QED BY <3>1, <3>2, <3>3
  <2>6. \A k \in DOMAIN records :
          records[k].txn = whole[k].txn /\ records[k].begin_req = whole[k].begin_req
    BY <2>1 DEF ScheduleOK
  <2> HIDE DEF whole
  <2>7. PICK k \in DOMAIN whole : whole[k] = r
    BY <2>2, <2>4
  <2>8. ASSUME NEW l \in DOMAIN records, records[l].txn = <<i, n>> PROVE l = k
    <3>1. whole[l].txn = <<i, n>> /\ whole[l] \in R /\ l \in DOMAIN whole
      BY <2>4, <2>5, <2>6, <2>8
    <3>2. whole[l] = r
      <4>1. whole[l] = record_of(opt, whole[l].txn[1], whole[l].txn[2])
        BY <2>1, <3>1, AllRecords
      <4> QED BY <3>1, <4>1
    <3>3. ~(l < k) /\ ~(k < l)
      <4>1. ~Before(r, r)
        BY <2>1, <2>2, BeforeIsOrder
      <4> QED BY <2>4, <2>7, <3>1, <3>2, <4>1
    <3> QED BY <2>5, <2>7, <3>1, <3>3
  <2> QED BY <2>3, <2>5, <2>6, <2>7, <2>8
<1> QED BY <1>1, RunKept, PTL
=============================================================================
