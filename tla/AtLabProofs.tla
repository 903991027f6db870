--------------------------- MODULE AtLabProofs ---------------------------
(***************************************************************************)
(* The AT smoke lab: that no SC_REPORT_FATAL is reached and that bus,      *)
(* target and initiators share one live payload, from the invariant Inv.   *)
(* The argument needs no times: a thread that sleeps on its event is woken *)
(* only by who is done with its payload.                                   *)
(***************************************************************************)
EXTENDS AtLab, SequenceTheorems, TLAPS

Procs == Threads \cup Methods
BusThread == "bus.service_requests"
TargetThread == "target.process_requests"
TopThread == "top.stop_when_done"

(* The transaction initiator i is sending, or sent last.                   *)
Current(i)  == <<i, calls[i] - 1>>
Queued(i)   == \E k \in DOMAIN pending_requests : pending_requests[k][1] = i
Active(i)   == active_request # Null /\ active_request[1] = i
InFlight(i) == Queued(i) \/ Active(i)

(* The response of initiator i's transaction is on its way, or it has none *)
(* under way.                                                              *)
Answered(i) == ~InFlight(i) \/ (response_in_progress # Null /\ Active(i))

(* The target holds a request that process_requests has not taken yet.     *)
Fresh == /\ active_request # Null /\ response_in_progress = Null
         /\ stage \notin {"accept", "execute"}

EndReq(i)    == [txn |-> Current(i), phase |-> "END_REQ"]
BeginResp(i) == [txn |-> Current(i), phase |-> "BEGIN_RESP"]

TypeInv ==
  /\ waits \in [Procs -> Events \cup NotEvents]
  /\ sim # "aborted"
  /\ calls \in [Initiators -> 0..4]
  /\ peq \in [Initiators -> Seq([txn : Txns, phase : PHASES])]
  /\ pending_requests \in Seq(Txns)
  /\ active_request \in Txns \cup {Null}
  /\ response_in_progress \in Txns \cup {Null}
  /\ words \in [Initiators -> Initiators \cup {0}]
  /\ read_data \in [Initiators -> Initiators \cup {0}]
  /\ status \in [Txns -> {"TLM_INCOMPLETE_RESPONSE", "TLM_OK_RESPONSE"}]
  /\ stage \in {"start", "request", "accept", "execute", "response"}

(* An initiator has one transaction under way, in the bus' queue or active, *)
(* and sleeps meanwhile: nothing that could wake it is notified.           *)
FlightInv ==
  /\ \A i \in Initiators : InFlight(i) =>
       /\ calls[i] \in {2, 3}
       /\ waits[RunThread(i)] = ResponseDone(i) /\ ResponseDone(i) \notin notified
  /\ \A i \in Initiators :
       ResponseDone(i) \in notified => waits[RunThread(i)] = ResponseDone(i)
  /\ \A k \in DOMAIN pending_requests :
       pending_requests[k] = Current(pending_requests[k][1])
  /\ \A k, l \in DOMAIN pending_requests :
       pending_requests[k][1] = pending_requests[l][1] => k = l
  /\ active_request # Null =>
       active_request = Current(active_request[1]) /\ ~Queued(active_request[1])

(* Bus and target hold the same transaction, and the target is woken for   *)
(* one it has not taken yet.                                               *)
TargetInv ==
  /\ pending_request = active_request
  /\ response_in_progress # Null =>
       response_in_progress = active_request /\ status[active_request] = "TLM_OK_RESPONSE"
  /\ stage \in {"accept", "execute"} =>
       serving = active_request /\ active_request # Null /\ response_in_progress = Null
  /\ "target.request_event" \in notified => Fresh
  /\ stage = "request" => waits[TargetThread] \in {"ready", "target.request_event"}
  /\ stage = "request" /\ waits[TargetThread] = "ready" =>
       Fresh /\ "target.request_event" \notin notified

(* An initiator's queue holds the phases of its active transaction, and is *)
(* called back at most once for each.                                      *)
PeqInv ==
  \A i \in Initiators :
    /\ peq[i] \in {<<>>, <<EndReq(i)>>, <<BeginResp(i)>>, <<EndReq(i), BeginResp(i)>>}
    /\ peq[i] # <<>> => Active(i) /\ (stage = "execute" \/ response_in_progress # Null)
    /\ peq[i] \in {<<BeginResp(i)>>, <<EndReq(i), BeginResp(i)>>} =>
         response_in_progress # Null
    /\ waits[PeqMethod(i)] \in {"ready", PeqEvent(i)}
    /\ waits[PeqMethod(i)] = "ready" \/ PeqEvent(i) \in notified => peq[i] # <<>>
    /\ waits[PeqMethod(i)] = "ready" /\ PeqEvent(i) \in notified =>
         peq[i] = <<EndReq(i), BeginResp(i)>>

(* What the target did for the transactions it answered.                   *)
AnswerInv ==
  \A i \in Initiators :
    /\ calls[i] = 2 /\ Answered(i) => words[i] = i
    /\ calls[i] = 3 => words[i] = i
    /\ calls[i] = 3 /\ Answered(i) => read_data[i] = i

Inv == TypeInv /\ FlightInv /\ TargetInv /\ PeqInv /\ AnswerInv

(* The processes and events of the two initiators are different ones.      *)
LEMMA Names ==
  ASSUME NEW i \in Initiators, NEW j \in Initiators
  PROVE  /\ RunThread(i) \in Procs /\ PeqMethod(i) \in Procs /\ BusThread \in Procs
         /\ TargetThread \in Procs /\ TopThread \in Procs
         /\ RunThread(i) \notin {PeqMethod(j), BusThread, TargetThread, TopThread}
         /\ PeqMethod(i) \notin {BusThread, TargetThread, TopThread}
         /\ i # j => /\ RunThread(i) # RunThread(j) /\ PeqMethod(i) # PeqMethod(j)
                     /\ ResponseDone(i) # ResponseDone(j) /\ PeqEvent(i) # PeqEvent(j)
         /\ ResponseDone(i) # PeqEvent(j)
         /\ ResponseDone(i) \in Events /\ PeqEvent(i) \in Events
         /\ {ResponseDone(i), PeqEvent(i)} \cap
              {"ready", "timed", "ended", "bus.service_event", "target.request_event",
               "target.end_response_event", "done_event"} = {}
BY DEF Initiators, Procs, Threads, Methods, Events, RunThread, PeqMethod, ResponseDone,
       PeqEvent, BusThread, TargetThread, TopThread

(* The other events, and what a process may wait for.                      *)
LEMMA EventNames ==
  {"ready", "timed", "ended", "bus.service_event", "target.request_event",
   "target.end_response_event", "done_event"} \subseteq Events \cup NotEvents
BY DEF Events, NotEvents

(* A transaction is no null pointer, and names its initiator.              *)
LEMMA Transaction ==
  ASSUME NEW t \in Txns
  PROVE  t # Null /\ t[1] \in Initiators /\ t[2] \in {1, 2} /\ t = <<t[1], t[2]>>
<1>1. PICK i \in Initiators, n \in {1, 2} : t = <<i, n>>
  BY DEF Txns
<1>2. t # <<>>
  BY <1>1
<1> QED BY <1>1, <1>2 DEF Null

(* The current transactions of two initiators are two.                     *)
LEMMA CurrentDiffers ==
  ASSUME NEW i \in Initiators, NEW j \in Initiators
  PROVE  /\ Current(i)[1] = i /\ Current(i)[2] = calls[i] - 1
         /\ Current(i) # Null
         /\ Current(i) = Current(j) => i = j
         /\ calls[i] \in {2, 3} => Current(i) \in Txns
<1>1. Current(i)[1] = i /\ Current(i)[2] = calls[i] - 1 /\ Current(j)[1] = j
  BY DEF Current
<1>2. Current(i) # <<>>
  BY DEF Current
<1>3. calls[i] \in {2, 3} => Current(i) \in Txns
  BY DEF Current, Txns
<1> QED BY <1>1, <1>2, <1>3 DEF Null

(* The queue of phases, short as it is.                                    *)
LEMMA ShortQueues ==
  ASSUME NEW a, NEW b
  PROVE  /\ <<a>> # <<>> /\ <<a, b>> # <<>> /\ <<a>> # <<a, b>>
         /\ Head(<<a>>) = a /\ Tail(<<a>>) = <<>>
         /\ Head(<<a, b>>) = a /\ Tail(<<a, b>>) = <<b>>
         /\ Append(<<>>, a) = <<a>> /\ Append(<<a>>, b) = <<a, b>>
<1>1. /\ <<a>> # <<>> /\ <<a, b>> # <<>> /\ <<a>> # <<a, b>>
  OBVIOUS
<1>2. Head(<<a>>) = a /\ Tail(<<a>>) = <<>> /\ Head(<<a, b>>) = a /\ Tail(<<a, b>>) = <<b>>
  OBVIOUS
<1>3. Append(<<>>, a) = <<a>>
  <2>1. <<>> \in Seq({a}) /\ a \in {a}
    OBVIOUS
  <2>2. Append(<<>>, a) = <<>> \o <<a>>
    BY <2>1, AppendIsConcat
  <2>3. <<a>> \in Seq({a})
    OBVIOUS
  <2> QED BY <2>2, <2>3, ConcatEmptySeq
<1>4. Append(<<a>>, b) = <<a, b>>
  <2> DEFINE S == {a, b}
  <2>1. <<a>> \in Seq(S) /\ <<a, b>> \in Seq(S) /\ b \in S
    OBVIOUS
  <2>2. Len(<<a>>) = 1 /\ Len(<<a, b>>) = 2
    OBVIOUS
  <2>3. /\ Append(<<a>>, b) \in Seq(S) /\ Len(Append(<<a>>, b)) = 2
        /\ Append(<<a>>, b)[1] = a /\ Append(<<a>>, b)[2] = b
    <3> HIDE DEF S
    <3>1. /\ Append(<<a>>, b) \in Seq(S) /\ Len(Append(<<a>>, b)) = Len(<<a>>) + 1
          /\ \A i \in 1..Len(<<a>>) : Append(<<a>>, b)[i] = <<a>>[i]
          /\ Append(<<a>>, b)[Len(<<a>>) + 1] = b
      BY <2>1, AppendProperties
    <3> QED BY <2>2, <3>1
  <2>4. \A i \in 1..2 : Append(<<a>>, b)[i] = <<a, b>>[i]
    BY <2>3
  <2> HIDE DEF S
  <2> QED BY <2>1, <2>2, <2>3, <2>4, SeqEqual
<1> QED BY <1>1, <1>2, <1>3, <1>4

(* Two phases of one transaction differ.                                   *)
LEMMA PhasesDiffer ==
  ASSUME NEW i
  PROVE  /\ EndReq(i).txn = Current(i) /\ EndReq(i).phase = "END_REQ"
         /\ BeginResp(i).txn = Current(i) /\ BeginResp(i).phase = "BEGIN_RESP"
         /\ EndReq(i) # BeginResp(i)
BY DEF EndReq, BeginResp

(* The step of one process leaves the others where they wait.              *)
LEMMA OthersWait ==
  ASSUME TypeInv, NEW p \in Procs, NEW e \in Events \cup NotEvents,
         waits' = [waits EXCEPT ![p] = e]
  PROVE  /\ waits' \in [Procs -> Events \cup NotEvents]
         /\ waits'[p] = e
         /\ \A q \in Procs : q # p => waits'[q] = waits[q]
BY DEF TypeInv

(* The bus always finds the request it is to forward: of the preferred     *)
(* initiator there is at most one.                                         *)
LEMMA NextRequestFound ==
  ASSUME TypeInv, FlightInv, pending_requests # <<>>
  PROVE  NextRequest \in DOMAIN pending_requests
<1> DEFINE preferred == {k \in DOMAIN pending_requests : pending_requests[k][1] = Preferred}
<1>1. pending_requests \in Seq(Txns)
  BY DEF TypeInv
<1>2. 1 \in DOMAIN pending_requests /\ DOMAIN pending_requests \subseteq Nat
  BY <1>1
<1>3. CASE arbitration_policy = "fifo" \/ preferred = {}
  BY <1>2, <1>3 DEF NextRequest
<1>4. CASE arbitration_policy # "fifo" /\ preferred # {}
  <2>1. PICK k \in preferred : TRUE
    BY <1>4
  <2>2. \A q \in preferred : k <= q
    BY <1>2, <2>1 DEF FlightInv
  <2>3. NextRequest = CHOOSE l \in preferred : \A q \in preferred : l <= q
    BY <1>4 DEF NextRequest
  <2>4. NextRequest \in preferred
    BY <2>1, <2>2, <2>3
  <2> QED BY <2>4
<1> QED BY <1>3, <1>4

(* The queue of the bus without the request it forwards.                   *)
LEMMA WithoutFacts ==
  ASSUME NEW S, NEW q \in Seq(S), NEW k \in DOMAIN q
  PROVE  /\ Without(q, k) \in Seq(S)
         /\ \A m \in DOMAIN Without(q, k) : \E l \in DOMAIN q \ {k} :
              /\ Without(q, k)[m] = q[l] /\ l = IF m < k THEN m ELSE m + 1
         /\ \A l \in DOMAIN q \ {k} : \E m \in DOMAIN Without(q, k) : Without(q, k)[m] = q[l]
<1> DEFINE a == SubSeq(q, 1, k - 1)
           b == SubSeq(q, k + 1, Len(q))
           w == a \o b
           n == Len(q)
<1>1. n \in Nat /\ k \in 1..n /\ DOMAIN q = 1..n
  OBVIOUS
<1>2. /\ a \in Seq(S) /\ Len(a) = k - 1 /\ \A m \in 1..(k - 1) : a[m] = q[m]
  BY <1>1
<1>3. /\ b \in Seq(S) /\ Len(b) = n - k /\ \A m \in 1..(n - k) : b[m] = q[k + m]
  <2> DEFINE c == k + 1
  <2>1. c \in Int /\ n \in Int /\ \A m \in c..n : q[m] \in S
    BY <1>1
  <2>2. /\ b \in Seq(S) /\ Len(b) = IF c <= n THEN n - c + 1 ELSE 0
        /\ \A m \in 1..(n - c + 1) : b[m] = q[c + m - 1]
    <3> HIDE DEF c, n
    <3> QED BY <2>1, SubSeqProperties DEF n, c
  <2>3. /\ (IF c <= n THEN n - c + 1 ELSE 0) = n - k /\ n - c + 1 = n - k
        /\ \A m \in 1..(n - k) : c + m - 1 = k + m
    BY <1>1
  <2> HIDE DEF b, n, c
  <2> QED BY <2>2, <2>3
<1> HIDE DEF a, b, n
<1>4. /\ w \in Seq(S) /\ Len(w) = Len(a) + Len(b)
      /\ \A m \in 1..(Len(a) + Len(b)) :
           w[m] = IF m <= Len(a) THEN a[m] ELSE b[m - Len(a)]
  BY <1>2, <1>3, ConcatProperties
<1> HIDE DEF w
<1>5. /\ Len(w) = n - 1
      /\ \A m \in 1..(n - 1) : w[m] = IF m <= k - 1 THEN a[m] ELSE b[m - (k - 1)]
  BY <1>1, <1>2, <1>3, <1>4
<1>6. DOMAIN w = 1..(n - 1)
  BY <1>4, <1>5
<1>7. \A m \in 1..(n - 1) : w[m] = q[IF m < k THEN m ELSE m + 1]
  <2>1. ASSUME NEW m \in 1..(n - 1), m < k PROVE w[m] = q[m]
    BY <1>1, <1>2, <1>5, <2>1
  <2>2. ASSUME NEW m \in 1..(n - 1), ~(m < k) PROVE w[m] = q[m + 1]
    <3>1. w[m] = b[m - (k - 1)]
      BY <1>1, <1>5, <2>2
    <3>2. m - (k - 1) \in 1..(n - k) /\ k + (m - (k - 1)) = m + 1
      BY <1>1, <2>2
    <3> QED BY <1>3, <3>1, <3>2
  <2> QED BY <2>1, <2>2
<1>8. \A m \in DOMAIN w : \E l \in DOMAIN q \ {k} :
        w[m] = q[l] /\ l = IF m < k THEN m ELSE m + 1
  <2> SUFFICES ASSUME NEW m \in 1..(n - 1)
               PROVE  \E l \in DOMAIN q \ {k} : w[m] = q[l] /\ l = IF m < k THEN m ELSE m + 1
    BY <1>6
  <2> DEFINE l == IF m < k THEN m ELSE m + 1
  <2>1. l \in 1..n /\ l # k
    BY <1>1
  <2> QED BY <1>1, <1>7, <2>1
<1>9. \A l \in DOMAIN q \ {k} : \E m \in DOMAIN w : w[m] = q[l]
  <2> SUFFICES ASSUME NEW l \in 1..n, l # k PROVE \E m \in 1..(n - 1) : w[m] = q[l]
    BY <1>1, <1>6
  <2>1. CASE l < k
    BY <1>1, <1>7, <2>1
  <2>2. CASE l > k
    <3>1. l - 1 \in 1..(n - 1) /\ ~(l - 1 < k) /\ (l - 1) + 1 = l
      BY <1>1, <2>2
    <3> QED BY <1>7, <3>1
  <2> QED BY <1>1, <2>1, <2>2
<1> QED BY <1>4, <1>8, <1>9 DEF w, a, b, Without

(* At first nobody sends anything.                                         *)
LEMMA InitInv == Init => Inv
<1> SUFFICES ASSUME Init PROVE Inv
  OBVIOUS
<1> USE DEF Init
<1>1. TypeInv
  <2>1. waits \in [Procs -> Events \cup NotEvents]
    <3>1. {PeqEvent(101), PeqEvent(102), "ready"} \subseteq Events \cup NotEvents
      BY Names, EventNames DEF Initiators
    <3>2. waits = [p \in Procs |-> IF p \in Threads THEN "ready"
                                  ELSE IF p = PeqMethod(101) THEN PeqEvent(101)
                                  ELSE PeqEvent(102)]
      BY DEF ElaborateWith, Procs
    <3> QED BY <3>1, <3>2
  <2>2. sim # "aborted"
    BY DEF ElaborateWith
  <2>3. /\ calls \in [Initiators -> 0..4]
        /\ words \in [Initiators -> Initiators \cup {0}]
        /\ read_data \in [Initiators -> Initiators \cup {0}]
    BY DEF ReadBuffer
  <2>4. /\ peq \in [Initiators -> Seq([txn : Txns, phase : PHASES])]
        /\ pending_requests \in Seq(Txns)
    OBVIOUS
  <2> QED BY <2>1, <2>2, <2>3, <2>4 DEF TypeInv
<1>2. \A i \in Initiators : ~InFlight(i) /\ peq[i] = <<>> /\ calls[i] = 0
  BY DEF InFlight, Queued, Active
<1>3. \A i \in Initiators : waits[PeqMethod(i)] = PeqEvent(i) /\ PeqEvent(i) # "ready"
  <2> SUFFICES ASSUME NEW i \in Initiators
               PROVE  waits[PeqMethod(i)] = PeqEvent(i) /\ PeqEvent(i) # "ready"
    OBVIOUS
  <2>1. PeqMethod(i) \in Procs /\ PeqMethod(i) \notin Threads
    BY DEF Procs, Methods, Threads, PeqMethod, RunThread, Initiators
  <2>2. waits[PeqMethod(i)] = IF PeqMethod(i) = PeqMethod(101) THEN PeqEvent(101)
                              ELSE PeqEvent(102)
    BY <2>1 DEF ElaborateWith, Procs
  <2> QED BY <2>2 DEF PeqMethod, PeqEvent, Initiators
<1>4. FlightInv
  BY <1>2 DEF FlightInv, ElaborateWith
<1>5. TargetInv
  BY DEF TargetInv, ElaborateWith
<1>6. PeqInv
  BY <1>2, <1>3 DEF PeqInv, ElaborateWith
<1>7. AnswerInv
  BY <1>2 DEF AnswerInv
<1> QED BY <1>1, <1>4, <1>5, <1>6, <1>7 DEF Inv

(* What the labs' threads do not touch in a step of the kernel.            *)
LEMMA SameTransactions ==
  ASSUME UNCHANGED <<payload, initiators, bus, target>>
  PROVE  \A i \in Initiators :
           /\ InFlight(i)' = InFlight(i) /\ Active(i)' = Active(i)
           /\ Queued(i)' = Queued(i) /\ Answered(i)' = Answered(i)
           /\ EndReq(i)' = EndReq(i) /\ BeginResp(i)' = BeginResp(i)
           /\ Current(i)' = Current(i)
BY DEF payload, initiators, bus, target, InFlight, Active, Queued, Answered, EndReq,
       BeginResp, Current

(* A delta cycle wakes the target for a request it has not taken, and an   *)
(* initiator's method for a phase in its queue, but no sleeping initiator. *)
LEMMA DeltaInv ==
  ASSUME Inv, DeltaCycle, UNCHANGED <<payload, initiators, bus, target>>
  PROVE  Inv'
<1> USE DEF Inv
<1>1. notified' = {} /\ sim' = sim
  BY DEF DeltaCycle
<1>2. DOMAIN waits = Procs
  BY DEF TypeInv
<1>3. \A p \in Procs :
        \/ waits'[p] = waits[p]
        \/ waits'[p] = "ready" /\ (waits[p] \in notified \/ waits[p] = "timed")
  BY <1>2 DEF DeltaCycle, Woken
<1>4. waits' \in [Procs -> Events \cup NotEvents]
  BY <1>2, EventNames DEF DeltaCycle, TypeInv
<1>5. TypeInv'
  BY <1>1, <1>4 DEF TypeInv, payload, initiators, bus, target
<1>6. FlightInv'
  <2>1. ASSUME NEW i \in Initiators, InFlight(i)
        PROVE  waits'[RunThread(i)] = ResponseDone(i)
    <3>1. waits[RunThread(i)] = ResponseDone(i) /\ ResponseDone(i) \notin notified
      BY <2>1 DEF FlightInv
    <3>2. ResponseDone(i) # "timed" /\ RunThread(i) \in Procs
      BY Names
    <3> QED BY <1>3, <3>1, <3>2
  <2> QED
    BY <1>1, <2>1, SameTransactions
    DEF FlightInv, payload, initiators, bus, target, InFlight, Active, Queued, Current
<1>7. TargetInv'
  <2>1. TargetThread \in Procs
    BY DEF Procs, Threads, TargetThread
  <2>2. waits'[TargetThread] = "ready" /\ stage = "request" => Fresh
    BY <1>3, <2>1 DEF TargetInv
  <2>3. stage = "request" => waits'[TargetThread] \in {"ready", "target.request_event"}
    BY <1>3, <2>1 DEF TargetInv
  <2> QED
    BY <1>1, <2>2, <2>3 DEF TargetInv, Fresh, payload, initiators, bus, target
<1>8. PeqInv'
  <2> SUFFICES ASSUME NEW i \in Initiators
               PROVE  /\ waits'[PeqMethod(i)] \in {"ready", PeqEvent(i)}
                      /\ waits'[PeqMethod(i)] = "ready" => peq[i] # <<>>
    BY <1>1, SameTransactions DEF PeqInv, payload, initiators, bus, target
  <2>1. PeqMethod(i) \in Procs /\ PeqEvent(i) # "timed"
    BY Names
  <2> QED BY <1>3, <2>1 DEF PeqInv
<1>9. AnswerInv'
  BY SameTransactions DEF AnswerInv, payload, initiators, bus, target
<1> QED BY <1>5, <1>6, <1>7, <1>8, <1>9

(* A step that only ends the segment of p, and notifies no initiator nor   *)
(* the target, keeps the invariant.                                        *)
LEMMA QuietInv ==
  ASSUME Inv, UNCHANGED <<payload, initiators, bus, target>>, sim' # "aborted",
         NEW p \in {BusThread, TopThread}, NEW e \in Events \cup NotEvents,
         waits' = [waits EXCEPT ![p] = e], notified' = notified
  PROVE  Inv'
<1> USE DEF Inv
<1>1. /\ waits' \in [Procs -> Events \cup NotEvents]
      /\ \A q \in Procs : q # p => waits'[q] = waits[q]
  <2>1. p \in Procs
    BY DEF Procs, Threads, BusThread, TopThread
  <2> QED BY <2>1, OthersWait
<1>2. \A i \in Initiators : /\ waits'[RunThread(i)] = waits[RunThread(i)]
                            /\ waits'[PeqMethod(i)] = waits[PeqMethod(i)]
  BY <1>1, Names
<1>3. waits'[TargetThread] = waits[TargetThread]
  BY <1>1 DEF Procs, Threads, BusThread, TopThread, TargetThread
<1>4. TypeInv'
  BY <1>1 DEF TypeInv, payload, initiators, bus, target
<1>5. FlightInv'
  BY <1>2, SameTransactions
  DEF FlightInv, payload, initiators, bus, target, InFlight, Active, Queued, Current
<1>6. TargetInv'
  BY <1>3 DEF TargetInv, Fresh, payload, initiators, bus, target
<1>7. PeqInv'
  BY <1>2, SameTransactions DEF PeqInv, payload, initiators, bus, target
<1>8. AnswerInv'
  BY SameTransactions DEF AnswerInv, payload, initiators, bus, target
<1> QED BY <1>4, <1>5, <1>6, <1>7, <1>8

(* Time passes: nobody is woken yet.                                       *)
LEMMA TimeInv ==
  ASSUME Inv, UNCHANGED <<payload, initiators, bus, target, waits, notified, sim>>
  PROVE  Inv'
<1> USE DEF Inv
<1>1. TypeInv'
  BY DEF TypeInv, payload, initiators, bus, target
<1>2. FlightInv'
  BY DEF FlightInv, payload, initiators, bus, target, InFlight, Active, Queued, Current
<1>3. TargetInv'
  BY DEF TargetInv, Fresh, payload, initiators, bus, target
<1>4. PeqInv'
  BY SameTransactions DEF PeqInv, payload, initiators, bus, target
<1>5. AnswerInv'
  BY SameTransactions DEF AnswerInv, payload, initiators, bus, target
<1> QED BY <1>1, <1>2, <1>3, <1>4, <1>5

(* Top sleeps on until both initiators are done.                           *)
LEMMA StopInv == ASSUME Inv, StopWhenDone PROVE Inv'
<1>1. CASE \A i \in Initiators : done[i]
  BY <1>1, QuietInv, EventNames
  DEF StopWhenDone, EndThread, StopAndNotify, TopThread
<1>2. CASE ~\A i \in Initiators : done[i]
  <2>1. /\ waits' = [waits EXCEPT ![TopThread] = "done_event"]
        /\ notified' = notified /\ sim' = sim
        /\ UNCHANGED <<payload, initiators, bus, target>>
    BY <1>2 DEF StopWhenDone, WaitEvent, Notify, TopThread
  <2>2. sim' # "aborted" /\ "done_event" \in Events \cup NotEvents
    BY <2>1, EventNames DEF Inv, TypeInv
  <2> QED BY <2>1, <2>2, QuietInv
<1> QED BY <1>1, <1>2

(* What the bus forwards leaves its queue and is active at both ends.      *)
LEMMA ServiceInv == ASSUME Inv, ServiceRequests PROVE Inv'
<1> USE DEF Inv
<1> DEFINE k == NextRequest
           t == pending_requests[k]
           rest == Without(pending_requests, k)
<1>1. CASE active_request # Null \/ pending_requests = <<>>
  <2>1. /\ waits' = [waits EXCEPT ![BusThread] = "bus.service_event"]
        /\ notified' = notified /\ sim' = sim
        /\ UNCHANGED <<payload, initiators, bus, target>>
    BY <1>1 DEF ServiceRequests, WaitEvent, Notify, BusThread, bus, target
  <2>2. sim' # "aborted" /\ "bus.service_event" \in Events \cup NotEvents
    BY <2>1, EventNames DEF TypeInv
  <2> QED BY <2>1, <2>2, QuietInv
<1>2. CASE active_request = Null /\ pending_requests # <<>>
  <2>1. pending_request = Null
    BY <1>2 DEF TargetInv
  <2>2. k \in DOMAIN pending_requests /\ pending_requests \in Seq(Txns)
    BY <1>2, NextRequestFound DEF TypeInv
  <2>3. /\ active_request' = t /\ pending_request' = t /\ pending_requests' = rest
        /\ waits' = [waits EXCEPT ![BusThread] = "bus.service_event"]
        /\ notified' = notified \cup {"target.request_event"} /\ sim' = sim
        /\ UNCHANGED <<payload, initiators, arbitration_policy, trace,
                       response_in_progress, stage, serving, words>>
    BY <1>2, <2>1 DEF ServiceRequests, Forward, WaitEvent, Notify, BusThread
  <2>4. t \in Txns /\ t # Null /\ t[1] \in Initiators /\ t = Current(t[1])
    BY <2>2, Transaction DEF FlightInv
  <2>5. /\ rest \in Seq(Txns)
        /\ \A m \in DOMAIN rest : \E l \in DOMAIN pending_requests \ {k} :
             /\ rest[m] = pending_requests[l] /\ l = IF m < k THEN m ELSE m + 1
        /\ \A l \in DOMAIN pending_requests \ {k} :
             \E m \in DOMAIN rest : rest[m] = pending_requests[l]
    BY <2>2, WithoutFacts
  <2>6. /\ waits' \in [Procs -> Events \cup NotEvents]
        /\ \A q \in Procs : q # BusThread => waits'[q] = waits[q]
    BY <2>3, Names, EventNames, OthersWait DEF Procs, Threads, BusThread
  <2>7. \A i \in Initiators : /\ waits'[RunThread(i)] = waits[RunThread(i)]
                              /\ waits'[PeqMethod(i)] = waits[PeqMethod(i)]
    BY <2>6, Names
  <2>8. waits'[TargetThread] = waits[TargetThread]
    BY <2>6 DEF Procs, Threads, BusThread, TargetThread
  <2>9. \A i \in Initiators : /\ ResponseDone(i) # "target.request_event"
                              /\ PeqEvent(i) # "target.request_event"
    BY Names
  <2>10. response_in_progress = Null /\ stage \notin {"accept", "execute"}
    BY <1>2 DEF TargetInv
  <2>11. \A i \in Initiators : peq[i] = <<>> /\ ~Active(i)
    BY <1>2 DEF PeqInv, Active
  <2>12. calls' = calls /\ peq' = peq /\ status' = status /\ read_data' = read_data
    BY <2>3 DEF payload, initiators
  <2> HIDE DEF k, rest
  <2>13. \A l \in DOMAIN pending_requests \ {k} : pending_requests[l][1] # t[1]
    BY <2>2 DEF FlightInv
  <2> HIDE DEF t
  <2>14. \A i \in Initiators : /\ Queued(i)' <=> Queued(i) /\ i # t[1]
                               /\ Active(i)' <=> i = t[1]
    <3> SUFFICES ASSUME NEW i \in Initiators
                 PROVE  (Queued(i)' <=> Queued(i) /\ i # t[1]) /\ (Active(i)' <=> i = t[1])
      OBVIOUS
    <3>1. Active(i)' <=> i = t[1]
      BY <2>3, <2>4 DEF Active
    <3>2. ASSUME Queued(i)' PROVE Queued(i) /\ i # t[1]
      <4>1. PICK m \in DOMAIN rest : rest[m][1] = i
        BY <2>3, <3>2 DEF Queued
      <4> QED BY <2>5, <2>13, <4>1 DEF Queued
    <3>3. ASSUME Queued(i), i # t[1] PROVE Queued(i)'
      <4>1. PICK l \in DOMAIN pending_requests : pending_requests[l][1] = i
        BY <3>3 DEF Queued
      <4>2. l # k
        BY <3>3, <4>1 DEF t
      <4> QED BY <2>3, <2>5, <4>1, <4>2 DEF Queued
    <3> QED BY <3>1, <3>2, <3>3
  <2>15. Queued(t[1])
    BY <2>2 DEF Queued, t
  <2>16. \A i \in Initiators : (InFlight(i)' <=> InFlight(i)) /\ Current(i)' = Current(i)
    BY <2>11, <2>12, <2>14, <2>15 DEF InFlight, Current
  <2>17. TypeInv'
    BY <2>3, <2>4, <2>5, <2>6, <2>12 DEF TypeInv
  <2>18. FlightInv'
    <3>1. ASSUME NEW i \in Initiators, InFlight(i)'
          PROVE  /\ calls'[i] \in {2, 3}
                 /\ waits'[RunThread(i)] = ResponseDone(i) /\ ResponseDone(i) \notin notified'
      BY <2>3, <2>7, <2>9, <2>12, <2>16, <3>1 DEF FlightInv
    <3>2. \A m \in DOMAIN rest : rest[m] = Current(rest[m][1])
      BY <2>5 DEF FlightInv
    <3>3. ASSUME NEW m \in DOMAIN rest, NEW n \in DOMAIN rest, rest[m][1] = rest[n][1]
          PROVE  m = n
      <4>1. PICK l \in DOMAIN pending_requests \ {k} :
              rest[m] = pending_requests[l] /\ l = IF m < k THEN m ELSE m + 1
        BY <2>5
      <4>2. PICK j \in DOMAIN pending_requests \ {k} :
              rest[n] = pending_requests[j] /\ j = IF n < k THEN n ELSE n + 1
        BY <2>5
      <4>3. l = j
        BY <3>3, <4>1, <4>2 DEF FlightInv
      <4>4. m \in Nat /\ n \in Nat /\ k \in Nat
        <5>1. DOMAIN rest = 1..Len(rest) /\ DOMAIN pending_requests = 1..Len(pending_requests)
          BY <2>2, <2>5
        <5> QED BY <2>2, <5>1
      <4> QED BY <4>1, <4>2, <4>3, <4>4
    <3>4. t = <<t[1], calls'[t[1]] - 1>>
      BY <2>4, <2>12 DEF Current
    <3>5. \A m \in DOMAIN rest : rest[m][1] # t[1]
      BY <2>5, <2>13
    <3>6. \A m \in DOMAIN rest : rest[m] = <<rest[m][1], calls'[rest[m][1]] - 1>>
      BY <2>12, <3>2 DEF Current
    <3>7. \A i \in Initiators : ResponseDone(i) \in notified' =>
                                   waits'[RunThread(i)] = ResponseDone(i)
      BY <2>3, <2>7, <2>9 DEF FlightInv
    <3> QED BY <2>3, <3>1, <3>3, <3>4, <3>5, <3>6, <3>7 DEF FlightInv, Current, Queued
  <2>19. TargetInv'
    <3>1. Fresh'
      BY <2>3, <2>4, <2>10 DEF Fresh
    <3>2. ~(stage = "request" /\ waits[TargetThread] = "ready")
      BY <1>2 DEF TargetInv, Fresh
    <3> QED BY <2>3, <2>8, <2>10, <3>1, <3>2 DEF TargetInv
  <2>20. PeqInv'
    <3> SUFFICES ASSUME NEW i \in Initiators
                 PROVE  /\ peq'[i] = <<>>
                        /\ waits'[PeqMethod(i)] \in {"ready", PeqEvent(i)}
                        /\ waits'[PeqMethod(i)] # "ready" /\ PeqEvent(i) \notin notified'
      BY ShortQueues DEF PeqInv
    <3> QED BY <2>3, <2>7, <2>9, <2>11, <2>12 DEF PeqInv
  <2>21. AnswerInv'
    <3>1. \A i \in Initiators : Answered(i)' => Answered(i)
      BY <2>3, <2>10, <2>16 DEF Answered
    <3> QED BY <2>3, <2>12, <3>1 DEF AnswerInv
  <2> QED BY <2>17, <2>18, <2>19, <2>20, <2>21
<1> QED BY <1>1, <1>2

(* A call of send_transaction queues the caller's next request, and the    *)
(* caller sleeps; the READ that returned last gave what the WRITE wrote.   *)
LEMMA RunInv == ASSUME Inv, NEW i \in Initiators, Run(i) PROVE Inv'
<1> USE DEF Inv
<1> DEFINE t == <<i, calls[i]>>
           Sends == /\ calls[i] \in {1, 2}
                    /\ pending_requests' = Append(pending_requests, t)
                    /\ status' = [status EXCEPT ![t] = "TLM_INCOMPLETE_RESPONSE"]
                    /\ waits' = [waits EXCEPT ![RunThread(i)] = ResponseDone(i)]
           Rests == calls[i] \in {0, 3} /\ UNCHANGED <<pending_requests, status>>
<1>1. /\ waits[RunThread(i)] = "ready"
      /\ calls' = [calls EXCEPT ![i] = @ + 1]
      /\ UNCHANGED <<peq, read_data, active_request, target>>
  BY DEF Run, CanRun
<1>2. ~InFlight(i) /\ peq[i] = <<>> /\ Answered(i)
  <2>1. ResponseDone(i) # "ready"
    BY Names
  <2>2. ~InFlight(i)
    BY <1>1, <2>1 DEF FlightInv
  <2> QED BY <2>2 DEF PeqInv, InFlight, Answered
<1>3. /\ calls[i] \in 0..4 /\ calls' \in [Initiators -> 0..5]
      /\ calls'[i] = calls[i] + 1 /\ \A j \in Initiators \ {i} : calls'[j] = calls[j]
  BY <1>1 DEF TypeInv
<1>4. /\ \E e \in Events \cup NotEvents : waits' = [waits EXCEPT ![RunThread(i)] = e]
      /\ \E more \in SUBSET {"bus.service_event", "done_event"} :
           notified' = notified \cup more
      /\ sim' = sim
      /\ Sends \/ Rests
  <2>1. CASE calls[i] = 0
    <3>1. /\ waits' = [waits EXCEPT ![RunThread(i)] = "timed"]
          /\ notified' = notified \cup {} /\ sim' = sim
          /\ UNCHANGED <<pending_requests, status>>
      BY <2>1 DEF Run, WaitTime, Notify
    <3> QED BY <2>1, <3>1, EventNames
  <2>2. CASE calls[i] \in {1, 2}
    <3>1. /\ waits' = [waits EXCEPT ![RunThread(i)] = ResponseDone(i)]
          /\ notified' = notified \cup {"bus.service_event"} /\ sim' = sim
          /\ Sends
      BY <2>2 DEF Run, SendTransaction, WaitEvent, Notify
    <3>2. ResponseDone(i) \in Events \cup NotEvents
      BY Names
    <3> QED BY <3>1, <3>2
  <2>3. CASE calls[i] = 3
    <3>1. read_data[i] = WriteData(i)
      BY <1>2, <2>3 DEF AnswerInv, WriteData
    <3>2. /\ waits' = [waits EXCEPT ![RunThread(i)] = "ended"]
          /\ notified' = notified \cup {"done_event"} /\ sim' = sim
          /\ UNCHANGED <<pending_requests, status>>
      BY <2>3, <3>1 DEF Run, Finish, EndThread, Notify
    <3> QED BY <2>3, <3>2, EventNames
  <2> QED BY <2>1, <2>2, <2>3 DEF Run
<1>5. PICK e \in Events \cup NotEvents : waits' = [waits EXCEPT ![RunThread(i)] = e]
  BY <1>4
<1>6. PICK more \in SUBSET {"bus.service_event", "done_event"} :
        notified' = notified \cup more
  BY <1>4
<1>7. /\ waits' \in [Procs -> Events \cup NotEvents]
      /\ \A q \in Procs : q # RunThread(i) => waits'[q] = waits[q]
  BY <1>5, Names, OthersWait
<1>8. /\ \A j \in Initiators \ {i} : waits'[RunThread(j)] = waits[RunThread(j)]
      /\ \A j \in Initiators : waits'[PeqMethod(j)] = waits[PeqMethod(j)]
      /\ waits'[TargetThread] = waits[TargetThread]
  BY <1>7, Names
<1>9. \A j \in Initiators : /\ ResponseDone(j) \in notified' => ResponseDone(j) \in notified
                            /\ PeqEvent(j) \in notified' <=> PeqEvent(j) \in notified
                            /\ "target.request_event" \in notified' <=>
                                 "target.request_event" \in notified
  BY <1>6, Names
<1>10. t[1] = i /\ (Sends => t \in Txns)
  BY DEF Txns
<1>11. Sends => /\ pending_requests' \in Seq(Txns)
                /\ Len(pending_requests') = Len(pending_requests) + 1
                /\ \A k \in DOMAIN pending_requests : pending_requests'[k] = pending_requests[k]
                /\ pending_requests'[Len(pending_requests) + 1] = t
                /\ DOMAIN pending_requests' =
                     DOMAIN pending_requests \cup {Len(pending_requests) + 1}
                /\ Len(pending_requests) + 1 \notin DOMAIN pending_requests
                /\ waits'[RunThread(i)] = ResponseDone(i)
  <2> HIDE DEF t
  <2> SUFFICES ASSUME Sends PROVE
                /\ pending_requests' \in Seq(Txns)
                /\ Len(pending_requests') = Len(pending_requests) + 1
                /\ \A k \in DOMAIN pending_requests : pending_requests'[k] = pending_requests[k]
                /\ pending_requests'[Len(pending_requests) + 1] = t
                /\ DOMAIN pending_requests' =
                     DOMAIN pending_requests \cup {Len(pending_requests) + 1}
                /\ Len(pending_requests) + 1 \notin DOMAIN pending_requests
                /\ waits'[RunThread(i)] = ResponseDone(i)
    OBVIOUS
  <2>1. pending_requests \in Seq(Txns) /\ t \in Txns
    BY <1>10 DEF TypeInv
  <2>2. waits'[RunThread(i)] = ResponseDone(i)
    BY Names DEF TypeInv
  <2> QED BY <2>1, <2>2
<1>12. \A j \in Initiators : /\ Queued(j)' <=> Queued(j) \/ (j = i /\ Sends)
                             /\ Active(j)' <=> Active(j)
  <2>1. \A j \in Initiators : Active(j)' <=> Active(j)
    BY <1>1 DEF Active
  <2>2. CASE Sends
    <3> HIDE DEF t
    <3>1. \A j \in Initiators : Queued(j)' <=> Queued(j) \/ j = i
      BY <2>2, <1>10, <1>11 DEF Queued
    <3> QED BY <2>1, <2>2, <3>1
  <2>3. CASE Rests
    <3>1. \A j \in Initiators : Queued(j)' <=> Queued(j)
      BY <2>3 DEF Queued
    <3> QED BY <2>1, <2>3, <3>1
  <2> QED BY <1>4, <2>2, <2>3
<1>13. \A j \in Initiators \ {i} : /\ Current(j)' = Current(j)
                                   /\ EndReq(j)' = EndReq(j) /\ BeginResp(j)' = BeginResp(j)
                                   /\ InFlight(j)' <=> InFlight(j)
                                   /\ Answered(j)' <=> Answered(j)
  BY <1>1, <1>3, <1>12 DEF Current, EndReq, BeginResp, InFlight, Answered, target
<1>14. ~Active(i) /\ ~Queued(i)
  BY <1>2 DEF InFlight
<1>15. active_request # Null => /\ active_request[1] \in Initiators \ {i}
                                /\ status'[active_request] = status[active_request]
  <2> SUFFICES ASSUME active_request # Null
               PROVE  /\ active_request[1] \in Initiators \ {i}
                      /\ status'[active_request] = status[active_request]
    OBVIOUS
  <2>1. active_request \in Txns /\ active_request[1] \in Initiators
    BY Transaction DEF TypeInv
  <2>2. active_request[1] # i
    BY <1>14 DEF Active
  <2>3. active_request # t
    BY <1>10, <2>2
  <2> QED BY <1>4, <2>1, <2>2, <2>3 DEF TypeInv
<1>16. TypeInv'
  <2>1. calls' \in [Initiators -> 0..4]
    BY <1>1, <1>3, <1>4 DEF TypeInv
  <2>2. pending_requests' \in Seq(Txns)
    BY <1>4, <1>11 DEF TypeInv
  <2>3. status' \in [Txns -> {"TLM_INCOMPLETE_RESPONSE", "TLM_OK_RESPONSE"}]
    BY <1>4 DEF TypeInv
  <2> QED BY <1>1, <1>4, <1>7, <2>1, <2>2, <2>3 DEF TypeInv, target
<1>17. FlightInv'
  <2>1. ASSUME NEW j \in Initiators, InFlight(j)'
        PROVE  /\ calls'[j] \in {2, 3}
               /\ waits'[RunThread(j)] = ResponseDone(j) /\ ResponseDone(j) \notin notified'
    <3>1. CASE j # i
      BY <1>3, <1>8, <1>9, <1>13, <2>1, <3>1 DEF FlightInv
    <3>2. CASE j = i
      <4>1. Sends
        BY <1>12, <1>14, <2>1, <3>2 DEF InFlight
      <4>2. ResponseDone(i) \notin notified'
        <5>1. ResponseDone(i) # "ready"
          BY Names
        <5>2. ResponseDone(i) \notin notified
          BY <1>1, <5>1 DEF FlightInv
        <5> QED BY <1>9, <5>2
      <4> QED BY <1>3, <1>11, <3>2, <4>1, <4>2
    <3> QED BY <3>1, <3>2
  <2>2. ASSUME NEW j \in Initiators, ResponseDone(j) \in notified'
        PROVE  waits'[RunThread(j)] = ResponseDone(j)
    <3>1. ResponseDone(j) \in notified /\ ResponseDone(i) # "ready"
      BY <1>9, <2>2, Names
    <3>2. waits[RunThread(j)] = ResponseDone(j) /\ j # i
      BY <1>1, <3>1 DEF FlightInv
    <3> QED BY <1>8, <3>2
  <2>3. \A k \in DOMAIN pending_requests : /\ pending_requests[k][1] \in Initiators \ {i}
                                           /\ pending_requests[k] = Current(pending_requests[k][1])
    <3> SUFFICES ASSUME NEW k \in DOMAIN pending_requests
                 PROVE  pending_requests[k][1] \in Initiators \ {i}
      BY DEF FlightInv
    <3>1. pending_requests[k] \in Txns
      BY DEF TypeInv
    <3> QED BY <1>14, <3>1, Transaction DEF Queued
  <2>4. \A k \in DOMAIN pending_requests :
          pending_requests[k] = <<pending_requests[k][1], calls'[pending_requests[k][1]] - 1>>
    BY <1>3, <2>3 DEF Current
  <2>5. /\ \A k \in DOMAIN pending_requests' :
             pending_requests'[k] = <<pending_requests'[k][1], calls'[pending_requests'[k][1]] - 1>>
        /\ \A k, l \in DOMAIN pending_requests' :
             pending_requests'[k][1] = pending_requests'[l][1] => k = l
    <3>1. CASE Rests
      BY <2>4, <3>1 DEF FlightInv
    <3>2. CASE Sends
      <4>1. t = <<t[1], calls'[t[1]] - 1>>
        BY <1>3, <1>10
      <4> HIDE DEF t
      <4> QED BY <1>10, <1>11, <2>3, <2>4, <3>2, <4>1 DEF FlightInv
    <3> QED BY <1>4, <3>1, <3>2
  <2>6. active_request' # Null =>
          /\ active_request' = <<active_request'[1], calls'[active_request'[1]] - 1>>
          /\ ~(\E k \in DOMAIN pending_requests' : pending_requests'[k][1] = active_request'[1])
    <3> SUFFICES ASSUME active_request # Null
                 PROVE  /\ active_request = <<active_request[1], calls'[active_request[1]] - 1>>
                        /\ ~(\E k \in DOMAIN pending_requests' :
                               pending_requests'[k][1] = active_request[1])
      BY <1>1
    <3>1. /\ active_request = Current(active_request[1]) /\ ~Queued(active_request[1])
          /\ active_request[1] \in Initiators \ {i}
      BY <1>15 DEF FlightInv
    <3>2. ~(\E k \in DOMAIN pending_requests' : pending_requests'[k][1] = active_request[1])
      BY <1>12, <3>1 DEF Queued
    <3> QED BY <1>3, <3>1, <3>2 DEF Current
  <2> QED BY <2>1, <2>2, <2>5, <2>6 DEF FlightInv, Current, Queued
<1>18. TargetInv'
  BY <1>1, <1>8, <1>9, <1>15 DEF TargetInv, Fresh, target
<1>19. PeqInv'
  <2> SUFFICES ASSUME NEW j \in Initiators
               PROVE  /\ peq[j] \in {<<>>, <<EndReq(j)'>>, <<BeginResp(j)'>>,
                                     <<EndReq(j)', BeginResp(j)'>>}
                      /\ peq[j] # <<>> =>
                           Active(j)' /\ (stage = "execute" \/ response_in_progress # Null)
                      /\ peq[j] \in {<<BeginResp(j)'>>, <<EndReq(j)', BeginResp(j)'>>} =>
                           response_in_progress # Null
                      /\ waits[PeqMethod(j)] \in {"ready", PeqEvent(j)}
                      /\ waits[PeqMethod(j)] = "ready" \/ PeqEvent(j) \in notified => peq[j] # <<>>
                      /\ waits[PeqMethod(j)] = "ready" /\ PeqEvent(j) \in notified =>
                           peq[j] = <<EndReq(j)', BeginResp(j)'>>
    BY <1>1, <1>8, <1>9 DEF PeqInv, target
  <2>1. CASE j # i
    BY <1>12, <1>13, <2>1 DEF PeqInv
  <2>2. CASE j = i
    BY <1>2, <2>2, ShortQueues DEF PeqInv
  <2> QED BY <2>1, <2>2
<1>20. AnswerInv'
  <2> SUFFICES ASSUME NEW j \in Initiators
               PROVE  /\ calls'[j] = 2 /\ Answered(j)' => words[j] = j
                      /\ calls'[j] = 3 => words[j] = j
                      /\ calls'[j] = 3 /\ Answered(j)' => read_data[j] = j
    BY <1>1 DEF AnswerInv, target
  <2>1. CASE j # i
    BY <1>3, <1>13, <2>1 DEF AnswerInv
  <2>2. CASE j = i
    <3>1. Sends => ~Answered(i)'
      BY <1>12, <1>14 DEF Answered, InFlight
    <3>2. Rests => calls'[i] \in {1, 4}
      BY <1>3
    <3>3. calls'[i] = 3 => words[i] = i
      BY <1>2, <1>3 DEF AnswerInv
    <3> QED BY <1>4, <2>2, <3>1, <3>2, <3>3
  <2> QED BY <2>1, <2>2
<1> QED BY <1>16, <1>17, <1>18, <1>19, <1>20

(* The queues of phases an initiator can have.                             *)
LEMMA PhaseQueues ==
  ASSUME NEW i, NEW q
  PROVE  /\ q \in {<<EndReq(i)>>, <<BeginResp(i)>>, <<EndReq(i), BeginResp(i)>>} => q # <<>>
         /\ q = <<EndReq(i)>> =>
              Head(q).phase = "END_REQ" /\ Tail(q) = <<>> /\ q # <<EndReq(i), BeginResp(i)>>
         /\ q = <<BeginResp(i)>> =>
              /\ Head(q).phase = "BEGIN_RESP" /\ Head(q).txn = Current(i) /\ Tail(q) = <<>>
              /\ q # <<EndReq(i), BeginResp(i)>>
         /\ q = <<EndReq(i), BeginResp(i)>> =>
              Head(q).phase = "END_REQ" /\ Tail(q) = <<BeginResp(i)>>
<1> DEFINE a == EndReq(i)
           b == BeginResp(i)
<1>1. /\ a.phase = "END_REQ" /\ b.phase = "BEGIN_RESP" /\ b.txn = Current(i)
  BY PhasesDiffer
<1> HIDE DEF a, b
<1>2. /\ <<a>> # <<>> /\ <<b>> # <<>> /\ <<a, b>> # <<>>
      /\ <<a>> # <<a, b>> /\ <<b>> # <<a, b>>
      /\ Head(<<a>>) = a /\ Tail(<<a>>) = <<>> /\ Head(<<b>>) = b /\ Tail(<<b>>) = <<>>
      /\ Head(<<a, b>>) = a /\ Tail(<<a, b>>) = <<b>>
  OBVIOUS
<1>3. /\ q \in {<<a>>, <<b>>, <<a, b>>} => q # <<>>
      /\ q = <<a>> => Head(q).phase = "END_REQ" /\ Tail(q) = <<>> /\ q # <<a, b>>
      /\ q = <<b>> => /\ Head(q).phase = "BEGIN_RESP" /\ Head(q).txn = Current(i)
                      /\ Tail(q) = <<>> /\ q # <<a, b>>
      /\ q = <<a, b>> => Head(q).phase = "END_REQ" /\ Tail(q) = <<b>>
  BY <1>1, <1>2
<1> QED BY <1>3 DEF a, b

(* A callback takes the first phase of the queue; with BEGIN_RESP it finds *)
(* its transaction active at bus and target, and both let go of it.        *)
LEMMA HandleInv == ASSUME Inv, NEW i \in Initiators, HandleBwPhase(i) PROVE Inv'
<1> USE DEF Inv
<1>1. /\ waits[PeqMethod(i)] = "ready"
      /\ peq' = [peq EXCEPT ![i] = Tail(@)]
      /\ UNCHANGED <<payload, calls, done, read_data, pending_requests, stage, serving, words>>
  BY DEF HandleBwPhase, CanRun, PopPhase
<1>2. /\ peq[i] \in {<<EndReq(i)>>, <<BeginResp(i)>>, <<EndReq(i), BeginResp(i)>>}
      /\ Active(i)
      /\ PeqEvent(i) \in notified => peq[i] = <<EndReq(i), BeginResp(i)>>
  BY <1>1 DEF PeqInv
<1>3. /\ peq' \in [Initiators -> Seq([txn : Txns, phase : PHASES])]
      /\ \A j \in Initiators \ {i} : peq'[j] = peq[j]
      /\ peq'[i] = Tail(peq[i])
  <2>1. peq[i] \in Seq([txn : Txns, phase : PHASES]) /\ peq[i] # <<>>
    BY <1>2, PhaseQueues DEF TypeInv
  <2>2. Tail(peq[i]) \in Seq([txn : Txns, phase : PHASES])
    BY <2>1
  <2> QED BY <1>1, <2>2 DEF TypeInv
<1>4. /\ PeqEvent(i) \in Events \cup NotEvents /\ PeqEvent(i) # "ready"
      /\ PeqMethod(i) \in Procs
  BY Names
<1>5. /\ \A j \in Initiators : Current(j)' = Current(j) /\ EndReq(j)' = EndReq(j)
                               /\ BeginResp(j)' = BeginResp(j) /\ Queued(j)' = Queued(j)
      /\ status' = status
  BY <1>1 DEF Current, EndReq, BeginResp, Queued, payload
<1>6. ASSUME waits' = [waits EXCEPT ![PeqMethod(i)] = PeqEvent(i)]
      PROVE  /\ waits' \in [Procs -> Events \cup NotEvents]
             /\ waits'[PeqMethod(i)] = PeqEvent(i)
             /\ \A j \in Initiators \ {i} : waits'[PeqMethod(j)] = waits[PeqMethod(j)]
             /\ \A j \in Initiators : waits'[RunThread(j)] = waits[RunThread(j)]
             /\ waits'[TargetThread] = waits[TargetThread]
  <2>1. /\ waits' \in [Procs -> Events \cup NotEvents] /\ waits'[PeqMethod(i)] = PeqEvent(i)
        /\ \A q \in Procs : q # PeqMethod(i) => waits'[q] = waits[q]
    BY <1>4, <1>6, OthersWait
  <2> QED BY <2>1, Names
<1>7. CASE Head(peq[i]).phase = "END_REQ"
  <2>1. /\ waits' = [waits EXCEPT ![PeqMethod(i)] = PeqEvent(i)]
        /\ notified' = notified /\ sim' = sim
        /\ UNCHANGED <<active_request, pending_request, response_in_progress>>
    BY <1>7 DEF HandleBwPhase, Notify, WaitEvent
  <2>2. \/ peq[i] = <<EndReq(i)>> /\ peq'[i] = <<>> /\ PeqEvent(i) \notin notified
        \/ peq[i] = <<EndReq(i), BeginResp(i)>> /\ peq'[i] = <<BeginResp(i)>>
    BY <1>2, <1>3, <1>7, PhaseQueues
  <2>3. \A j \in Initiators : Active(j)' = Active(j) /\ InFlight(j)' = InFlight(j)
                              /\ Answered(j)' = Answered(j)
    BY <1>5, <2>1 DEF Active, InFlight, Answered
  <2>4. TypeInv'
    BY <1>1, <1>3, <1>6, <2>1 DEF TypeInv, payload
  <2>5. FlightInv'
    BY <1>1, <1>6, <2>1, <2>3 DEF FlightInv, InFlight, Active, Queued, Current
  <2>6. TargetInv'
    BY <1>1, <1>6, <2>1 DEF TargetInv, Fresh, payload
  <2>7. PeqInv'
    <3> SUFFICES ASSUME NEW j \in Initiators
                 PROVE  /\ peq'[j] \in {<<>>, <<EndReq(j)>>, <<BeginResp(j)>>,
                                        <<EndReq(j), BeginResp(j)>>}
                        /\ peq'[j] # <<>> =>
                             Active(j) /\ (stage = "execute" \/ response_in_progress # Null)
                        /\ peq'[j] \in {<<BeginResp(j)>>, <<EndReq(j), BeginResp(j)>>} =>
                             response_in_progress # Null
                        /\ waits'[PeqMethod(j)] \in {"ready", PeqEvent(j)}
                        /\ waits'[PeqMethod(j)] = "ready" \/ PeqEvent(j) \in notified =>
                             peq'[j] # <<>>
                        /\ waits'[PeqMethod(j)] = "ready" /\ PeqEvent(j) \in notified =>
                             peq'[j] = <<EndReq(j), BeginResp(j)>>
      BY <1>1, <1>5, <2>1, <2>3 DEF PeqInv
    <3>1. CASE j # i
      BY <1>3, <1>6, <2>1, <3>1 DEF PeqInv
    <3>2. CASE j = i
      <4>1. waits'[PeqMethod(i)] = PeqEvent(i) /\ PeqEvent(i) # "ready"
        BY <1>4, <1>6, <2>1
      <4>2. CASE peq[i] = <<EndReq(i)>> /\ peq'[i] = <<>> /\ PeqEvent(i) \notin notified
        BY <3>2, <4>1, <4>2, ShortQueues
      <4>3. CASE peq[i] = <<EndReq(i), BeginResp(i)>> /\ peq'[i] = <<BeginResp(i)>>
        <5>1. response_in_progress # Null
          BY <4>3 DEF PeqInv
        <5> QED BY <1>2, <3>2, <4>1, <4>3, <5>1, ShortQueues
      <4> QED BY <2>2, <4>2, <4>3
    <3> QED BY <3>1, <3>2
  <2>8. AnswerInv'
    BY <1>1, <2>3 DEF AnswerInv
  <2> QED BY <2>4, <2>5, <2>6, <2>7, <2>8
<1>8. CASE Head(peq[i]).phase = "BEGIN_RESP"
  <2>1. /\ peq[i] = <<BeginResp(i)>> /\ peq'[i] = <<>> /\ Head(peq[i]).txn = Current(i)
        /\ PeqEvent(i) \notin notified
    BY <1>2, <1>3, <1>8, PhaseQueues
  <2>2. /\ response_in_progress = active_request /\ active_request = Current(i)
        /\ active_request # Null /\ status[active_request] = "TLM_OK_RESPONSE"
    <3>1. response_in_progress # Null
      BY <2>1 DEF PeqInv
    <3> QED BY <1>2, <3>1 DEF TargetInv, FlightInv, Active
  <2>3. ~EndRespRefused(Head(peq[i]).txn)
    BY <2>1, <2>2 DEF EndRespRefused, SamePayload
  <2>4. /\ waits' = [waits EXCEPT ![PeqMethod(i)] = PeqEvent(i)]
        /\ notified' = notified \cup {"target.end_response_event", "bus.service_event",
                                      ResponseDone(i)}
        /\ sim' = sim
        /\ active_request' = Null /\ pending_request' = Null /\ response_in_progress' = Null
    <3> DEFINE Refused == EndRespRefused(Head(peq[i]).txn)
    <3>1. ForwardEndResp /\ Notify(EndRespEvents(i)) /\ WaitEvent(PeqMethod(i), PeqEvent(i))
      BY <1>8, <2>3 DEF HandleBwPhase
    <3> QED BY <3>1 DEF ForwardEndResp, Notify, EndRespEvents, WaitEvent
  <2>5. stage \notin {"accept", "execute"} /\ "target.request_event" \notin notified
        /\ ~(stage = "request" /\ waits[TargetThread] = "ready")
    BY <2>2 DEF TargetInv, Fresh
  <2>6. \A j \in Initiators : /\ ~Active(j)' /\ (Active(j) <=> j = i)
                              /\ ResponseDone(j) = ResponseDone(i) => j = i
                              /\ PeqEvent(j) \notin {"target.end_response_event",
                                                     "bus.service_event", ResponseDone(i)}
                              /\ ResponseDone(j) \notin {"target.end_response_event",
                                                         "bus.service_event"}
                              /\ "target.request_event" # ResponseDone(j)
    <3> SUFFICES ASSUME NEW j \in Initiators
                 PROVE  ~Active(j)' /\ (Active(j) <=> j = i)
      BY Names
    <3> QED BY <1>2, <2>4 DEF Active
  <2>7. ~Queued(i) /\ waits[RunThread(i)] = ResponseDone(i)
    BY <1>2 DEF FlightInv, InFlight, Active
  <2>8. \A j \in Initiators : /\ InFlight(j)' <=> InFlight(j) /\ j # i
                              /\ Answered(j)' => Answered(j)
    BY <1>5, <2>2, <2>4, <2>6, <2>7 DEF InFlight, Answered
  <2>9. TypeInv'
    BY <1>1, <1>3, <1>6, <2>4 DEF TypeInv, payload
  <2>10. FlightInv'
    <3>1. ASSUME NEW j \in Initiators, InFlight(j)'
          PROVE  /\ calls'[j] \in {2, 3}
                 /\ waits'[RunThread(j)] = ResponseDone(j) /\ ResponseDone(j) \notin notified'
      BY <1>1, <1>6, <2>4, <2>6, <2>8, <3>1 DEF FlightInv
    <3>2. ASSUME NEW j \in Initiators, ResponseDone(j) \in notified'
          PROVE  waits'[RunThread(j)] = ResponseDone(j)
      BY <1>6, <2>4, <2>6, <2>7, <3>2 DEF FlightInv
    <3> QED BY <1>1, <2>4, <3>1, <3>2 DEF FlightInv, Current
  <2>11. TargetInv'
    BY <1>1, <1>6, <2>4, <2>5, <2>6 DEF TargetInv
  <2>12. PeqInv'
    <3> SUFFICES ASSUME NEW j \in Initiators
                 PROVE  /\ peq'[j] = <<>> /\ waits'[PeqMethod(j)] = PeqEvent(j)
                        /\ PeqEvent(j) # "ready" /\ PeqEvent(j) \notin notified'
      BY ShortQueues DEF PeqInv
    <3>1. PeqEvent(j) # "ready" /\ PeqMethod(j) \in Procs
      BY Names
    <3>2. CASE j # i
      <4>1. peq[j] = <<>>
        BY <2>6, <3>2 DEF PeqInv
      <4>2. waits[PeqMethod(j)] = PeqEvent(j) /\ PeqEvent(j) \notin notified
        BY <4>1 DEF PeqInv
      <4> QED BY <1>3, <1>6, <2>4, <2>6, <3>1, <3>2, <4>1, <4>2
    <3>3. CASE j = i
      BY <1>4, <1>6, <2>1, <2>4, <2>6, <3>3
    <3> QED BY <3>2, <3>3
  <2>13. AnswerInv'
    BY <1>1, <2>8 DEF AnswerInv
  <2> QED BY <2>9, <2>10, <2>11, <2>12, <2>13
<1> QED BY <1>7, <1>8 DEF HandleBwPhase

(* What every segment of the target's thread leaves alone.                 *)
LEMMA TargetStep ==
  ASSUME Inv, ProcessRequests, NEW e \in Events \cup NotEvents,
         waits' = [waits EXCEPT ![TargetThread] = e]
  PROVE  /\ waits' \in [Procs -> Events \cup NotEvents] /\ waits'[TargetThread] = e
         /\ \A j \in Initiators : /\ waits'[RunThread(j)] = waits[RunThread(j)]
                                  /\ waits'[PeqMethod(j)] = waits[PeqMethod(j)]
         /\ \A j \in Initiators : /\ Current(j)' = Current(j) /\ EndReq(j)' = EndReq(j)
                                  /\ BeginResp(j)' = BeginResp(j) /\ Active(j)' = Active(j)
                                  /\ Queued(j)' = Queued(j) /\ InFlight(j)' = InFlight(j)
         /\ UNCHANGED <<calls, pending_requests, active_request, pending_request>>
<1>1. UNCHANGED <<calls, pending_requests, active_request, pending_request>>
  BY DEF ProcessRequests
<1>2. TargetThread \in Procs
  BY DEF Procs, Threads, TargetThread
<1>3. /\ waits' \in [Procs -> Events \cup NotEvents] /\ waits'[TargetThread] = e
      /\ \A q \in Procs : q # TargetThread => waits'[q] = waits[q]
  BY <1>2, OthersWait DEF Inv
<1>4. \A j \in Initiators : /\ waits'[RunThread(j)] = waits[RunThread(j)]
                            /\ waits'[PeqMethod(j)] = waits[PeqMethod(j)]
  BY <1>3, Names
<1>5. \A j \in Initiators : /\ Current(j)' = Current(j) /\ EndReq(j)' = EndReq(j)
                            /\ BeginResp(j)' = BeginResp(j) /\ Active(j)' = Active(j)
                            /\ Queued(j)' = Queued(j) /\ InFlight(j)' = InFlight(j)
  BY <1>1 DEF Current, EndReq, BeginResp, Active, Queued, InFlight
<1> QED BY <1>1, <1>3, <1>4, <1>5

(* The segments that serve a request find it active at the bus.            *)
LEMMA ServedIsActive ==
  ASSUME Inv, stage \in {"accept", "execute"}
  PROVE  /\ serving = active_request /\ serving \in Txns /\ serving # Null
         /\ serving[1] \in Initiators /\ serving = Current(serving[1]) /\ Active(serving[1])
         /\ response_in_progress = Null /\ ~Unknown
         /\ "target.request_event" \notin notified
         /\ \A j \in Initiators : Active(j) <=> j = serving[1]
<1> USE DEF Inv
<1>1. /\ serving = active_request /\ active_request # Null /\ response_in_progress = Null
      /\ "target.request_event" \notin notified
  BY DEF TargetInv, Fresh
<1>2. serving \in Txns /\ serving[1] \in Initiators /\ serving = Current(serving[1])
  BY <1>1, Transaction DEF TypeInv, FlightInv
<1> QED BY <1>1, <1>2 DEF Active, Unknown, SamePayload

(* The target waits for a request; one that came meanwhile is notified.    *)
LEMMA AwaitInv ==
  ASSUME Inv, ProcessRequests, AwaitRequest
  PROVE  Inv'
<1> USE DEF Inv
<1>1. /\ stage \in {"start", "response"} /\ stage' = "request"
      /\ waits' = [waits EXCEPT ![TargetThread] = "target.request_event"]
      /\ notified' = notified /\ sim' = sim
      /\ UNCHANGED <<serving, words, response_in_progress, read_data, status, peq>>
  BY DEF AwaitRequest, Wait, WaitEvent, Notify, TargetThread
<1>2. /\ waits' \in [Procs -> Events \cup NotEvents]
      /\ waits'[TargetThread] = "target.request_event"
      /\ \A j \in Initiators : /\ waits'[RunThread(j)] = waits[RunThread(j)]
                               /\ waits'[PeqMethod(j)] = waits[PeqMethod(j)]
      /\ \A j \in Initiators : /\ Current(j)' = Current(j) /\ EndReq(j)' = EndReq(j)
                               /\ BeginResp(j)' = BeginResp(j) /\ Active(j)' = Active(j)
                               /\ Queued(j)' = Queued(j) /\ InFlight(j)' = InFlight(j)
      /\ UNCHANGED <<calls, pending_requests, active_request, pending_request>>
  BY <1>1, TargetStep, EventNames
<1>3. TypeInv'
  BY <1>1, <1>2 DEF TypeInv
<1>4. FlightInv'
  BY <1>1, <1>2 DEF FlightInv, InFlight, Active, Queued, Current
<1>5. TargetInv'
  BY <1>1, <1>2 DEF TargetInv, Fresh
<1>6. PeqInv'
  BY <1>1, <1>2 DEF PeqInv
<1>7. AnswerInv'
  BY <1>1, <1>2 DEF AnswerInv, Answered
<1> QED BY <1>3, <1>4, <1>5, <1>6, <1>7

(* The target is woken for a request that is active and not yet taken.     *)
LEMMA TakeInv ==
  ASSUME Inv, ProcessRequests, TakeRequest
  PROVE  Inv'
<1> USE DEF Inv
<1>1. /\ stage = "request" /\ stage' = "accept" /\ serving' = pending_request
      /\ waits' = [waits EXCEPT ![TargetThread] = "timed"]
      /\ waits[TargetThread] = "ready"
      /\ notified' = notified /\ sim' = sim
      /\ UNCHANGED <<words, response_in_progress, read_data, status, peq>>
  BY DEF ProcessRequests, CanRun, TakeRequest, WaitTime, Notify, TargetThread
<1>2. /\ waits' \in [Procs -> Events \cup NotEvents]
      /\ waits'[TargetThread] = "timed"
      /\ \A j \in Initiators : /\ waits'[RunThread(j)] = waits[RunThread(j)]
                               /\ waits'[PeqMethod(j)] = waits[PeqMethod(j)]
      /\ \A j \in Initiators : /\ Current(j)' = Current(j) /\ EndReq(j)' = EndReq(j)
                               /\ BeginResp(j)' = BeginResp(j) /\ Active(j)' = Active(j)
                               /\ Queued(j)' = Queued(j) /\ InFlight(j)' = InFlight(j)
      /\ UNCHANGED <<calls, pending_requests, active_request, pending_request>>
  BY <1>1, TargetStep, EventNames
<1>3. /\ active_request # Null /\ response_in_progress = Null
      /\ pending_request = active_request /\ "target.request_event" \notin notified
  BY <1>1 DEF TargetInv, Fresh
<1>4. TypeInv'
  BY <1>1, <1>2 DEF TypeInv
<1>5. FlightInv'
  BY <1>1, <1>2 DEF FlightInv, InFlight, Active, Queued, Current
<1>6. TargetInv'
  BY <1>1, <1>2, <1>3 DEF TargetInv
<1>7. PeqInv'
  BY <1>1, <1>2, <1>3 DEF PeqInv
<1>8. AnswerInv'
  BY <1>1, <1>2 DEF AnswerInv, Answered
<1> QED BY <1>4, <1>5, <1>6, <1>7, <1>8

(* END_REQ goes to the initiator whose request is served, and to it alone. *)
LEMMA EndReqInv ==
  ASSUME Inv, ProcessRequests, SendEndReq
  PROVE  Inv'
<1> USE DEF Inv
<1> DEFINE s == serving[1]
<1>1. stage = "accept"
  BY DEF SendEndReq
<1>2. /\ serving = active_request /\ serving \in Txns /\ serving # Null
      /\ s \in Initiators /\ serving = Current(s) /\ Active(s)
      /\ response_in_progress = Null /\ ~Unknown
      /\ "target.request_event" \notin notified
      /\ \A j \in Initiators : Active(j) <=> j = s
  BY <1>1, ServedIsActive
<1>3. /\ stage' = "execute"
      /\ waits' = [waits EXCEPT ![TargetThread] = "timed"]
      /\ notified' = notified \cup {PeqEvent(s)} /\ sim' = sim
      /\ peq' = [peq EXCEPT ![s] = Append(@, [txn |-> serving, phase |-> "END_REQ"])]
      /\ UNCHANGED <<serving, words, response_in_progress, read_data, status>>
  BY <1>2 DEF SendEndReq, Backward, WaitTime, Notify, TargetThread
<1>4. /\ waits' \in [Procs -> Events \cup NotEvents]
      /\ waits'[TargetThread] = "timed"
      /\ \A j \in Initiators : /\ waits'[RunThread(j)] = waits[RunThread(j)]
                               /\ waits'[PeqMethod(j)] = waits[PeqMethod(j)]
      /\ \A j \in Initiators : /\ Current(j)' = Current(j) /\ EndReq(j)' = EndReq(j)
                               /\ BeginResp(j)' = BeginResp(j) /\ Active(j)' = Active(j)
                               /\ Queued(j)' = Queued(j) /\ InFlight(j)' = InFlight(j)
      /\ UNCHANGED <<calls, pending_requests, active_request, pending_request>>
  BY <1>3, TargetStep, EventNames
<1>5. \A j \in Initiators : /\ peq[j] = <<>> /\ waits[PeqMethod(j)] = PeqEvent(j)
                            /\ PeqEvent(j) \notin notified
  BY <1>1, <1>2 DEF PeqInv
<1>6. /\ peq'[s] = <<EndReq(s)>> /\ \A j \in Initiators \ {s} : peq'[j] = <<>>
      /\ peq' \in [Initiators -> Seq([txn : Txns, phase : PHASES])]
  <2>1. [txn |-> serving, phase |-> "END_REQ"] = EndReq(s)
    BY <1>2 DEF EndReq
  <2>2. Append(<<>>, EndReq(s)) = <<EndReq(s)>>
    BY ShortQueues
  <2>3. EndReq(s) \in [txn : Txns, phase : PHASES]
    BY <1>2 DEF EndReq, PHASES
  <2>4. <<EndReq(s)>> \in Seq([txn : Txns, phase : PHASES])
    BY <2>3
  <2>5. peq' = [peq EXCEPT ![s] = <<EndReq(s)>>]
    BY <1>2, <1>3, <1>5, <2>1, <2>2
  <2> HIDE DEF s
  <2> QED BY <1>2, <1>5, <2>4, <2>5 DEF TypeInv
<1>7. \A j \in Initiators : /\ ResponseDone(j) # PeqEvent(s)
                            /\ PeqEvent(j) = PeqEvent(s) => j = s
                            /\ PeqEvent(j) # "ready"
                            /\ PeqEvent(s) # "target.request_event"
  BY <1>2, Names
<1> HIDE DEF s
<1>8. TypeInv'
  BY <1>3, <1>4, <1>6 DEF TypeInv
<1>9. FlightInv'
  BY <1>3, <1>4, <1>7 DEF FlightInv, InFlight, Active, Queued, Current
<1>10. TargetInv'
  BY <1>2, <1>3, <1>4, <1>7 DEF TargetInv
<1>11. PeqInv'
  <2> SUFFICES ASSUME NEW j \in Initiators
               PROVE  /\ peq'[j] \in {<<>>, <<EndReq(j)>>}
                      /\ peq'[j] # <<>> => Active(j)
                      /\ waits'[PeqMethod(j)] = PeqEvent(j) /\ PeqEvent(j) # "ready"
                      /\ PeqEvent(j) \in notified' => peq'[j] # <<>>
                      /\ peq'[j] \notin {<<BeginResp(j)>>, <<EndReq(j), BeginResp(j)>>}
    BY <1>3, <1>4 DEF PeqInv
  <2>1. CASE j # s
    BY <1>3, <1>4, <1>5, <1>6, <1>7, <2>1, PhaseQueues
  <2>2. CASE j = s
    <3>1. <<EndReq(s)>> # <<>> /\ <<EndReq(s)>> # <<EndReq(s), BeginResp(s)>>
      BY PhaseQueues
    <3>2. <<EndReq(s)>> # <<BeginResp(s)>>
      BY PhasesDiffer
    <3> QED BY <1>2, <1>4, <1>5, <1>6, <1>7, <2>2, <3>1, <3>2
  <2> QED BY <2>1, <2>2
<1>12. AnswerInv'
  BY <1>3, <1>4 DEF AnswerInv, Answered
<1> QED BY <1>8, <1>9, <1>10, <1>11, <1>12

(* The answer carries the word the WRITE left, and goes to the initiator   *)
(* whose request is served.                                                *)
LEMMA BeginRespInv ==
  ASSUME Inv, ProcessRequests, SendBeginResp
  PROVE  Inv'
<1> USE DEF Inv
<1> DEFINE s == serving[1]
           n == serving[2]
<1>1. stage = "execute"
  BY DEF SendBeginResp
<1>2. /\ serving = active_request /\ serving \in Txns /\ serving # Null
      /\ s \in Initiators /\ serving = Current(s) /\ Active(s)
      /\ response_in_progress = Null /\ ~Unknown
      /\ "target.request_event" \notin notified
      /\ \A j \in Initiators : Active(j) <=> j = s
  BY <1>1, ServedIsActive
<1>3. n = calls[s] - 1 /\ calls[s] \in {2, 3}
  BY <1>2, CurrentDiffers DEF FlightInv, InFlight
<1>4. /\ stage' = "response" /\ response_in_progress' = serving /\ UNCHANGED serving
      /\ waits' = [waits EXCEPT ![TargetThread] = "target.end_response_event"]
      /\ notified' = notified \cup {PeqEvent(s)} /\ sim' = sim
      /\ peq' = [peq EXCEPT ![s] = Append(@, [txn |-> serving, phase |-> "BEGIN_RESP"])]
      /\ status' = [status EXCEPT ![serving] = "TLM_OK_RESPONSE"]
      /\ n = 1 => words' = [words EXCEPT ![s] = s] /\ UNCHANGED read_data
      /\ n # 1 => read_data' = [read_data EXCEPT ![s] = words[s]] /\ UNCHANGED words
  BY <1>2 DEF SendBeginResp, Execute, WriteData, Backward, Wait, WaitEvent, Notify, TargetThread
<1>5. /\ waits' \in [Procs -> Events \cup NotEvents]
      /\ waits'[TargetThread] = "target.end_response_event"
      /\ \A j \in Initiators : /\ waits'[RunThread(j)] = waits[RunThread(j)]
                               /\ waits'[PeqMethod(j)] = waits[PeqMethod(j)]
      /\ \A j \in Initiators : /\ Current(j)' = Current(j) /\ EndReq(j)' = EndReq(j)
                               /\ BeginResp(j)' = BeginResp(j) /\ Active(j)' = Active(j)
                               /\ Queued(j)' = Queued(j) /\ InFlight(j)' = InFlight(j)
      /\ UNCHANGED <<calls, pending_requests, active_request, pending_request>>
  BY <1>4, TargetStep, EventNames
<1>6. /\ \A j \in Initiators \ {s} : /\ peq[j] = <<>> /\ waits[PeqMethod(j)] = PeqEvent(j)
                                     /\ PeqEvent(j) \notin notified
      /\ \/ peq[s] = <<>> /\ waits[PeqMethod(s)] = PeqEvent(s)
         \/ peq[s] = <<EndReq(s)>> /\ waits[PeqMethod(s)] \in {"ready", PeqEvent(s)}
  BY <1>2 DEF PeqInv
<1>7. /\ \/ peq[s] = <<>> /\ peq'[s] = <<BeginResp(s)>>
         \/ peq[s] = <<EndReq(s)>> /\ peq'[s] = <<EndReq(s), BeginResp(s)>>
      /\ \A j \in Initiators \ {s} : peq'[j] = <<>>
      /\ peq' \in [Initiators -> Seq([txn : Txns, phase : PHASES])]
  <2>1. [txn |-> serving, phase |-> "BEGIN_RESP"] = BeginResp(s)
    BY <1>2 DEF BeginResp
  <2>2. /\ Append(<<>>, BeginResp(s)) = <<BeginResp(s)>>
        /\ Append(<<EndReq(s)>>, BeginResp(s)) = <<EndReq(s), BeginResp(s)>>
    BY ShortQueues
  <2>3. /\ EndReq(s) \in [txn : Txns, phase : PHASES]
        /\ BeginResp(s) \in [txn : Txns, phase : PHASES]
    BY <1>2 DEF EndReq, BeginResp, PHASES
  <2>4. /\ <<BeginResp(s)>> \in Seq([txn : Txns, phase : PHASES])
        /\ <<EndReq(s), BeginResp(s)>> \in Seq([txn : Txns, phase : PHASES])
    BY <2>3
  <2>5. peq' = [peq EXCEPT ![s] = Append(peq[s], BeginResp(s))]
    BY <1>4, <2>1
  <2>6. /\ peq[s] = <<>> => peq' = [peq EXCEPT ![s] = <<BeginResp(s)>>]
        /\ peq[s] = <<EndReq(s)>> => peq' = [peq EXCEPT ![s] = <<EndReq(s), BeginResp(s)>>]
    BY <2>2, <2>5
  <2> HIDE DEF s
  <2>7. CASE peq[s] = <<>>
    BY <1>2, <1>6, <2>4, <2>6, <2>7 DEF TypeInv
  <2>8. CASE peq[s] = <<EndReq(s)>>
    BY <1>2, <1>6, <2>4, <2>6, <2>8 DEF TypeInv
  <2> QED BY <1>6, <2>7, <2>8
<1>8. \A j \in Initiators : /\ ResponseDone(j) # PeqEvent(s)
                            /\ PeqEvent(j) = PeqEvent(s) => j = s
                            /\ PeqEvent(j) # "ready"
                            /\ PeqEvent(s) # "target.request_event"
  BY <1>2, Names
<1>9. /\ words' \in [Initiators -> Initiators \cup {0}]
      /\ read_data' \in [Initiators -> Initiators \cup {0}]
      /\ status' \in [Txns -> {"TLM_INCOMPLETE_RESPONSE", "TLM_OK_RESPONSE"}]
      /\ status'[serving] = "TLM_OK_RESPONSE"
      /\ \A j \in Initiators \ {s} : words'[j] = words[j] /\ read_data'[j] = read_data[j]
      /\ n = 1 => words'[s] = s
      /\ n # 1 => words'[s] = words[s] /\ read_data'[s] = words[s]
  BY <1>2, <1>4 DEF TypeInv
<1> HIDE DEF s, n
<1>10. TypeInv'
  BY <1>2, <1>4, <1>5, <1>7, <1>9 DEF TypeInv
<1>11. FlightInv'
  BY <1>4, <1>5, <1>8 DEF FlightInv, InFlight, Active, Queued, Current
<1>12. TargetInv'
  BY <1>2, <1>4, <1>5, <1>8, <1>9 DEF TargetInv
<1>13. PeqInv'
  <2> SUFFICES ASSUME NEW j \in Initiators
               PROVE  /\ peq'[j] \in {<<>>, <<BeginResp(j)>>, <<EndReq(j), BeginResp(j)>>}
                      /\ peq'[j] # <<>> => Active(j)
                      /\ waits'[PeqMethod(j)] \in {"ready", PeqEvent(j)}
                      /\ waits'[PeqMethod(j)] = "ready" \/ PeqEvent(j) \in notified' =>
                           peq'[j] # <<>>
                      /\ waits'[PeqMethod(j)] = "ready" =>
                           peq'[j] = <<EndReq(j), BeginResp(j)>>
    BY <1>2, <1>4, <1>5 DEF PeqInv
  <2>1. CASE j # s
    BY <1>4, <1>5, <1>6, <1>7, <1>8, <2>1
  <2>2. CASE j = s
    <3>1. <<BeginResp(s)>> # <<>> /\ <<EndReq(s), BeginResp(s)>> # <<>>
      BY PhaseQueues
    <3>2. <<EndReq(s)>> # <<>>
      BY PhaseQueues
    <3> QED BY <1>2, <1>5, <1>6, <1>7, <1>8, <2>2, <3>1, <3>2
  <2> QED BY <2>1, <2>2
<1>14. AnswerInv'
  <2> SUFFICES ASSUME NEW j \in Initiators
               PROVE  /\ calls[j] = 2 /\ Answered(j)' => words'[j] = j
                      /\ calls[j] = 3 => words'[j] = j
                      /\ calls[j] = 3 /\ Answered(j)' => read_data'[j] = j
    BY <1>5 DEF AnswerInv
  <2>1. CASE j # s
    <3>1. Answered(j)' => Answered(j)
      BY <1>2, <1>5, <2>1 DEF Answered
    <3> QED BY <1>9, <2>1, <3>1 DEF AnswerInv
  <2>2. CASE j = s
    <3>1. CASE calls[s] = 2
      BY <1>3, <1>9, <2>2, <3>1
    <3>2. CASE calls[s] = 3
      <4>1. n # 1 /\ words[s] = s
        BY <1>2, <1>3, <3>2 DEF AnswerInv
      <4> QED BY <1>9, <2>2, <3>2, <4>1
    <3> QED BY <1>3, <2>2, <3>1, <3>2
  <2> QED BY <2>1, <2>2
<1> QED BY <1>10, <1>11, <1>12, <1>13, <1>14

(* Every step keeps the invariant.                                         *)
LEMMA NextInv == Inv /\ [Next]_vars => Inv'
<1> SUFFICES ASSUME Inv, [Next]_vars PROVE Inv'
  OBVIOUS
<1>1. CASE Thread
  <2>1. ASSUME NEW i \in Initiators, Run(i) PROVE Inv'
    BY <2>1, RunInv
  <2>2. ASSUME NEW i \in Initiators, HandleBwPhase(i) PROVE Inv'
    BY <2>2, HandleInv
  <2>3. ASSUME ServiceRequests PROVE Inv'
    BY <2>3, ServiceInv
  <2>4. ASSUME ProcessRequests PROVE Inv'
    <3>1. AwaitRequest \/ TakeRequest \/ SendEndReq \/ SendBeginResp
      BY <2>4 DEF ProcessRequests
    <3>2. AwaitRequest => Inv'
      BY <2>4, AwaitInv
    <3>3. TakeRequest => Inv'
      BY <2>4, TakeInv
    <3>4. SendEndReq => Inv'
      BY <2>4, EndReqInv
    <3>5. SendBeginResp => Inv'
      BY <2>4, BeginRespInv
    <3> QED BY <3>1, <3>2, <3>3, <3>4, <3>5
  <2>5. ASSUME StopWhenDone PROVE Inv'
    BY <2>5, StopInv
  <2> QED BY <1>1, <2>1, <2>2, <2>3, <2>4, <2>5 DEF Thread
<1>2. CASE Scheduler
  <2>1. UNCHANGED <<payload, initiators, bus, target>>
    BY <1>2 DEF Scheduler
  <2>2. ASSUME DeltaCycle PROVE Inv'
    BY <2>1, <2>2, DeltaInv
  <2>3. ASSUME AdvanceTime PROVE Inv'
    <3>1. UNCHANGED <<payload, initiators, bus, target, waits, notified, sim>>
      BY <2>1, <2>3 DEF AdvanceTime
    <3> QED BY <3>1, TimeInv
  <2> QED BY <1>2, <2>2, <2>3 DEF Scheduler
<1>3. CASE UNCHANGED vars
  <2>1. UNCHANGED <<payload, initiators, bus, target, waits, notified, sim>>
    BY <1>3 DEF vars, kernel
  <2> QED BY <2>1, TimeInv
<1>4. CASE Exit
  BY <1>3, <1>4 DEF Exit
<1> QED BY <1>1, <1>2, <1>3, <1>4 DEF Next

(* A payload is alive as long as its transaction is the initiator's        *)
(* current one.                                                            *)
LEMMA CurrentIsAlive ==
  ASSUME TypeInv, NEW i \in Initiators
  PROVE  Alive(Current(i))
<1>1. Current(i)[1] = i /\ Current(i)[2] = calls[i] - 1 /\ calls[i] \in Int
  BY CurrentDiffers DEF TypeInv
<1> QED BY <1>1 DEF Alive

(* What the modules hold is the initiators' current transactions.          *)
LEMMA InvShared == Inv => PayloadShared
<1> SUFFICES ASSUME Inv PROVE PayloadShared
  OBVIOUS
<1> USE DEF Inv
<1>1. \A k \in DOMAIN pending_requests : Alive(pending_requests[k])
  <2> SUFFICES ASSUME NEW k \in DOMAIN pending_requests PROVE Alive(pending_requests[k])
    OBVIOUS
  <2>1. pending_requests[k] \in Txns
    BY DEF TypeInv
  <2>2. pending_requests[k][1] \in Initiators
    BY <2>1, Transaction
  <2>3. pending_requests[k] = Current(pending_requests[k][1])
    BY DEF FlightInv
  <2>4. Alive(Current(pending_requests[k][1]))
    BY <2>2, CurrentIsAlive
  <2> QED BY <2>3, <2>4
<1>2. active_request # Null => Alive(active_request)
  <2> SUFFICES ASSUME active_request # Null PROVE Alive(active_request)
    OBVIOUS
  <2>1. active_request[1] \in Initiators
    BY Transaction DEF TypeInv
  <2>2. active_request = Current(active_request[1])
    BY DEF FlightInv
  <2>3. Alive(Current(active_request[1]))
    BY <2>1, CurrentIsAlive
  <2> QED BY <2>2, <2>3
<1>3. \A t \in {active_request, pending_request, response_in_progress} \ {Null} : Alive(t)
  BY <1>2 DEF TargetInv
<1>4. \A i \in Initiators : \A k \in DOMAIN peq[i] : Alive(peq[i][k].txn)
  <2> SUFFICES ASSUME NEW i \in Initiators, NEW k \in DOMAIN peq[i]
               PROVE  Alive(peq[i][k].txn)
    OBVIOUS
  <2>1. peq[i] \in {<<>>, <<EndReq(i)>>, <<BeginResp(i)>>, <<EndReq(i), BeginResp(i)>>}
    BY DEF PeqInv
  <2>2. peq[i][k] \in {EndReq(i), BeginResp(i)}
    <3> DEFINE a == EndReq(i)
               b == BeginResp(i)
    <3> HIDE DEF a, b
    <3>1. peq[i] \in {<<>>, <<a>>, <<b>>, <<a, b>>} /\ k \in DOMAIN peq[i]
      BY <2>1 DEF a, b
    <3>2. peq[i][k] \in {a, b}
      BY <3>1
    <3> QED BY <3>2 DEF a, b
  <2>3. peq[i][k].txn = Current(i)
    BY <2>2, PhasesDiffer
  <2> QED BY <2>3, CurrentIsAlive
<1>5. stage \in {"accept", "execute"} => Alive(serving)
  BY <1>2 DEF TargetInv
<1>6. BusAgreesWithTarget
  BY DEF TargetInv, BusAgreesWithTarget
<1> QED BY <1>1, <1>3, <1>4, <1>5, <1>6 DEF PayloadShared, NoDanglingPayload

(* No SC_REPORT_FATAL of the AT smoke lab is reached, in whatever order    *)
(* SystemC runs the threads, under every policy, and whether or not the    *)
(* two payloads of an initiator share an address.                          *)
THEOREM LabNeverAborts == Spec => []NeverAborts
<1>1. Inv => NeverAborts
  BY DEF Inv, TypeInv, NeverAborts
<1> QED BY <1>1, InitInv, NextInv, PTL DEF Spec

(* Bus, target and initiators hold one transaction, and only pointers to   *)
(* payloads whose send_transaction has not returned: the initiator is only *)
(* woken when all of them have let go of it.                               *)
THEOREM PayloadIsShared == Spec => []PayloadShared
<1> QED BY InitInv, NextInv, InvShared, PTL DEF Spec

=============================================================================
