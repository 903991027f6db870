---------------------------- MODULE LtSweepRows ----------------------------
(***************************************************************************)
(* What the two LT sweeps make of a latency trace: the row of a case in    *)
(* the summary, for the sessions the trace holds.                          *)
(***************************************************************************)
EXTENDS LtBus, FiniteSetsExt, TLC

M == INSTANCE MemorySweep
W == INSTANCE WorkloadSweep

CasesOf(s) == IF s = "memory" THEN M!CASES ELSE W!CASES

(* The rows of a trace: those of its sessions, one after the other.        *)
Session(workload, complete) == [workload |-> workload, complete |-> complete]

(* The workload a case gets when its settings reach the program.           *)
WorkloadOf(s, c) == getWorkloadSettings(CasesOf(s)[c].settings, NoSettings)

Workloads == {DefaultWorkload} \union {WorkloadOf("memory", c) : c \in DOMAIN M!CASES}
               \union {WorkloadOf("workload", c) : c \in DOMAIN W!CASES}

SessionRows ==
  {LET written == LatencyTrace(w)
   IN  [workload |-> w,
        rows |-> [k \in DOMAIN written |-> written[k] @@ [workload |-> w]]]
   : w \in Workloads}

Remaining(rows, complete) == IF complete THEN rows ELSE SubSeq(rows, 1, Len(rows) - 1)

RowsOf(session) ==
  Remaining((CHOOSE s \in SessionRows : s.workload = session.workload).rows, session.complete)

TraceRows(sessions) ==
  FoldLeft(LAMBDA all, session : all \o RowsOf(session), <<>>, sessions)

(* The row of a case in the summary: the analysis of its trace.            *)
Row(c, passed, metrics) == [case |-> c, passed |-> passed, metrics |-> metrics]
empty_metrics == [total_bank_conflicts |-> 0]

AnalyseMemory(c, trace) ==
  Row(c, M!validate_case_trace(M!CASES[c], trace), M!compute_summary_metrics(trace))

AnalyseWorkload(c, trace, both) ==
  IF W!analyze_latency(both, TRUE) # 0 THEN Row(c, FALSE, empty_metrics)
  ELSE Row(c, W!validate_case_trace(W!CASES[c], trace), W!summary_metrics(both))

AnalyseTrace(s, c, trace) ==
  IF s = "memory" THEN AnalyseMemory(c, trace)
  ELSE AnalyseWorkload(c, trace, W!filter_rows(W!dedup_identical_rows(trace), {101, 102}))

Analyse(s, c, sessions) == AnalyseTrace(s, c, TraceRows(sessions))

RobotTests == 2
Own(s, c, complete) ==
  [test \in 1..RobotTests |-> Session(WorkloadOf(s, c), complete[test])]

(* Those of the traces a case leaves when nothing else is in its file.     *)
Cuts == {<<TRUE, TRUE>>, <<FALSE, TRUE>>, <<TRUE, FALSE>>}

AnalysisOf(s, c, complete) ==
  [sweep |-> s, case |-> c, sessions |-> Own(s, c, complete),
   row |-> Analyse(s, c, Own(s, c, complete))]

OwnMemory   == {AnalysisOf("memory", c, complete) : c \in 1..3, complete \in Cuts}
OwnWorkload == {AnalysisOf("workload", c, complete) : c \in 1..5, complete \in Cuts}

AnalysedIn(own, s, c, sessions) ==
  IF \E a \in own : a.case = c /\ a.sessions = sessions
    THEN (CHOOSE a \in own : a.case = c /\ a.sessions = sessions).row
    ELSE Analyse(s, c, sessions)

Analysed(s, c, sessions) ==
  AnalysedIn(IF s = "memory" THEN OwnMemory ELSE OwnWorkload, s, c, sessions)
=============================================================================
