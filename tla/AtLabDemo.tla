----------------------------- MODULE AtLabDemo -----------------------------
(***************************************************************************)
(* The AT smoke lab's demonstration, examples/at/tools/demo_at_lab.py, and *)
(* the arbitration sweep it starts, run_arbitration_sweep.py, which can    *)
(* also be invoked on its own.  The program writes every trace to the one  *)
(* file phase_trace.csv, so the sweep overwrites the trace the             *)
(* demonstration has analyzed, and the demonstration puts it back.         *)
(*                                                                         *)
(* Run 0 is the default run of the demonstration, run k the k-th policy of *)
(* the sweep.  At most one thing goes wrong, and an interrupt may come     *)
(* between any two steps.  The output directory is the default one.        *)
(***************************************************************************)
EXTENDS PhaseTraces, Integers

LOCAL INSTANCE FiniteSets
LOCAL INSTANCE FiniteSetsExt
LOCAL INSTANCE SequencesExt

CONSTANT Cuts     \* how many rows a trace that is cut short may have

VARIABLES
  args, faults, pc,
  outputs,         \* what the trace, the analysis and the sweep's tables hold
  cases,           \* policy -> what the files of its directory hold
  results,         \* of the sweep so far
  default_trace,   \* the bytes main has kept
  returncode

vars == <<args, faults, pc, outputs, cases, results, default_trace, returncode>>

POLICIES == <<"fifo", "priority_101", "priority_102">>

Nothing == [by |-> "none"]
Earlier == [by |-> "earlier"]
Written(content) == [by |-> "this", holds |-> content]

AllFiles(file) == [trace |-> file, metrics |-> file, timeline |-> file]

(* missing: the program.  exit, truncated: run ends with an error, or with *)
(* 0, after cut rows of its trace; not_a_directory: a file lies where its  *)
(* directory, or with run 0 that of them all, should be.                   *)
Faults ==
  {[kind |-> kind, run |-> 0, cut |-> 0] : kind \in {"none", "missing"}} \cup
  [kind : {"exit", "truncated"}, run : 0..3, cut : Cuts] \cup
  [kind : {"no_trace", "not_a_directory"}, run : 0..3, cut : {0}]

(* The demonstration has just removed the directories of the policies.     *)
Possible(a, f) ==
  /\ f.run \in DOMAIN a.policies \cup (IF a.tool = "demo" \/ f.kind = "none" \/ f.kind = "missing"
                                         THEN {0} ELSE {})
  /\ f.kind = "not_a_directory" /\ a.tool = "demo" => f.run = 0

Blocked(k) == faults.kind = "not_a_directory" /\ faults.run = k

Init ==
  /\ args \in [tool : {"demo", "sweep"}, keep_going : BOOLEAN,
               policies : {POLICIES} \cup {<<POLICIES[k]>> : k \in DOMAIN POLICIES}]
  /\ args.tool = "demo" => args.policies = POLICIES
  /\ faults \in {f \in Faults : Possible(args, f)}
  /\ pc = IF args.tool = "demo" THEN [step |-> "require", at |-> 0]
                                ELSE [step |-> "clear", at |-> 1]
  /\ outputs = [o \in {"phase_trace", "analysis", "summary", "comparison"} |->
                  IF Blocked(0) /\ o \in {"summary", "comparison"} THEN Nothing ELSE Earlier]
  /\ cases = [p \in Policies |->
                AllFiles(IF \E k \in DOMAIN args.policies :
                              Blocked(0) \/ (Blocked(k) /\ args.policies[k] = p)
                           THEN Nothing ELSE Earlier)]
  /\ results = <<>>
  /\ default_trace = Nothing
  /\ returncode = -1

Fault(k) == IF faults.run = k THEN faults.kind ELSE "none"

Goto(step, k) == pc' = [step |-> step, at |-> k] /\ UNCHANGED returncode
Exit(code) == pc' = [step |-> "ended", at |-> 0] /\ returncode' = code

(* What run k, under the policy, can leave in phase_trace.csv; one that    *)
(* writes no trace leaves the file that was there.                         *)
Leaves(k, policy) ==
  {IF Fault(k) = "no_trace" THEN outputs.phase_trace
   ELSE IF Fault(k) \in {"exit", "truncated"} THEN Written(SubSeq(t, 1, faults.cut))
   ELSE Written(t) : t \in TracesUnder[policy]}

-----------------------------------------------------------------------------
(* demo_at_lab.py before the sweep.                                        *)

RequireBinary ==
  /\ pc.step = "require"
  /\ IF faults.kind = "missing" THEN Exit(1) ELSE Goto("clean", 0)
  /\ UNCHANGED <<args, faults, outputs, cases, results, default_trace>>

Clean ==
  /\ pc.step = "clean"
  /\ IF Blocked(0)
       THEN /\ outputs' = [outputs EXCEPT !.phase_trace = Nothing, !.analysis = Nothing]
            /\ Exit(1)
            /\ UNCHANGED cases
       ELSE /\ outputs' = [o \in DOMAIN outputs |-> Nothing]
            /\ cases' = [p \in Policies |-> AllFiles(Nothing)]
            /\ Goto("default", 0)
  /\ UNCHANGED <<args, faults, results, default_trace>>

RunDefaultAt ==
  /\ pc.step = "default"
  /\ \E file \in Leaves(0, "fifo") :
       /\ outputs' = [outputs EXCEPT !.phase_trace = file]
       /\ IF Fault(0) = "exit" \/ file = Nothing
            THEN Exit(1) /\ UNCHANGED default_trace
            ELSE Goto("report", 0) /\ default_trace' = file
  /\ UNCHANGED <<args, faults, cases, results>>

(* The analyzer's report is kept whatever it says.                         *)
RunAnalyzer ==
  /\ pc.step = "report"
  /\ outputs' = [outputs EXCEPT !.analysis = Written(Analysis[outputs.phase_trace.holds].timeline)]
  /\ IF Analysis[outputs.phase_trace.holds].metrics.sanity_failure_count > 0
       THEN Exit(1) ELSE Goto("clear", 1)
  /\ UNCHANGED <<args, faults, cases, results, default_trace>>

-----------------------------------------------------------------------------
(* run_arbitration_sweep.py.                                               *)

NoMetrics == <<>>

NextCase(k) == IF k < Len(args.policies) THEN Goto("clear", k + 1) ELSE Goto("summary", 0)

Succeed(k, metrics) ==
  /\ results' = Append(results, [policy |-> args.policies[k], status |-> "OK",
                                 metrics |-> <<metrics>>])
  /\ NextCase(k)

Fail(k) ==
  /\ results' = Append(results, [policy |-> args.policies[k], status |-> "FAIL",
                                 metrics |-> NoMetrics])
  /\ IF args.keep_going THEN NextCase(k) ELSE Goto("summary", 0)

(* clear_case_outputs and the test for the binary.  Where the directory    *)
(* should be, a file: the handler of the OSError raises it again, main     *)
(* does not catch it, and nothing more is written.                         *)
ClearCase(k) ==
  /\ pc = [step |-> "clear", at |-> k]
  /\ IF Blocked(k) THEN Exit(2) /\ UNCHANGED <<outputs, cases, results>>
     ELSE /\ cases' = [cases EXCEPT ![args.policies[k]] = AllFiles(Nothing)]
          /\ outputs' = [outputs EXCEPT !.phase_trace = Nothing]
          /\ IF faults.kind = "missing" THEN Fail(k)
                                        ELSE Goto("run", k) /\ UNCHANGED results
  /\ UNCHANGED <<args, faults, default_trace>>

RunAt(k) ==
  /\ pc = [step |-> "run", at |-> k]
  /\ \E file \in Leaves(k, args.policies[k]) :
       /\ outputs' = [outputs EXCEPT !.phase_trace = file]
       /\ IF Fault(k) = "exit" \/ file = Nothing
            THEN Fail(k) /\ cases' = [cases EXCEPT ![args.policies[k]].trace = file]
            ELSE Goto("analyze", k) /\ UNCHANGED <<cases, results>>
  /\ UNCHANGED <<args, faults, default_trace>>

(* Also a trace that is not sane has its metrics and timeline written.     *)
AnalyzeCase(k) ==
  LET rows    == outputs.phase_trace.holds
      metrics == Analysis[rows].metrics
  IN  /\ pc = [step |-> "analyze", at |-> k]
      /\ cases' = [cases EXCEPT ![args.policies[k]] =
                     [trace |-> Written(rows), metrics |-> Written(metrics),
                      timeline |-> Written(Analysis[rows].timeline)]]
      /\ IF metrics.sanity_failure_count > 0 THEN Fail(k) ELSE Succeed(k, metrics)
      /\ UNCHANGED <<args, faults, outputs, default_trace>>

WriteSummary ==
  /\ pc.step = "summary"
  /\ outputs' = [outputs EXCEPT !.summary = Written(results)]
  /\ Goto("comparison", 0)
  /\ UNCHANGED <<args, faults, cases, results, default_trace>>

(* The deltas of a row, none when it or the fifo row has no metrics.       *)
Deltas(result, baseline) ==
  {[avg_request_accept_latency |->
      result.metrics[k].avg_request_accept_latency - b.metrics[k].avg_request_accept_latency,
    avg_total_transaction_latency |->
      result.metrics[k].avg_total_transaction_latency
        - b.metrics[k].avg_total_transaction_latency,
    max_total_transaction_latency |->
      result.metrics[k].max_total_transaction_latency
        - b.metrics[k].max_total_transaction_latency] :
     <<k, b>> \in (DOMAIN result.metrics) \X {b \in baseline : b.status = "OK"}}

Comparison ==
  LET baseline == {r \in ToSet(results) : r.policy = "fifo"}
  IN  [k \in DOMAIN results |->
         [policy |-> results[k].policy, status |-> results[k].status,
          deltas |-> Deltas(results[k], baseline)]]

AllOk == \A k \in DOMAIN results : results[k].status = "OK"

(* The last step of the sweep: its exit code, or the demonstration goes on. *)
WriteComparison ==
  /\ pc.step = "comparison"
  /\ outputs' = [outputs EXCEPT !.comparison = Written(Comparison)]
  /\ IF args.tool = "demo" THEN Goto("restore", 0)
     ELSE Exit(IF AllOk THEN 0 ELSE 1)
  /\ UNCHANGED <<args, faults, cases, results, default_trace>>

-----------------------------------------------------------------------------
(* demo_at_lab.py after the sweep.                                         *)

(* Mutant: the trace is put back only after a sweep that succeeded.        *)
Restore_OnSuccess ==
  /\ pc.step = "restore"
  /\ IF AllOk
       THEN /\ outputs' = [outputs EXCEPT !.phase_trace = default_trace]
            /\ Goto("conclude", 0)
       ELSE Exit(1) /\ UNCHANGED outputs
  /\ UNCHANGED <<args, faults, cases, results, default_trace>>

(* The finally block, then the DemoError of a failed sweep.                *)
Restore ==
  /\ pc.step = "restore"
  /\ outputs' = [outputs EXCEPT !.phase_trace = default_trace]
  /\ IF AllOk THEN Goto("conclude", 0) ELSE Exit(1)
  /\ UNCHANGED <<args, faults, cases, results, default_trace>>

(* print_conclusions: the files it asks for.                               *)
Conclude ==
  /\ pc.step = "conclude"
  /\ Exit(IF /\ \E k \in DOMAIN results : results[k].policy = "fifo"
             /\ \A p \in {"priority_101", "priority_102"} : cases[p].timeline # Nothing
             /\ outputs.comparison # Nothing
            THEN 0 ELSE 1)
  /\ UNCHANGED <<args, faults, outputs, cases, results, default_trace>>

-----------------------------------------------------------------------------
SweepSteps == {"clear", "run", "analyze", "summary", "comparison"}

(* What an interrupt can leave of the file the step was writing.           *)
Partly(o) ==
  \/ UNCHANGED outputs
  \/ outputs' = [outputs EXCEPT ![o] = Written(<<>>)]

(* An interrupt reaches the demonstration, the sweep and the program; the  *)
(* demonstration still puts the trace back.                                *)
Interrupt ==
  /\ pc.step # "ended"
  /\ Exit(2)
  /\ IF args.tool = "demo" /\ pc.step \in SweepSteps
       THEN \/ outputs' = [outputs EXCEPT !.phase_trace = default_trace]
            \/ /\ pc.step \in {"summary", "comparison"}
               /\ outputs' = [outputs EXCEPT !.phase_trace = default_trace,
                                             ![pc.step] = Written(<<>>)]
     ELSE IF pc.step \in {"default", "run", "restore"} THEN Partly("phase_trace")
     ELSE IF pc.step \in {"summary", "comparison"} THEN Partly(pc.step)
     ELSE UNCHANGED outputs
  /\ \/ UNCHANGED cases
     \/ /\ pc.step = "analyze"
        /\ cases' = [cases EXCEPT ![args.policies[pc.at]].metrics =
                       Written(Analysis[outputs.phase_trace.holds].metrics)]
  /\ UNCHANGED <<args, faults, results, default_trace>>

Ended == pc.step = "ended" /\ UNCHANGED vars

Next ==
  \/ RequireBinary \/ Clean \/ RunDefaultAt \/ RunAnalyzer
  \/ \E k \in DOMAIN args.policies : ClearCase(k) \/ RunAt(k) \/ AnalyzeCase(k)
  \/ WriteSummary \/ WriteComparison \/ Restore \/ Conclude \/ Interrupt \/ Ended

Spec == Init /\ [][Next]_vars

-----------------------------------------------------------------------------
(***************************************************************************)
(* Properties.                                                             *)
(***************************************************************************)
Done == returncode \in {0, 1}

(* phase_trace.csv is the trace the demonstration analyzed, however the    *)
(* sweep ended, unless an interrupt comes while it is put back.            *)
TraceRestored ==
  (args.tool = "demo" /\ default_trace # Nothing /\ pc.step = "ended" /\
     (Done \/ outputs.comparison = Nothing)) => outputs.phase_trace = default_trace

(* A case is OK if its trace is whole, or was cut where the analyzer, that *)
(* looks at one transaction at a time, cannot know: every transaction that *)
(* began has ended.  That happens only when one initiator's transactions   *)
(* both come before the other's.                                           *)
WholeOrUnnoticed(p) ==
  LET rows == cases[p].trace.holds
  IN  \/ rows \in TracesUnder[p]
      \/ p # "fifo" /\ Cardinality(Transactions(rows)) = 3
                    /\ \A t \in Transactions(rows) : Cardinality(RowsOf(rows, t)) = 4

(* The summary has a row for each policy up to the first that failed, or   *)
(* for all of them; a row has the metrics of the trace that lies in the    *)
(* directory of its policy.                                                *)
SummaryMatchesCases ==
  (Done /\ outputs.summary.by = "this") =>
    LET rows == outputs.summary.holds
        failed == {k \in DOMAIN rows : rows[k].status = "FAIL"}
    IN  /\ [k \in DOMAIN rows |-> rows[k].policy] = SubSeq(args.policies, 1, Len(rows))
        /\ Len(rows) = IF args.keep_going \/ failed = {} THEN Len(args.policies)
                                                         ELSE Min(failed)
        /\ \A k \in DOMAIN rows \ failed :
             /\ WholeOrUnnoticed(rows[k].policy)
             /\ cases[rows[k].policy].metrics = Written(rows[k].metrics[1])
        /\ \A p \in Policies :
             (cases[p] = AllFiles(Earlier)) <=>
               (args.tool = "sweep" /\ \A k \in DOMAIN rows : rows[k].policy # p)

(* With 0 every policy has a whole trace, or one cut unnoticed, and every  *)
(* output is of this invocation; an error is reported only when something  *)
(* did go wrong.                                                           *)
CodeMatchesRun ==
  /\ (returncode = 0 /\ faults.kind # "truncated") =>
       /\ \A p \in ToSet(args.policies) : cases[p].trace.holds \in TracesUnder[p]
       /\ args.tool = "demo" => outputs.phase_trace.holds \in TracesUnder["fifo"]
  /\ returncode = 0 => /\ outputs.summary.by = "this" /\ outputs.comparison.by = "this"
                       /\ faults.kind \in {"none", "truncated"}
                       /\ Len(outputs.summary.holds) = Len(args.policies)
  /\ returncode = 1 => faults.kind # "none"

(* The average over the transactions of initiator i, times their number.   *)
Accepted(p, i) ==
  LET own == {t \in DOMAIN cases[p].timeline.holds : t[1] = i}
  IN  <<MapThenSumSet(LAMBDA t : Max(cases[p].timeline.holds[t].request_accept_latency), own),
        Cardinality(own)>>

(* What the demonstration says at the end: fifo completes all four, and a  *)
(* preferred initiator is accepted faster on average; and by the           *)
(* comparison no policy accepts more slowly than fifo on the whole.        *)
ConclusionsHold ==
  (args.tool = "demo" /\ returncode = 0) =>
    /\ cases["fifo"].metrics.holds.complete_transactions = 4
    /\ \A i \in Initiators :
         LET p == IF i = 101 THEN "priority_101" ELSE "priority_102"
             preferred == Accepted(p, i)
             other     == Accepted(p, Other(i))
         IN  preferred[1] * other[2] < other[1] * preferred[2]
    /\ \A k \in DOMAIN outputs.comparison.holds :
         \A d \in outputs.comparison.holds[k].deltas : d.avg_request_accept_latency <= 0

(* However an invocation ends, its exit code, its tables, the directories  *)
(* of the policies and phase_trace.csv agree with what really happened.    *)
OutcomeMatchesRun ==
  TraceRestored /\ SummaryMatchesCases /\ CodeMatchesRun /\ ConclusionsHold
=============================================================================
