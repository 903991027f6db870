------------------------------- MODULE At4Lab -------------------------------
(***************************************************************************)
(* The AT-4 demonstration, examples/at/tools/                              *)
(* demo_at4_cache_mshr_pressure.py: it builds the program, runs it once    *)
(* for each case in a directory it resets first, checks and summarises the *)
(* traces, writes three tables and a report, and checks the results.       *)
(*                                                                         *)
(* The cases are the script's own and their traces those of CacheMshr, so  *)
(* every number the script decides by is the real one, in thousandths of a *)
(* nanosecond as printed in the trace (a tie is rounded up here).  Around  *)
(* them everything that can go wrong may: a build directory of another     *)
(* source tree, a step of CMake or a run of the program that fails, a      *)
(* trace cut short by a full disk, an interrupt between any two steps, and *)
(* output of an earlier invocation on the disk.                            *)
(***************************************************************************)
EXTENDS At4Results

CONSTANT CaseFaults   \* what may be wrong with the run of a case

None == "none"

VARIABLES
  args,          \* keep_going, no_build, and whether --binary is given
  faults,        \* what goes wrong in this invocation
  build_dirs,    \* for the build directory and the fallback: CMake's home and the binary
  binary,        \* the binary that is run
  pc,            \* the next step of main
  summary_rows, policy_rows, recommendation_rows, failures,
  outputs,       \* what each table and the report hold
  traces,        \* what the trace of each case holds
  returncode

vars == <<args, faults, build_dirs, binary, pc, summary_rows, policy_rows,
          recommendation_rows, failures, outputs, traces, returncode>>

Outputs == <<"summary", "policy_sweep", "recommendations", "report">>

-----------------------------------------------------------------------------
row_for(rows, case_name) == rows[CHOOSE k \in DOMAIN rows : rows[k].case_name = case_name]
cpu_row_for(rows, case_name) ==
  rows[CHOOSE k \in DOMAIN rows : rows[k].case_name = case_name /\ rows[k].initiator = 0]

acceptance_checks ==
  /\ Len(summary_rows) = 3 * Len(CASES)
  /\ Len(policy_rows) = Len(CASES)
  /\ Len(recommendation_rows) = Len(CASES)
  /\ cpu_row_for(summary_rows, "mixed_cpu_dma_accel_interference").p99
       > cpu_row_for(summary_rows, "cpu_latency_sensitive_hotset").p99
  /\ row_for(policy_rows, "low_mshr_capacity_pressure").mshr_full_events
       > row_for(policy_rows, "high_mshr_diminishing_return").mshr_full_events
  /\ row_for(policy_rows, "slow_memory_mshr_saturation").dominant_bottleneck
       = "memory_service_latency"
  /\ row_for(recommendation_rows, "slow_memory_mshr_saturation").recommended_action
       = "reduce_memory_service_latency"
  /\ outputs["report"].by = "this"

-----------------------------------------------------------------------------
Nothing == [by |-> "none"]
Earlier == [by |-> "earlier"]
Written(cases) == [by |-> "this", cases |-> cases]
TraceFile(complete) == [by |-> "this", program |-> binary, complete |-> complete]

Cases(rows) == [k \in DOMAIN rows |-> rows[k].case_name]
BuildDir(home, program) == [home |-> home, binary |-> program]

(* At most one thing goes wrong, besides what the directories hold.        *)
Init ==
  /\ args \in [keep_going : BOOLEAN, no_build : BOOLEAN, binary_given : BOOLEAN]
  /\ \E build \in {None, "configure", "compile"}, c \in DOMAIN CASES,
        fault \in CaseFaults \union {None} :
       /\ build = None \/ fault = None
       /\ faults = [build |-> build,
                    case |-> [k \in DOMAIN CASES |-> IF k = c THEN fault ELSE None]]
  /\ build_dirs \in [main : {BuildDir(None, None), BuildDir("this", "old"),
                             BuildDir("other", "other")},
                     fallback : {BuildDir(None, None), BuildDir("other", "other")}]
  /\ binary = None
  /\ pc = [step |-> IF args.no_build THEN "require" ELSE "configure", at |-> 1]
  /\ summary_rows = <<>> /\ policy_rows = <<>> /\ recommendation_rows = <<>>
  /\ failures = <<>>
  /\ outputs = [o \in {Outputs[k] : k \in DOMAIN Outputs} |-> Earlier]
  /\ traces = [c \in DOMAIN CASES |-> Earlier]
  /\ returncode = -1

Goto(step, at) == pc' = [step |-> step, at |-> at] /\ UNCHANGED returncode
Exit(code) == pc' = [step |-> "ended", at |-> 1] /\ returncode' = code

tables == <<summary_rows, policy_rows, recommendation_rows>>

(* usable_build_dir: the fallback when CMake's cache names another tree.   *)
usable_build_dir == IF build_dirs.main.home = "other" THEN "fallback" ELSE "main"

(* CMake refuses a directory configured for another tree.                  *)
Configure ==
  /\ pc.step = "configure"
  /\ IF faults.build = "configure" \/ build_dirs[usable_build_dir].home = "other"
       THEN Exit(1) /\ UNCHANGED build_dirs
       ELSE /\ Goto("compile", 1)
            /\ build_dirs' = [build_dirs EXCEPT ![usable_build_dir].home = "this"]
  /\ UNCHANGED <<args, faults, binary, tables, failures, outputs, traces>>

(* A build that fails leaves the binary of the build before it.            *)
Compile ==
  /\ pc.step = "compile"
  /\ IF faults.build = "compile"
       THEN Exit(1) /\ UNCHANGED <<build_dirs, binary>>
       ELSE /\ Goto("require", 1)
            /\ build_dirs' = [build_dirs EXCEPT ![usable_build_dir].binary = "current"]
            /\ binary' = "current"
  /\ UNCHANGED <<args, faults, tables, failures, outputs, traces>>

(* The binary main chooses, and require_binary.                            *)
ChooseBinary ==
  LET chosen == IF args.binary_given THEN "given"
                ELSE IF args.no_build THEN build_dirs.main.binary ELSE binary
  IN  /\ pc.step = "require"
      /\ binary' = chosen
      /\ IF chosen = None THEN Exit(1) ELSE Goto("reset", 1)
      /\ UNCHANGED <<args, faults, build_dirs, tables, failures, outputs, traces>>

AfterCase(c) == IF c < Len(CASES) THEN Goto("reset", c + 1) ELSE Goto("write", 1)

FailCase(c) ==
  /\ failures' = Append(failures, CASES[c].case_name)
  /\ IF args.keep_going THEN AfterCase(c) ELSE Exit(1)
  /\ UNCHANGED tables

(* reset_case_dir                                                          *)
ResetCaseDir(c) ==
  /\ pc = [step |-> "reset", at |-> c]
  /\ IF faults.case[c] = "not_a_directory"
       THEN FailCase(c) /\ UNCHANGED traces
       ELSE /\ Goto("run", c) /\ traces' = [traces EXCEPT ![c] = Nothing]
            /\ UNCHANGED <<tables, failures>>
  /\ UNCHANGED <<args, faults, build_dirs, binary, outputs>>

(* run_case: a program that cannot write all of its trace ends with 0.     *)
RunCase(c) ==
  /\ pc = [step |-> "run", at |-> c]
  /\ IF faults.case[c] = "exit"
       THEN FailCase(c) /\ UNCHANGED traces
       ELSE /\ Goto("analyse", c)
            /\ traces' = [traces EXCEPT ![c] = TraceFile(faults.case[c] # "truncated")]
            /\ UNCHANGED <<tables, failures>>
  /\ UNCHANGED <<args, faults, build_dirs, binary, outputs>>

(* Mutant: the rows of a case are kept before its trace is validated.      *)
AnalyseCase_KeepRows(c) ==
  LET result == Analysis[c, traces[c].complete]
  IN  /\ pc = [step |-> "analyse", at |-> c]
      /\ summary_rows' = summary_rows \o result.summary_rows
      /\ policy_rows' = Append(policy_rows, result.policy_row)
      /\ recommendation_rows' =
           Append(recommendation_rows, make_recommendation(result.policy_row))
      /\ IF result.valid
           THEN AfterCase(c) /\ UNCHANGED failures
           ELSE /\ failures' = Append(failures, CASES[c].case_name)
                /\ IF args.keep_going THEN AfterCase(c) ELSE Exit(1)
      /\ UNCHANGED <<args, faults, build_dirs, binary, outputs, traces>>

(* validate_trace, and the rows of the case.                               *)
AnalyseCase(c) ==
  LET result == Analysis[c, traces[c].complete]
  IN  /\ pc = [step |-> "analyse", at |-> c]
      /\ IF result.valid
           THEN /\ summary_rows' = summary_rows \o result.summary_rows
                /\ policy_rows' = Append(policy_rows, result.policy_row)
                /\ recommendation_rows' =
                     Append(recommendation_rows, make_recommendation(result.policy_row))
                /\ AfterCase(c) /\ UNCHANGED failures
           ELSE FailCase(c)
      /\ UNCHANGED <<args, faults, build_dirs, binary, outputs, traces>>

(* write_csv three times, then write_report, which looks up the            *)
(* recommendation of every row of the sweep.                               *)
Write(k) ==
  LET rows == <<summary_rows, policy_rows, recommendation_rows, policy_rows>>[k]
  IN  /\ pc = [step |-> "write", at |-> k]
      /\ outputs' = [outputs EXCEPT ![Outputs[k]] = Written(Cases(rows))]
      /\ IF k < Len(Outputs) THEN Goto("write", k + 1) ELSE Goto("accept", 1)
      /\ UNCHANGED <<args, faults, build_dirs, binary, tables, failures, traces>>

Accept ==
  /\ pc.step = "accept"
  /\ Exit(IF failures = <<>> /\ acceptance_checks THEN 0 ELSE 1)
  /\ UNCHANGED <<args, faults, build_dirs, binary, tables, failures, outputs, traces>>

(* KeyboardInterrupt: the file being written is left with what it holds.   *)
Interrupt ==
  /\ pc.step # "ended"
  /\ Exit(2)
  /\ \/ UNCHANGED <<outputs, traces>>
     \/ /\ pc.step = "run" /\ UNCHANGED outputs
        /\ traces' = [traces EXCEPT ![pc.at] = TraceFile(FALSE)]
     \/ /\ pc.step = "write" /\ UNCHANGED traces
        /\ outputs' = [outputs EXCEPT ![Outputs[pc.at]] = Written(<<>>)]
  /\ UNCHANGED <<args, faults, build_dirs, binary, tables, failures>>

Ended == pc.step = "ended" /\ UNCHANGED vars

Next ==
  \/ Configure \/ Compile \/ ChooseBinary
  \/ \E c \in DOMAIN CASES : ResetCaseDir(c) \/ RunCase(c) \/ AnalyseCase(c)
  \/ \E k \in DOMAIN Outputs : Write(k)
  \/ Accept \/ Interrupt \/ Ended

Spec == Init /\ [][Next]_vars

-----------------------------------------------------------------------------
(***************************************************************************)
(* Properties.                                                             *)
(***************************************************************************)
Succeeded == SelectSeq(Cases(CASES), LAMBDA name : ~Contains(failures, name))
Triple(cases) == FlattenSeq([k \in DOMAIN cases |-> <<cases[k], cases[k], cases[k]>>])

(* What the disk holds agrees with how the script ended.  When it ends     *)
(* with 0, every trace and output is of this invocation, complete, and, if *)
(* it was to build the program, made by the program of this source tree.   *)
(* When it was to keep going past a failed case, the outputs hold exactly  *)
(* the cases that did not fail; when it was not, they are untouched.       *)
OutputsMatchRun ==
  LET holds(cases) ==
        /\ outputs["summary"] = Written(Triple(cases))
        /\ \A k \in 2..4 : outputs[Outputs[k]] = Written(cases)
  IN  /\ returncode = 0 =>
           /\ holds(Cases(CASES))
           /\ \A c \in DOMAIN CASES :
                /\ traces[c].by = "this" /\ traces[c].complete
                /\ ~args.no_build /\ ~args.binary_given => traces[c].program = "current"
      /\ returncode = 1 /\ failures # <<>> =>
           IF args.keep_going THEN holds(Succeeded)
           ELSE \A k \in DOMAIN Outputs : outputs[Outputs[k]].by # "this"

(* The script reports an error only when something did go wrong: it        *)
(* accepts every trace the program writes, and the acceptance checks hold  *)
(* of them.                                                                *)
NoFalseAlarm ==
  /\ returncode = 1 =>
       \/ faults.build # None \/ \E c \in DOMAIN CASES : faults.case[c] # None
       \/ binary = None
  /\ \A k \in DOMAIN failures :
       \E c \in DOMAIN CASES : CASES[c].case_name = failures[k] /\ faults.case[c] # None

(* The exit code, the outputs and what really happened agree.              *)
OutcomeMatchesRun == OutputsMatchRun /\ NoFalseAlarm

(* The sweep and the summary, computed apart from the same trace, tell the *)
(* same story: the three initiators' events and misses add up, the         *)
(* percentiles of all requests lie between theirs, no initiator saw more   *)
(* entries in use than there are, and none queued longer than it blocked.  *)
RowsAgree ==
  \A p \in DOMAIN policy_rows :
    LET row == policy_rows[p]
        of  == SelectSeq(summary_rows, LAMBDA s : s.case_name = row.case_name)
    IN  /\ row.mshr_full_events = Total(of, "mshr_full_events")
        /\ row.misses = Total(of, "misses") /\ row.hits = Total(of, "hits")
        /\ \E i, j \in 1..3 : of[i].p99 <= row.p99 /\ row.p99 <= of[j].p99
        /\ \E i, j \in 1..3 : of[i].p95 <= row.p95 /\ row.p95 <= of[j].p95
        /\ \A i \in 1..3 : /\ of[i].p50 <= of[i].p95 /\ of[i].p95 <= of[i].p99
                           /\ of[i].mshr_occupancy_max <= row.mshr_capacity
                           /\ of[i].miss_queue_delay <= of[i].initiator_blocked

(* Unless two misses of a case end at the same time, the MSHR entries      *)
(* bound the misses in flight and are granted in the order of the look-ups.*)
MshrRespected == \A c \in Violating : traces[c].by # "this"

(* The tables agree with each other and the traces with the MSHR.          *)
ResultsSound == RowsAgree /\ MshrRespected

(* README.md, AT-4: an "MSHR-like outstanding miss limit".                 *)
OutstandingBounded == \A c \in Unbounded : traces[c].by # "this"
=============================================================================
