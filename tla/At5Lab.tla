------------------------------- MODULE At5Lab -------------------------------
(***************************************************************************)
(* The AT-5 demonstration, examples/at/tools/                              *)
(* demo_at5_backpressure_qos_collapse.py: seven cases, each run under five *)
(* policies.  A case has a primary policy, whose trace lies in the         *)
(* directory of the case; the other policies have directories below it,    *)
(* which go when the directory of the case is reset.                       *)
(*                                                                         *)
(* The traces are those of Backpressure for the script's own cases.  Times *)
(* are in thousandths of a nanosecond, as printed; ratios and scores, for  *)
(* which the script uses floating point, in ten-thousandths.  As in        *)
(* At4Lab, at most one thing goes wrong and an interrupt may come between  *)
(* any two steps.                                                          *)
(***************************************************************************)
EXTENDS At5Results

CONSTANT CaseFaults, FaultyCases   \* what may be wrong with a run, and of which cases

None == "none"
VARIABLES
  args, faults, build_dirs, binary, pc,
  case_policy_rows, summary_rows, policy_rows, recommendation_rows, failures,
  outputs,       \* what each table and the report hold
  traces,        \* what the trace of each run holds
  returncode

tables == <<case_policy_rows, summary_rows, policy_rows, recommendation_rows>>
vars   == <<args, faults, build_dirs, binary, pc, tables, failures, outputs, traces,
            returncode>>

Outputs == <<"summary", "policy_sweep", "recommendations", "report">>

-----------------------------------------------------------------------------
row_for(rows, case_name, policy) ==
  rows[CHOOSE k \in DOMAIN rows :
         rows[k].case_name = case_name /\ rows[k].policy = policy]
recommended(case_name) ==
  recommendation_rows[CHOOSE k \in DOMAIN recommendation_rows :
                        recommendation_rows[k].case_name = case_name].recommended_action

acceptance_checks ==
  /\ Len(summary_rows) = 3 * Len(CASES)
  /\ Len(policy_rows) = Len(CASES) * Len(POLICIES)
  /\ Len(recommendation_rows) = Len(CASES)
  /\ row_for(policy_rows, "strict_priority_helps_cpu", "strict_priority").cpu_rt_p95
       < row_for(policy_rows, "strict_priority_helps_cpu", "round_robin").cpu_rt_p95
  /\ recommended("strict_priority_starves_dma") = "use_weighted_priority"
  /\ \A k \in DOMAIN policy_rows :
       policy_rows[k].case_name = "downstream_saturation_qos_collapse"
         => policy_rows[k].cpu_rt_sla_violation_ratio > 0
  /\ recommended("downstream_saturation_qos_collapse") = "reduce_memory_service_latency"
  /\ row_for(policy_rows, "small_queue_backpressure", "backpressure_aware").queue_full_events > 0
  /\ row_for(policy_rows, "throttled_dma_recovers_sla", "throttled_dma").cpu_rt_sla_violation_ratio
       <= row_for(policy_rows, "throttled_dma_recovers_sla", "round_robin").cpu_rt_sla_violation_ratio
  /\ recommended("bursty_accel_tail_spike") = "shape_accel_bursts"
  /\ outputs["report"].by = "this"

-----------------------------------------------------------------------------
Nothing == [by |-> "none"]
Earlier == [by |-> "earlier"]
Written(cases) == [by |-> "this", cases |-> cases]
TraceFile(complete) == [by |-> "this", program |-> binary, complete |-> complete]

CasesOf(rows) == [k \in DOMAIN rows |-> rows[k].case_name]
BuildDir(home, program) == [home |-> home, binary |-> program]

Init ==
  /\ args \in [keep_going : BOOLEAN, no_build : BOOLEAN, binary_given : BOOLEAN]
  /\ \E build \in {None, "configure", "compile"}, run \in FaultyCases \X (DOMAIN POLICIES),
        fault \in CaseFaults \union {None} :
       /\ build = None \/ fault = None
       /\ faults = [build |-> build, run |-> run, kind |-> fault]
       /\ fault = None => run = <<1, 1>>
  /\ build_dirs \in [main : {BuildDir(None, None), BuildDir("this", "old"),
                             BuildDir("other", "other")},
                     fallback : {BuildDir(None, None), BuildDir("other", "other")}]
  /\ binary = None
  /\ pc = [step |-> IF args.no_build THEN "require" ELSE "configure", at |-> <<1, 1>>]
  /\ case_policy_rows = <<>> /\ summary_rows = <<>> /\ policy_rows = <<>>
  /\ recommendation_rows = <<>> /\ failures = <<>>
  /\ outputs = [o \in {Outputs[k] : k \in DOMAIN Outputs} |-> Earlier]
  /\ traces = [run \in Runs |-> Earlier]
  /\ returncode = -1

Fault(run) == IF faults.run = run THEN faults.kind ELSE None

Goto(step, at) == pc' = [step |-> step, at |-> at] /\ UNCHANGED returncode
Exit(code) == pc' = [step |-> "ended", at |-> <<1, 1>>] /\ returncode' = code

usable_build_dir == IF build_dirs.main.home = "other" THEN "fallback" ELSE "main"

Configure ==
  /\ pc.step = "configure"
  /\ IF faults.build = "configure" \/ build_dirs[usable_build_dir].home = "other"
       THEN Exit(1) /\ UNCHANGED build_dirs
       ELSE /\ Goto("compile", <<1, 1>>)
            /\ build_dirs' = [build_dirs EXCEPT ![usable_build_dir].home = "this"]
  /\ UNCHANGED <<args, faults, binary, tables, failures, outputs, traces>>

Compile ==
  /\ pc.step = "compile"
  /\ IF faults.build = "compile"
       THEN Exit(1) /\ UNCHANGED <<build_dirs, binary>>
       ELSE /\ Goto("require", <<1, 1>>)
            /\ build_dirs' = [build_dirs EXCEPT ![usable_build_dir].binary = "current"]
            /\ binary' = "current"
  /\ UNCHANGED <<args, faults, tables, failures, outputs, traces>>

ChooseBinary ==
  LET chosen == IF args.binary_given THEN "given"
                ELSE IF args.no_build THEN build_dirs.main.binary ELSE binary
  IN  /\ pc.step = "require"
      /\ binary' = chosen
      /\ IF chosen = None THEN Exit(1) ELSE Goto("reset", <<1, 1>>)
      /\ UNCHANGED <<args, faults, build_dirs, tables, failures, outputs, traces>>

NextCase(c) ==
  IF c < Len(CASES) THEN Goto("reset", <<c + 1, 1>>) ELSE Goto("write", <<1, 1>>)

(* The rest of the case is given up; the rows it already has stay.         *)
FailCase(c) ==
  /\ failures' = Append(failures, CASES[c].case_name)
  /\ IF args.keep_going THEN NextCase(c) ELSE Exit(1)
  /\ case_policy_rows' = <<>>
  /\ UNCHANGED <<summary_rows, policy_rows, recommendation_rows>>

(* Mutant: the directory of the case is reset before every run of the sweep. *)
Wiped_Whole(c, p) == {c} \X (DOMAIN POLICIES)

(* reset_case_dir: the directory of the case holds those of its sweep.     *)
Wiped(c, p) == IF IsPrimary(c, p) THEN {c} \X (DOMAIN POLICIES) ELSE {<<c, p>>}

ResetCaseDir(c, p) ==
  /\ pc = [step |-> "reset", at |-> <<c, p>>]
  /\ IF Fault(<<c, p>>) = "not_a_directory"
       THEN FailCase(c) /\ UNCHANGED traces
       ELSE /\ Goto("run", <<c, p>>)
            /\ traces' = [run \in Runs |-> IF run \in Wiped(c, p) THEN Nothing ELSE traces[run]]
            /\ UNCHANGED <<tables, failures>>
  /\ UNCHANGED <<args, faults, build_dirs, binary, outputs>>

RunCase(c, p) ==
  /\ pc = [step |-> "run", at |-> <<c, p>>]
  /\ IF Fault(<<c, p>>) = "exit"
       THEN FailCase(c) /\ UNCHANGED traces
       ELSE /\ Goto("analyse", <<c, p>>)
            /\ traces' = [traces EXCEPT ![<<c, p>>] =
                            TraceFile(Fault(<<c, p>>) # "truncated")]
            /\ UNCHANGED <<tables, failures>>
  /\ UNCHANGED <<args, faults, build_dirs, binary, outputs>>

(* The rest of the loop over the policies: a policy's row is appended at   *)
(* once, the recommendation only after the last policy.                    *)
AnalyseRun(c, p) ==
  LET result == CHOOSE a \in Analysis :
                  a.run = <<c, p>> /\ a.complete = traces[<<c, p>>].complete
      last   == p = Len(POLICIES)
      sweep  == Append(case_policy_rows, result.policy_row)
  IN  /\ pc = [step |-> "analyse", at |-> <<c, p>>]
      /\ IF ~result.valid THEN FailCase(c)
         ELSE /\ policy_rows' = Append(policy_rows, result.policy_row)
              /\ case_policy_rows' = IF last THEN <<>> ELSE sweep
              /\ summary_rows' = IF IsPrimary(c, p) THEN summary_rows \o result.summary_rows
                                                    ELSE summary_rows
              /\ recommendation_rows' =
                   IF last THEN Append(recommendation_rows, make_recommendation(CASES[c], sweep))
                           ELSE recommendation_rows
              /\ IF last THEN NextCase(c) ELSE Goto("reset", <<c, p + 1>>)
              /\ UNCHANGED failures
      /\ UNCHANGED <<args, faults, build_dirs, binary, outputs, traces>>

PrimaryRows ==
  SelectSeq(policy_rows, LAMBDA row : \E c \in DOMAIN CASES :
              row.case_name = CASES[c].case_name /\ row.policy = CASES[c].primary_policy)

(* write_csv three times.                                                  *)
WriteTable(k) ==
  LET rows == <<summary_rows, policy_rows, recommendation_rows>>[k]
  IN  /\ pc = [step |-> "write", at |-> <<k, 1>>]
      /\ outputs' = [outputs EXCEPT ![Outputs[k]] = Written(CasesOf(rows))]
      /\ Goto("write", <<k + 1, 1>>)
      /\ UNCHANGED <<args, faults, build_dirs, binary, tables, failures, traces>>

(* write_report looks up the recommendation of every primary row before it *)
(* opens the file; a KeyError is not caught, and Python ends with 1.       *)
WriteReport ==
  /\ pc = [step |-> "write", at |-> <<4, 1>>]
  /\ IF ToSet(CasesOf(PrimaryRows)) \subseteq ToSet(CasesOf(recommendation_rows))
       THEN /\ outputs' = [outputs EXCEPT !["report"] = Written(CasesOf(PrimaryRows))]
            /\ Goto("accept", <<1, 1>>)
       ELSE Exit(1) /\ UNCHANGED outputs
  /\ UNCHANGED <<args, faults, build_dirs, binary, tables, failures, traces>>

Accept ==
  /\ pc.step = "accept"
  /\ Exit(IF failures = <<>> /\ acceptance_checks THEN 0 ELSE 1)
  /\ UNCHANGED <<args, faults, build_dirs, binary, tables, failures, outputs, traces>>

Interrupt ==
  /\ pc.step # "ended"
  /\ Exit(2)
  /\ \/ UNCHANGED <<outputs, traces>>
     \/ /\ pc.step = "run" /\ UNCHANGED outputs
        /\ traces' = [traces EXCEPT ![pc.at] = TraceFile(FALSE)]
     \/ /\ pc.step = "write" /\ UNCHANGED traces
        /\ outputs' = [outputs EXCEPT ![Outputs[pc.at[1]]] = Written(<<>>)]
  /\ UNCHANGED <<args, faults, build_dirs, binary, tables, failures>>

Ended == pc.step = "ended" /\ UNCHANGED vars

Next ==
  \/ Configure \/ Compile \/ ChooseBinary
  \/ \E run \in Runs : \/ ResetCaseDir(run[1], run[2]) \/ RunCase(run[1], run[2])
                      \/ AnalyseRun(run[1], run[2])
  \/ \E k \in 1..3 : WriteTable(k)
  \/ WriteReport \/ Accept \/ Interrupt \/ Ended

Spec == Init /\ [][Next]_vars

-----------------------------------------------------------------------------
(***************************************************************************)
(* Properties.                                                             *)
(***************************************************************************)
Succeeded ==
  SelectSeq([c \in DOMAIN CASES |-> CASES[c].case_name], LAMBDA name : ~Contains(failures, name))

(* When the script ends with 0, the outputs are of this invocation and     *)
(* hold every case, the trace README.md promises for each case is the one  *)
(* its primary policy wrote in this invocation, by the program of this     *)
(* tree if it was to be built; the runs of the sweep left a trace exactly  *)
(* when they came after the primary one.  When it was not to keep going    *)
(* past a failed case, the outputs are untouched; when it was, the         *)
(* recommendations are those of the cases that did not fail.               *)
OutputsMatchRun ==
  /\ returncode = 0 =>
       /\ \A o \in DOMAIN outputs : outputs[o].by = "this"
       /\ outputs["report"].cases = Succeeded /\ Len(Succeeded) = Len(CASES)
       /\ \A run \in Runs :
            \E primary \in DOMAIN POLICIES :
              /\ IsPrimary(run[1], primary)
              /\ IF run[2] < primary THEN traces[run] = Nothing
                 ELSE /\ traces[run].by = "this" /\ traces[run].complete
                      /\ ~args.no_build /\ ~args.binary_given
                           => traces[run].program = "current"
  /\ returncode = 1 /\ failures # <<>> =>
       IF args.keep_going THEN outputs["recommendations"] = Written(Succeeded)
       ELSE \A o \in DOMAIN outputs : outputs[o].by # "this"

(* The script reports an error only when something did go wrong: it        *)
(* accepts every trace the program writes, and the acceptance checks hold  *)
(* of them.                                                                *)
NoFalseAlarm ==
  returncode = 1 => faults.build # None \/ faults.kind # None \/ binary = None

(* The exit code, the outputs and what really happened agree.              *)
OutcomeMatchesRun == OutputsMatchRun /\ NoFalseAlarm

(* "Continue writing summary/report artifacts after a failed case", says   *)
(* the help of --keep-going.                                               *)
KeepGoingWritesReport ==
  (args.keep_going /\ failures # <<>> /\ returncode = 1) => outputs["report"].by = "this"
=============================================================================
