----------------------------- MODULE LtSweepLab -----------------------------
(***************************************************************************)
(* The scripts around the loosely-timed lab, in examples/lt/tools:         *)
(* run_memory_access_pattern_sweep.py, run_workload_sweep.py and the demo  *)
(* of each.  A case runs lt.robot, whose tests each start the SystemC      *)
(* program of LtBus anew; each appends its rows to the one                 *)
(* latency_trace.csv.  The settings of the case reach that program in its  *)
(* environment, where Renode passes it on, or else in                      *)
(* workload_config.env, which the script writes before the run and removes *)
(* after it.  A run without a case (the first of demo_performance) must    *)
(* find no such file.                                                      *)
(*                                                                         *)
(* The scripts are run one after the other on the same files; at most one  *)
(* thing goes wrong in all, besides an interrupt (which Python sees) or a  *)
(* kill (which it does not) between any two steps.  A session that is cut  *)
(* short lacks its last row.                                               *)
(***************************************************************************)
EXTENDS LtSweepRows

CONSTANTS Scripts, MaxInvocations

VARIABLES
  config,          \* workload_config.env
  latency_trace,   \* the sessions whose rows latency_trace.csv holds
  outputs,         \* the tables in the directory of each sweep
  analysis,        \* the sessions analysis.txt was made of
  invocation, args, fault, pc,
  summary_rows, case_trace_paths,
  returncode

files == <<config, latency_trace, outputs, analysis>>
vars  == <<files, invocation, args, fault, pc, summary_rows, case_trace_paths, returncode>>

sweep == IF args.script \in {"memory_sweep", "demo_memory"} THEN "memory" ELSE "workload"
IsDemo == args.script \in {"demo_memory", "demo_performance"}
CASES == CasesOf(sweep)

-----------------------------------------------------------------------------
(* No file is an empty sequence.                                           *)
NoTables == [summary |-> <<>>, comparison |-> <<>>, combined |-> <<>>]
NoFault  == [kind |-> "none", invocation |-> 0, case |-> 0]

Init ==
  /\ config = NoSettings
  /\ latency_trace = <<>>
  /\ outputs = [s \in {"memory", "workload"} |-> NoTables]
  /\ analysis = <<>>
  /\ invocation = 0
  /\ args \in [script : {"memory_sweep"}, keep_going : {FALSE}, inherited : BOOLEAN]
  /\ fault = NoFault
  /\ pc = [step |-> "ended", case |-> 1]
  /\ summary_rows = <<>> /\ case_trace_paths = <<>>
  /\ returncode = 0

Goto(step, c) == pc' = [step |-> step, case |-> c] /\ UNCHANGED returncode
Exit(code) == pc' = [step |-> "ended", case |-> 1] /\ returncode' = code

(* Something goes wrong, or does not.                                      *)
Fails(kind) ==
  /\ fault = NoFault
  /\ fault' = [kind |-> kind, invocation |-> invocation, case |-> pc.case]
Works == UNCHANGED fault

(* demo_memory always passes --keep-going to its sweep; whether Renode     *)
(* passes on the environment does not change.                              *)
Invoke ==
  /\ pc.step = "ended" /\ invocation < MaxInvocations
  /\ invocation' = invocation + 1
  /\ args' \in [script : Scripts, keep_going : BOOLEAN, inherited : {args.inherited}]
  /\ args'.script = "demo_memory" => args'.keep_going
  /\ pc' = [step |-> IF args'.script \in {"demo_memory", "demo_performance"}
                       THEN "clean" ELSE "start",
            case |-> 1]
  /\ summary_rows' = <<>> /\ case_trace_paths' = <<>>
  /\ returncode' = -1
  /\ UNCHANGED <<files, fault>>

-----------------------------------------------------------------------------
(* Mutant: the demonstration leaves the settings of an earlier case.       *)
clean_outputs_KeepConfig ==
  /\ pc.step = "clean"
  /\ IF args.script = "demo_performance"
       THEN /\ latency_trace' = <<>> /\ analysis' = <<>> /\ UNCHANGED config
       ELSE UNCHANGED <<config, latency_trace, analysis>>
  /\ \/ /\ Works
        /\ outputs' = [outputs EXCEPT ![sweep] = NoTables]
        /\ Goto(IF args.script = "demo_performance" THEN "baseline" ELSE "start", 1)
     \/ Fails("broad_directory") /\ Exit(1) /\ UNCHANGED outputs
  /\ UNCHANGED <<invocation, args, summary_rows, case_trace_paths>>

(* clean_outputs of demo_performance_lab.py; demo_memory removes only the  *)
(* directory.  A directory that holds more than outputs is refused.        *)
clean_outputs ==
  /\ pc.step = "clean"
  /\ IF args.script = "demo_performance"
       THEN /\ config' = NoSettings /\ latency_trace' = <<>> /\ analysis' = <<>>
       ELSE UNCHANGED <<config, latency_trace, analysis>>
  /\ \/ /\ Works
        /\ outputs' = [outputs EXCEPT ![sweep] = NoTables]
        /\ Goto(IF args.script = "demo_performance" THEN "baseline" ELSE "start", 1)
     \/ Fails("broad_directory") /\ Exit(1) /\ UNCHANGED outputs
  /\ UNCHANGED <<invocation, args, summary_rows, case_trace_paths>>

(* What one run of lt.robot adds to the trace, and how.  The settings in   *)
(* force are those of the environment, if they get there, or the file's.   *)
Recorded(environment, complete) ==
  LET workload == getWorkloadSettings(IF args.inherited THEN environment ELSE NoSettings, config)
  IN  latency_trace \o [test \in 1..RobotTests |-> Session(workload, complete[test])]

LtRobot(environment) ==
  \/ Works /\ latency_trace' = Recorded(environment, <<TRUE, TRUE>>)
  \/ \E complete \in Cuts \ {<<TRUE, TRUE>>} :
       Fails("cut") /\ latency_trace' = Recorded(environment, complete)
  \/ Fails("no_trace") /\ UNCHANGED latency_trace
  \/ Fails("renode_exit")
       /\ latency_trace' \in {latency_trace, SubSeq(Recorded(environment, <<TRUE, TRUE>>), 1, 1)}

(* run_demo of demo_performance_lab.py, up to its analysis: neither the    *)
(* renode-test nor the analyzer of this run gets any options.              *)
RunBaseline ==
  /\ pc.step = "baseline"
  /\ LtRobot(NoSettings)
  /\ IF fault'.kind = "renode_exit" /\ fault = NoFault THEN Exit(1) ELSE Goto("analyze", 1)
  /\ UNCHANGED <<config, outputs, analysis, invocation, args, summary_rows, case_trace_paths>>

(* Without --fail-on-sanity the analyzer only asks that there are rows.    *)
AnalyzeBaseline ==
  /\ pc.step = "analyze"
  /\ IF W!analyze_latency(ToSet(latency_trace), FALSE) # 0
       THEN Works /\ Exit(1) /\ UNCHANGED analysis
       ELSE \/ Works /\ Goto("start", 1) /\ analysis' = latency_trace
            \/ Fails("analyzer_exit") /\ Exit(1) /\ analysis' \in {<<>>, latency_trace}
  /\ UNCHANGED <<config, latency_trace, outputs, invocation, args, summary_rows, case_trace_paths>>

-----------------------------------------------------------------------------
(* main of the sweep: the settings file of an earlier run goes first.      *)
StartSweep ==
  /\ pc.step = "start"
  /\ config' = NoSettings
  /\ Goto("prepare", 1)
  /\ UNCHANGED <<latency_trace, outputs, analysis, invocation, args, fault, summary_rows,
                 case_trace_paths>>

FailedRow(c) == summary_rows' = Append(summary_rows, Row(c, FALSE, empty_metrics)) /\ Goto("summary", c)

(* run_case, up to its run.  A file that cannot be written is as it was,   *)
(* or empty, or written after all.                                         *)
PrepareCase(c) ==
  /\ pc = [step |-> "prepare", case |-> c]
  /\ latency_trace' = <<>>
  /\ \/ /\ Works
        /\ config' = CASES[c].settings
        /\ Goto("renode", c) /\ UNCHANGED summary_rows
     \/ /\ Fails("config_write")
        /\ config' \in {config, NoSettings, CASES[c].settings}
        /\ FailedRow(c)
  /\ UNCHANGED <<outputs, analysis, invocation, args, case_trace_paths>>

(* The settings file is removed however the run ended.                     *)
RunRenode(c) ==
  /\ pc = [step |-> "renode", case |-> c]
  /\ LtRobot(CASES[c].settings)
  /\ Goto("remove_config", c)
  /\ UNCHANGED <<config, outputs, analysis, invocation, args, summary_rows, case_trace_paths>>

RenodeFailed(c) == fault = [kind |-> "renode_exit", invocation |-> invocation, case |-> c]

RemoveWorkloadConfig(c) ==
  /\ pc = [step |-> "remove_config", case |-> c]
  /\ \/ /\ Works
        /\ config' = NoSettings
        /\ IF latency_trace # <<>> /\ ~RenodeFailed(c)
             THEN Goto("analyse", c) /\ UNCHANGED summary_rows
             ELSE FailedRow(c)
     \/ Fails("config_remove") /\ UNCHANGED config /\ FailedRow(c)
  /\ UNCHANGED <<latency_trace, outputs, analysis, invocation, args, case_trace_paths>>

(* The rest of run_case, from the copy of the trace on.                    *)
AnalyseCase(c) ==
  /\ pc = [step |-> "analyse", case |-> c]
  /\ case_trace_paths' = Append(case_trace_paths, [case |-> c, sessions |-> latency_trace])
  /\ \/ Works /\ summary_rows' = Append(summary_rows, Analysed(sweep, c, latency_trace)) /\ Goto("summary", c)
     \/ sweep = "workload" /\ Fails("analyzer_exit") /\ FailedRow(c)
  /\ UNCHANGED <<files, invocation, args>>

(* main: the summary after each case, and whether to go on.                *)
WriteSummary(c) ==
  /\ pc = [step |-> "summary", case |-> c]
  /\ outputs' = [outputs EXCEPT ![sweep].summary = summary_rows]
  /\ IF c < Len(CASES) /\ (Last(summary_rows).passed \/ args.keep_going) THEN Goto("prepare", c + 1)
     ELSE Goto(IF sweep = "memory" THEN "combined" ELSE "comparison", 1)
  /\ UNCHANGED <<config, latency_trace, analysis, invocation, args, fault, summary_rows,
                 case_trace_paths>>

(* write_combined_trace: without rows the file of an earlier run stays.    *)
WriteCombinedTrace ==
  /\ pc.step = "combined"
  /\ IF case_trace_paths = <<>> THEN UNCHANGED outputs
     ELSE outputs' = [outputs EXCEPT !["memory"].combined = case_trace_paths]
  /\ Goto("comparison", 1)
  /\ UNCHANGED <<config, latency_trace, analysis, invocation, args, fault, summary_rows,
                 case_trace_paths>>

(* The sweep ends; a demonstration gives up when it ended with an error.   *)
EndSweep(failed) ==
  IF failed THEN Exit(1) ELSE IF IsDemo THEN Goto("check", 1) ELSE Exit(0)

SomeFailed == \E k \in DOMAIN summary_rows : ~summary_rows[k].passed

(* An error in writing the report is caught by one of the sweeps, and ends *)
(* the other; both have the exit code 1.                                   *)
WriteComparisonReport ==
  /\ pc.step = "comparison"
  /\ \/ /\ Works
        /\ outputs' = [outputs EXCEPT ![sweep].comparison = summary_rows]
        /\ EndSweep(SomeFailed)
     \/ Fails("report") /\ EndSweep(TRUE) /\ UNCHANGED outputs
  /\ UNCHANGED <<config, latency_trace, analysis, invocation, args, summary_rows, case_trace_paths>>

(* demo_memory looks for its files and reads the summary back;             *)
(* demo_performance only prints what it finds there.                       *)
CheckDemo ==
  LET tables == outputs[sweep]
      there  == /\ tables.combined # <<>> /\ tables.summary # <<>> /\ tables.comparison # <<>>
                /\ {tables.summary[k].case : k \in DOMAIN tables.summary} = DOMAIN CASES
                /\ \A k \in DOMAIN tables.summary : tables.summary[k].passed
  IN  /\ pc.step = "check"
      /\ Exit(IF args.script = "demo_memory" /\ ~there THEN 1 ELSE 0)
      /\ UNCHANGED <<files, invocation, args, fault, summary_rows, case_trace_paths>>

(* Ctrl-C, while Renode runs, still removes the settings; a kill does not. *)
Stop ==
  /\ pc.step # "ended"
  /\ Exit(2)
  /\ \/ UNCHANGED config
     \/ pc.step = "renode" /\ config' = NoSettings
  /\ UNCHANGED <<latency_trace, outputs, analysis, invocation, args, fault, summary_rows,
                 case_trace_paths>>

Ended == pc.step = "ended" /\ invocation = MaxInvocations /\ UNCHANGED vars

Next ==
  \/ Invoke \/ clean_outputs \/ RunBaseline \/ AnalyzeBaseline \/ StartSweep
  \/ \E c \in DOMAIN CASES :
       \/ PrepareCase(c) \/ RunRenode(c) \/ RemoveWorkloadConfig(c) \/ AnalyseCase(c)
       \/ WriteSummary(c)
  \/ WriteCombinedTrace \/ WriteComparisonReport \/ CheckDemo
  \/ Stop \/ Ended

Spec == Init /\ [][Next]_vars

-----------------------------------------------------------------------------
(***************************************************************************)
(* Properties.                                                             *)
(***************************************************************************)
FaultHere == fault.invocation = invocation
OwnRow(c) == Analysed(sweep, c, Own(sweep, c, <<TRUE, TRUE>>))

(* What a script that says it succeeded leaves is of this invocation and   *)
(* of nothing else: whatever an earlier invocation left behind when it     *)
(* failed, was interrupted or was killed, every table has every case with  *)
(* the metrics of its own workload, the settings file is gone, and the     *)
(* analysis that the demonstration keeps beside the sweep is that of the   *)
(* default workload.  A session cut short is the one fault it may not      *)
(* notice; the workload sweep then still has the right metrics, from the   *)
(* other session.  And a script reports an error only when something went  *)
(* wrong in its own run.                                                   *)
OutputsMatchRun ==
  /\ returncode = 0 /\ invocation > 0 =>
       /\ FaultHere => fault.kind = "cut"
       /\ config = NoSettings
       /\ outputs[sweep].summary = summary_rows /\ outputs[sweep].comparison = summary_rows
       /\ Len(summary_rows) = Len(CASES)
       /\ ~(FaultHere /\ sweep = "memory") => \A c \in DOMAIN summary_rows : summary_rows[c] = OwnRow(c)
       /\ sweep = "memory" /\ ~FaultHere =>
            outputs[sweep].combined =
              [c \in DOMAIN CASES |-> [case |-> c, sessions |-> Own("memory", c, <<TRUE, TRUE>>)]]
       /\ args.script = "demo_performance" =>
            /\ Len(analysis) = RobotTests
            /\ \A test \in 1..RobotTests : analysis[test].workload = DefaultWorkload
  /\ returncode = 1 => FaultHere

(* What the reports say of a case beside the one they compare it with is   *)
(* so, in every table a sweep wrote, whichever session was cut short:      *)
(* fewer waits with one initiator; the slower target takes longer than the *)
(* baseline, and the faster one less than the slower; more conflicts       *)
(* between banks, a longer average and a longer tail with the larger       *)
(* stride.  The memory sweep's report says of its hotspot that it has more *)
(* conflicts and a longer tail than the sequential case; that is false in  *)
(* every table.  But for the last row of a session, which may be missing,  *)
(* no case of that sweep is better than the sequential one, and the        *)
(* hotspot is the same.                                                    *)
InterpretationsHold ==
  returncode \in {0, 1} =>
    LET table  == outputs[sweep].comparison
        passed == {k \in DOMAIN table : table[k].passed}
        id(k)  == CASES[table[k].case].id
    IN  1 \in passed => \A k, other \in passed :
          IF sweep = "workload"
            THEN id(other) = W!compared_with(id(k)) =>
                   W!interpretation(id(k), table[k].metrics, table[other].metrics)
          ELSE id(other) = "sequential" =>
                 /\ M!interpretation(id(k), table[k].metrics, table[other].metrics)
                      <=> id(k) # "hotspot"
                 /\ fault.kind # "cut" =>
                      /\ M!cleanest(table[k].metrics, table[other].metrics)
                      /\ id(k) = "hotspot" => table[k].metrics = table[other].metrics

(* The trace is analysed with "--dedup-identical", says                    *)
(* README_performance_lab.md: a transaction of both sessions counts once.  *)
CountsEachOnce ==
  \A k \in DOMAIN outputs["memory"].summary :
    LET row == outputs["memory"].summary[k]
    IN  row.passed => row.metrics.num_transactions = M!CASES[row.case].num_transactions
=============================================================================
