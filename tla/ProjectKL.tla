----------------------------- MODULE ProjectKL -----------------------------
(***************************************************************************)
(* Projects K and L, examples/lt/tools/                                    *)
(* demo_project_k_workload_bottleneck_lab.py: five synthetic traces are    *)
(* characterised, run through Project E under three address mappings and   *)
(* three bank counts, every result is attributed to a bottleneck (K), and  *)
(* an action is recommended for every workload (L).                        *)
(*                                                                         *)
(* The traces, the runs of ProjectE and the rules are the real ones.       *)
(* Ratios are in ten-thousandths, NA is the script's None.  Around them    *)
(* one thing may go wrong: no binary, a failing step of CMake, a path the  *)
(* script refuses to remove, a run that fails or whose tables a full disk  *)
(* cut short; and an interrupt may come between any two steps.             *)
(***************************************************************************)
EXTENDS BottleneckRules

CONSTANT RunFaults     \* what may be wrong with a run of the model

-----------------------------------------------------------------------------
(***************************************************************************)
(* One invocation of the script.                                           *)
(***************************************************************************)
VARIABLES
  no_build,              \* the option
  faults,                \* what is wrong with the build, a path and the runs
  binary,                \* the model's: None, "old" or "current"
  pc,                    \* the step the script is at: of the sweep, of the writing
  runs,                  \* the sweep so far: whether the trace table was complete
  recommendation_rows,
  files,                 \* who wrote what is on the disk
  returncode

vars == <<no_build, faults, binary, pc, runs, recommendation_rows, files, returncode>>

KOutputs == <<"summary", "sweep", "report">>
LOutputs == <<"recommendations", "recommendation_report">>
Outputs  == KOutputs \o LOutputs
Directories == <<"output", "project_l_output", "input">>
In == [output |-> ToSet(KOutputs) \union {"model_runs"},
       project_l_output |-> ToSet(LOutputs), input |-> {"traces"}]

Init ==
  /\ no_build \in BOOLEAN
  /\ \E build \in {None, "configure", "compile", "elsewhere"},
        path \in {None} \union ToSet(Directories),
        r \in DOMAIN Runs, fault \in RunFaults \union {None} :
       /\ Cardinality({f \in {build, path, fault} : f # None}) <= 1
       /\ faults = [build |-> build, path |-> path,
                    run |-> [k \in DOMAIN Runs |-> IF k = r THEN fault ELSE None]]
  /\ binary \in {None, "old", "current"}
  /\ pc = [step |-> "binary", at |-> 1]
  /\ runs = <<>> /\ recommendation_rows = <<>>
  /\ files = [f \in ToSet(Outputs) \union {"model_runs", "traces"} |-> "earlier"]
  /\ returncode = -1

Goto(step, at) == pc' = [step |-> step, at |-> at] /\ UNCHANGED returncode
Exit(code) == pc' = [step |-> "ended", at |-> 1] /\ returncode' = code

(* ensure_binary: a binary that is there is used, however old.             *)
EnsureBinary ==
  /\ pc.step = "binary"
  /\ IF binary # None THEN Goto("remove", 1)
     ELSE IF no_build THEN Exit(1) ELSE Goto("build", 1)
  /\ UNCHANGED <<no_build, faults, binary, runs, recommendation_rows, files>>

(* CMake may fail, and may put the binary elsewhere than --binary says.    *)
BuildBinary ==
  /\ pc.step = "build"
  /\ IF faults.build # None
       THEN Exit(1) /\ UNCHANGED binary
       ELSE Goto("remove", 1) /\ binary' = "current"
  /\ UNCHANGED <<no_build, faults, runs, recommendation_rows, files>>

(* Mutant: Project L's outputs are kept.                                   *)
RemovePath_KeepL(k) ==
  /\ pc = [step |-> "remove", at |-> k]
  /\ IF faults.path = Directories[k]
       THEN Exit(1) /\ UNCHANGED files
       ELSE /\ IF k < Len(Directories) THEN Goto("remove", k + 1) ELSE Goto("run", 1)
            /\ files' = [f \in DOMAIN files |->
                 IF f \in In[Directories[k]] /\ k # 2
                   THEN IF k = 3 THEN "this" ELSE None ELSE files[f]]
  /\ UNCHANGED <<no_build, faults, binary, runs, recommendation_rows>>

(* remove_path of the output directories and, with the traces generated    *)
(* anew, of the input directory.                                           *)
RemovePath(k) ==
  /\ pc = [step |-> "remove", at |-> k]
  /\ IF faults.path = Directories[k]
       THEN Exit(1) /\ UNCHANGED files
       ELSE /\ IF k < Len(Directories) THEN Goto("remove", k + 1) ELSE Goto("run", 1)
            /\ files' = [f \in DOMAIN files |->
                 IF f \in In[Directories[k]]
                   THEN IF k = 3 THEN "this" ELSE None ELSE files[f]]
  /\ UNCHANGED <<no_build, faults, binary, runs, recommendation_rows>>

(* run_project_e and the rows of the sweep: a workload the summary lacks   *)
(* is a KeyError, rows the trace lacks are not noticed.                    *)
RunProjectE(r) ==
  /\ pc = [step |-> "run", at |-> r]
  /\ IF faults.run[r] \in {"exit", "unreadable", "summary_cut"}
       THEN Exit(1) /\ UNCHANGED <<runs, files>>
       ELSE /\ runs' = Append(runs, faults.run[r] # "trace_cut")
            /\ files' = [files EXCEPT !["model_runs"] = "this"]
            /\ IF r < Len(Runs) THEN Goto("run", r + 1) ELSE Goto("write", 1)
  /\ UNCHANGED <<no_build, faults, binary, recommendation_rows>>

Writes(k, next) ==
  /\ pc = [step |-> "write", at |-> k]
  /\ files' = [files EXCEPT ![Outputs[k]] = "this"]
  /\ next
  /\ UNCHANGED <<no_build, faults, binary, runs, recommendation_rows>>

(* write_csv of the two tables of Project K and that of Project L.         *)
WriteTable(k) == Outputs[k] \notin {"report", "recommendation_report"}
                   /\ Writes(k, Goto("write", k + 1))

WriteGeneratedReport == Writes(3, Goto("accept", 3))

WriteProjectLReport == Writes(5, Goto("accept", 5))

(* validate_project_k_acceptance, and the rows of Project L.               *)
AcceptProjectK ==
  /\ pc = [step |-> "accept", at |-> Len(KOutputs)]
  /\ IF Len(ALL_WORKLOADS) = 5 /\ Len(runs) * Len(ALL_WORKLOADS) = 45
       THEN /\ Goto("write", Len(KOutputs) + 1)
            /\ recommendation_rows' = Report(runs[1]).recommendations
       ELSE Exit(1) /\ UNCHANGED recommendation_rows
  /\ UNCHANGED <<no_build, faults, binary, runs, files>>

AcceptProjectL ==
  /\ pc = [step |-> "accept", at |-> Len(Outputs)]
  /\ Exit(IF Len(recommendation_rows) = Len(ALL_WORKLOADS) THEN 0 ELSE 1)
  /\ UNCHANGED <<no_build, faults, binary, runs, recommendation_rows, files>>

(* KeyboardInterrupt: what is being written or removed is left in part.    *)
Interrupt ==
  /\ pc.step # "ended"
  /\ Exit(2)
  /\ \/ UNCHANGED files
     \/ /\ pc.step = "write"
        /\ files' = [files EXCEPT ![Outputs[pc.at]] = "cut"]
     \/ /\ pc.step = "run"
        /\ files' = [files EXCEPT !["model_runs"] = "cut"]
     \/ /\ pc.step = "remove"
        /\ \E gone \in SUBSET In[Directories[pc.at]] :
             files' = [f \in DOMAIN files |-> IF f \in gone THEN None ELSE files[f]]
  /\ UNCHANGED <<no_build, faults, binary, runs, recommendation_rows>>

Ended == pc.step = "ended" /\ UNCHANGED vars

Next ==
  \/ EnsureBinary \/ BuildBinary
  \/ \E k \in DOMAIN Directories : RemovePath(k)
  \/ \E r \in DOMAIN Runs : RunProjectE(r)
  \/ \E k \in DOMAIN Outputs : WriteTable(k)
  \/ WriteGeneratedReport \/ WriteProjectLReport
  \/ AcceptProjectK \/ AcceptProjectL \/ Interrupt \/ Ended

Spec == Init /\ [][Next]_vars

-----------------------------------------------------------------------------
(***************************************************************************)
(* Properties.                                                             *)
(***************************************************************************)
(* What lies on the disk tells one story, even after an error or an        *)
(* interrupt: Project L's advice never lies beside tables of Project K     *)
(* from another invocation, tables never beside runs of the model or       *)
(* traces from another one.  The script ends with 0 only with everything   *)
(* of this invocation, and with 1 only if something was wrong.             *)
OutputsMatchRun ==
  /\ \A f \in ToSet(LOutputs) :
       /\ files[f] = "earlier" => \A g \in ToSet(KOutputs) : files[g] \in {"earlier", None}
       /\ files[f] \in {"this", "cut"} => \A g \in ToSet(KOutputs) : files[g] = "this"
  /\ \A g \in ToSet(KOutputs) :
       files[g] \in {"this", "cut"} =>
         /\ files["model_runs"] = "this" /\ files["traces"] = "this" /\ Len(runs) = Len(Runs)
  /\ returncode = 0 => \A f \in DOMAIN files : files[f] = "this"
  /\ returncode = 1 =>
       \/ faults.build # None \/ faults.path # None \/ binary = None
       \/ \E r \in DOMAIN Runs : faults.run[r] \notin {None, "trace_cut"}

(* The advice is borne out by the sweep it comes from: more banks, or      *)
(* another mapping, only where that alone lowers the 95th percentile, and  *)
(* by the quarter the rule asks for; and the reasons the report gives hold *)
(* of the baseline: streaming waits for service, the hot bank refuses      *)
(* requests and its tail is the longest.                                   *)
AdviceHelps ==
  recommendation_rows # <<>> =>
    /\ \A k \in DOMAIN recommendation_rows :
         LET row      == recommendation_rows[k]
             now      == P95(row.workload, DEFAULT_ADDRESS_MAPPING, 4)
             banks    == P95(row.workload, DEFAULT_ADDRESS_MAPPING, row.best.bank_count)
             mapping  == P95(row.workload, row.best.address_mapping, 4)
         IN  /\ row.action = "increase_bank_parallelism" => 4 * banks <= 3 * now
             /\ row.action = "change_address_mapping" => 4 * mapping <= 3 * now
    /\ Report(runs[1]).summary[1].primary_bottleneck = "service_latency_bound"
    /\ Report(runs[1]).summary[3].rejected > 0
    /\ \A w \in ToSet(ALL_WORKLOADS) :
         P95(w, DEFAULT_ADDRESS_MAPPING, 4) <= P95("hot_bank", DEFAULT_ADDRESS_MAPPING, 4)
=============================================================================
