------------------------------ MODULE MCLtDemos ------------------------------
(***************************************************************************)
(* The scripts of the loosely-timed labs for TLC: a behaviour is an        *)
(* invocation of the Project K and L demonstration or of a trace-replay    *)
(* demonstration, or several invocations of the LT sweeps in a row.        *)
(***************************************************************************)
EXTENDS Naturals, FiniteSets

CONSTANTS RunFaults, Scripts, MaxInvocations, TxnIds, Names, Defects, MaxRows

VARIABLES
  invoked,    \* the demonstration or script
  pc, returncode, args, no_build, fault, faults, binary,
  runs, recommendation_rows, files,
  config, latency_trace, outputs, analysis, invocation, summary_rows, case_trace_paths,
  script, traces

projectKL == <<no_build, faults, binary, runs, recommendation_rows, files>>
sweeps    == <<config, latency_trace, analysis, invocation, args, summary_rows,
               case_trace_paths>>
replay    == <<no_build, binary, script, traces>>
allVars   == <<invoked, pc, returncode, fault, outputs, projectKL, sweeps, replay>>

Sweeps == INSTANCE LtSweepLab
Replay == INSTANCE ReplayLab
KL     == INSTANCE ProjectKL

ASSUME FaultsAssumption ==
  RunFaults \subseteq {"exit", "unreadable", "summary_cut", "trace_cut"}

ASSUME ScriptsAssumption ==
  /\ Scripts \subseteq {"memory_sweep", "workload_sweep", "demo_memory", "demo_performance"}
  /\ MaxInvocations \in Nat \ {0}

ASSUME ReplayAssumption ==
  /\ TxnIds \subseteq Replay!python_ints \union Replay!cpp_ints
  /\ Defects \subseteq Replay!RowDefects
  /\ MaxRows \in Nat

None == "none"
NoReplay == script = None /\ traces = None
NoSweep  == /\ config = None /\ latency_trace = None /\ analysis = None /\ invocation = None
            /\ args = None /\ summary_rows = None /\ case_trace_paths = None
NoProjectKL == faults = None /\ runs = None /\ recommendation_rows = None /\ files = None

DemosInit ==
  \/ /\ invoked = "Project K and L" /\ KL!Init
     /\ NoSweep /\ NoReplay /\ fault = None /\ outputs = None
  \/ /\ invoked = "LT sweeps" /\ Sweeps!Init
     /\ NoProjectKL /\ NoReplay /\ no_build = None /\ binary = None
  \/ invoked = "trace replay" /\ Replay!Init /\ NoProjectKL /\ NoSweep

DemosNext ==
  /\ \/ /\ invoked = "Project K and L" /\ KL!Next
        /\ UNCHANGED <<sweeps, script, traces, fault, outputs>>
     \/ invoked = "LT sweeps" /\ Sweeps!Next /\ UNCHANGED <<projectKL, replay>>
     \/ /\ invoked = "trace replay" /\ Replay!Next
        /\ UNCHANGED <<sweeps, faults, runs, recommendation_rows, files>>
  /\ UNCHANGED invoked

DemosSpec == DemosInit /\ [][DemosNext]_allVars

(* A script that says it succeeded leaves outputs of this invocation and   *)
(* of its own inputs only, whatever an earlier one, a fault or a kill left *)
(* behind; and one that reports an error had a reason.                     *)
OutputsMatchRun ==
  /\ invoked = "Project K and L" => KL!OutputsMatchRun
  /\ invoked = "LT sweeps" => Sweeps!OutputsMatchRun
  /\ invoked = "trace replay" => Replay!OutputsMatchRun

(* What the scripts tell the reader to conclude is so in their own models: *)
(* more banks, or the other mapping, where Project L recommends them, take *)
(* a quarter at least off the 95th percentile of the workload; and a case  *)
(* of a sweep differs from the case its report compares it with in the way *)
(* the report says, but for the hotspot of the memory sweep: what that     *)
(* report says of it is false, and its metrics are the sequential ones.    *)
ConclusionsHold ==
  /\ invoked = "Project K and L" => KL!AdviceHelps
  /\ invoked = "LT sweeps" => Sweeps!InterpretationsHold
=============================================================================
