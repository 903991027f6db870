------------------------------ MODULE MCAtDemos ------------------------------
(***************************************************************************)
(* The AT demonstrations for TLC: a behaviour is an invocation of that of  *)
(* AT-4, of AT-5 or of the AT smoke lab (or of its sweep), or a run of the *)
(* AT-5 program on its own, with options its demonstration does not use.   *)
(***************************************************************************)
EXTENDS BackpressureModel

CONSTANTS
  N, IngressCapacities, DownstreamCapacities, Latencies, RateLatencies,
  CaseFaults, FaultyCases, Cuts

(* Every case and policy with N transactions an initiator.  The latencies  *)
(* are in nanoseconds; a rate latency of 1 is a service rate of 1000       *)
(* transactions a microsecond.                                             *)
MCOptions ==
  [case_name : CaseNames, policy : Policies, num_transactions : {N},
   ingress_queue_capacity : IngressCapacities,
   downstream_queue_capacity : DownstreamCapacities,
   memory_service_latency : {Tick(10 * l) : l \in Latencies},
   rate_limited_latency : {Tick(10 * l) : l \in RateLatencies}]

ASSUME CaseFaultsAssumption ==
  /\ CaseFaults \subseteq {"not_a_directory", "exit", "truncated"}
  /\ FaultyCases \subseteq 1..7
  /\ Cuts \subseteq 0..15

None == "none"

VARIABLES
  invoked,    \* the demonstration or program
  args, faults, build_dirs, binary, pc, case_policy_rows, summary_rows, policy_rows,
  recommendation_rows, failures, outputs, traces, returncode,
  cases, results, default_trace

sweepVars == <<cases, results, default_trace>>
tableVars == <<build_dirs, binary, case_policy_rows, summary_rows, policy_rows,
               recommendation_rows, failures, traces>>
demoVars  == <<args, faults, pc, outputs, returncode, tableVars, sweepVars>>
allVars   == <<invoked, vars, demoVars>>

At4   == INSTANCE At4Lab
At5   == INSTANCE At5Lab
Smoke == INSTANCE AtLabDemo

(* The AT-5 program is not run: its records and lists stay empty.          *)
NoModel ==
  /\ opt = CHOOSE o \in Options : TRUE
  /\ schedule = <<>> /\ records = <<>> /\ ingress_release_times = {}
  /\ downstream_completion_times = {} /\ next_service_available = 0
NoSweep == cases = None /\ results = None /\ default_trace = None
NoTables ==
  /\ build_dirs = None /\ binary = None
  /\ case_policy_rows = None /\ summary_rows = None /\ policy_rows = None
  /\ recommendation_rows = None /\ failures = None /\ traces = None
NoDemo ==
  /\ args = None /\ faults = None /\ pc = None /\ outputs = None /\ returncode = None
  /\ NoTables /\ NoSweep

ProgramInit == invoked = "AT-5 program" /\ Init /\ NoDemo
DemosInit ==
  \/ invoked = "AT-4 demonstration" /\ At4!Init /\ case_policy_rows = None /\ NoSweep /\ NoModel
  \/ invoked = "AT-5 demonstration" /\ At5!Init /\ NoSweep /\ NoModel
  \/ invoked = "AT smoke lab demonstration" /\ Smoke!Init /\ NoTables /\ NoModel
  \/ ProgramInit

DemosNext ==
  /\ \/ /\ invoked = "AT-4 demonstration"
        /\ At4!Next /\ UNCHANGED <<case_policy_rows, sweepVars, vars>>
     \/ invoked = "AT-5 demonstration" /\ At5!Next /\ UNCHANGED <<sweepVars, vars>>
     \/ invoked = "AT smoke lab demonstration" /\ Smoke!Next /\ UNCHANGED <<tableVars, vars>>
     \/ invoked = "AT-5 program" /\ Next /\ UNCHANGED demoVars
  /\ UNCHANGED invoked

ProgramSpec == ProgramInit /\ [][DemosNext]_allVars
DemosSpec   == DemosInit /\ [][DemosNext]_allVars

(* However a demonstration ends, its exit code, the tables, the report and *)
(* the traces on the disk agree with what really happened to its cases.    *)
OutcomeMatchesRun ==
  /\ invoked = "AT-4 demonstration" => At4!OutcomeMatchesRun
  /\ invoked = "AT-5 demonstration" => At5!OutcomeMatchesRun
  /\ invoked = "AT smoke lab demonstration" => Smoke!OutcomeMatchesRun

(* The tables of the AT-4 demonstration agree with each other, and its     *)
(* traces with the number of MSHR entries.                                 *)
ResultsSound == invoked = "AT-4 demonstration" => At4!ResultsSound
=============================================================================
