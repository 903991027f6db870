----------------------------- MODULE ReplayLab -----------------------------
(***************************************************************************)
(* The demonstrations of trace replay in examples/lt/tools:                *)
(* demo_cpp_trace_replay_lab.py, which runs the C++ engine, then           *)
(* run_trace_replay_lab.py on the same traces, then                        *)
(* compare_python_cpp_replay_outputs.py on their summaries, and only then  *)
(* writes its report; and demo_trace_replay_lab.py, which runs the Python  *)
(* engine alone.                                                           *)
(*                                                                         *)
(* The traces are arbitrary: all of up to MaxRows rows of the ids, times   *)
(* and places below, with at most one row that has a defect.  At most one  *)
(* other thing goes wrong, and the script may be stopped at any step.      *)
(***************************************************************************)
EXTENDS TraceReplay, Functions

CONSTANTS TxnIds, Names, Defects, MaxRows

VARIABLES
  script, traces,
  binary,        \* the C++ engine was built
  no_build, fault,
  pc,
  outputs,       \* the files of both output directories
  returncode

vars == <<script, traces, binary, no_build, fault, pc, outputs, returncode>>

-----------------------------------------------------------------------------
(***************************************************************************)
(* The inputs.                                                             *)
(***************************************************************************)
Rows(times) ==
  [txn_id : TxnIds, timestamp : times, port : {0, 1}, bank : {0, 1}, defect : {"none"}]

(* Longer traces have one id each for their rows, and the longest, which   *)
(* are there for the ranks of the percentiles, one time for all.           *)
RowSeqs ==
  UNION {{rows \in [1..n -> Rows(IF n > 3 THEN {0} ELSE {0, 50})] :
            n > 2 => IsInjective([k \in 1..n |-> rows[k].txn_id])} : n \in 0..MaxRows}

WithDefects ==
  {[rows EXCEPT ![1].defect = defect] : rows \in {r \in RowSeqs : Len(r) \in 1..2},
                                        defect \in Defects}

Trace(workload, rows) == [workload |-> workload, rows |-> rows]

SampleStride ==
  Trace("sample_stride",
        << [txn_id |-> "1", timestamp |-> 0, port |-> 0, bank |-> 0, defect |-> "none"],
           [txn_id |-> "9", timestamp |-> 50, port |-> 0, bank |-> 0, defect |-> "none"] >>)

EXPECTED_WORKLOADS == <<"sample_sequential", "sample_stride">>

Accepts(engine, trace) ==
  IF engine = "cpp" THEN validate_trace_table_accepts(trace) ELSE load_trace_accepts(trace)

Summary(engine) ==
  [k \in DOMAIN traces |-> IF engine = "cpp" THEN CppSummary(traces[k])
                                             ELSE PythonSummary(traces[k])]

-----------------------------------------------------------------------------
NoFile == [by |-> "none", rows |-> <<>>]
Earlier == [by |-> "earlier", rows |-> <<>>]
Written(rows) == [by |-> "this", rows |-> rows]
Directory(file) == [summary |-> file, comparison |-> file]

Init ==
  /\ script \in {"demo_cpp", "demo_python"}
  /\ \E workload \in Names, rows \in RowSeqs \union WithDefects :
       traces \in {<<Trace(workload, rows)>>, <<Trace(workload, rows), SampleStride>>}
  /\ script = "demo_python" => Len(traces) = 2
  /\ Len(traces[1].rows) > 2 =>
       Len(traces) = 2 /\ traces[1].workload = EXPECTED_WORKLOADS[1]
  /\ fault \in {"none", "missing_trace", "configure", "compile", "broad_cpp", "broad_python"}
  /\ fault # "none" => Len(traces[1].rows) = 1
  /\ binary \in BOOLEAN /\ no_build \in BOOLEAN
  /\ Len(traces[1].rows) > 1 => binary /\ ~no_build
  /\ pc = IF script = "demo_cpp" THEN "traces" ELSE "python"
  /\ outputs = [cpp |-> Directory(Earlier), python |-> Directory(Earlier)]
  /\ returncode = -1

Goto(step) == pc' = step /\ UNCHANGED returncode
Exit(code) == pc' = "ended" /\ returncode' = code

UNCHANGED_ARGS == UNCHANGED <<script, traces, no_build, fault>>

CheckTraces ==
  /\ pc = "traces"
  /\ IF fault = "missing_trace" THEN Exit(1) ELSE Goto("binary")
  /\ UNCHANGED <<binary, outputs>> /\ UNCHANGED_ARGS

(* A binary that is there is used as it is.                                *)
ensure_binary ==
  /\ pc = "binary"
  /\ IF binary THEN Goto("remove_cpp") /\ UNCHANGED binary
     ELSE IF no_build \/ fault \in {"configure", "compile"} THEN Exit(1) /\ UNCHANGED binary
     ELSE Goto("remove_cpp") /\ binary' = TRUE
  /\ UNCHANGED outputs /\ UNCHANGED_ARGS

(* remove_path, of one directory and of the other.                         *)
remove_path(directory, next) ==
  /\ pc = "remove_" \o directory
  /\ IF fault = "broad_" \o directory
       THEN Exit(1) /\ UNCHANGED outputs
       ELSE Goto(next) /\ outputs' = [outputs EXCEPT ![directory] = Directory(NoFile)]
  /\ UNCHANGED binary /\ UNCHANGED_ARGS

(* main of replay_cpp: nothing is written before all traces are replayed.  *)
RunCpp ==
  /\ pc = "cpp"
  /\ IF \A k \in DOMAIN traces : Accepts("cpp", traces[k])
       THEN /\ outputs' = [outputs EXCEPT !["cpp"].summary = Written(Summary("cpp"))]
            /\ Goto("python")
       ELSE Exit(1) /\ UNCHANGED outputs
  /\ UNCHANGED binary /\ UNCHANGED_ARGS

(* main of run_trace_replay_lab.py, which takes two traces at least and    *)
(* removes the directory only when it accepts them all.                    *)
RunPython ==
  /\ pc = "python"
  /\ IF Len(traces) >= 2 /\ \A k \in DOMAIN traces : Accepts("python", traces[k])
       THEN /\ outputs' = [outputs EXCEPT !["python"] = Directory(Written(Summary("python")))]
            /\ Goto(IF script = "demo_cpp" THEN "compare" ELSE "read_summary")
       ELSE Exit(1) /\ UNCHANGED outputs
  /\ UNCHANGED binary /\ UNCHANGED_ARGS

(* demo_trace_replay_lab.py reads the summary back.                        *)
CheckSummary ==
  /\ pc = "read_summary"
  /\ LET rows == outputs.python.summary.rows
     IN  Exit(IF [k \in DOMAIN rows |-> rows[k].workload_name] = EXPECTED_WORKLOADS THEN 0 ELSE 1)
  /\ UNCHANGED <<binary, outputs>> /\ UNCHANGED_ARGS

(* compare_summaries: names and counts are equal, and the metrics within   *)
(* a thousandth, row by row.                                               *)
Near(a, b) == a - b \in -1..1
SameRow(python_row, cpp_row) ==
  /\ python_row.workload_name = cpp_row.workload_name
  /\ python_row.num_transactions = cpp_row.num_transactions
  /\ \A field \in DOMAIN python_row \ {"workload_name", "num_transactions"} :
       Near(python_row[field], cpp_row[field])

SummariesAgree ==
  LET python_rows == outputs.python.summary.rows
      cpp_rows    == outputs.cpp.summary.rows
  IN  /\ Len(python_rows) = Len(cpp_rows)
      /\ \A k \in DOMAIN python_rows : SameRow(python_rows[k], ReadBack(cpp_rows[k]))

compare_summaries ==
  /\ pc = "compare"
  /\ IF SummariesAgree THEN Goto("report") ELSE Exit(1)
  /\ UNCHANGED <<binary, outputs>> /\ UNCHANGED_ARGS

(* read_summary of the C++ summary, and write_comparison.                  *)
WriteReport ==
  /\ pc = "report"
  /\ outputs' = [outputs EXCEPT !["cpp"].comparison = Written(outputs.cpp.summary.rows)]
  /\ Exit(0)
  /\ UNCHANGED binary /\ UNCHANGED_ARGS

(* The script is stopped; an engine may have left part of its files.       *)
Stop ==
  /\ pc # "ended"
  /\ Exit(2)
  /\ \/ UNCHANGED outputs
     \/ pc = "cpp" /\ outputs' = [outputs EXCEPT !["cpp"].summary = Written(<<>>)]
     \/ pc = "python" /\ outputs' = [outputs EXCEPT !["python"] =
                                       [summary |-> Written(<<>>), comparison |-> NoFile]]
  /\ UNCHANGED binary /\ UNCHANGED_ARGS

Ended == pc = "ended" /\ UNCHANGED vars

Next ==
  \/ CheckTraces \/ ensure_binary
  \/ remove_path("cpp", "remove_python") \/ remove_path("python", "cpp")
  \/ RunCpp \/ RunPython \/ CheckSummary \/ compare_summaries \/ WriteReport
  \/ Stop \/ Ended

Spec == Init /\ [][Next]_vars

-----------------------------------------------------------------------------
(***************************************************************************)
(* Properties.                                                             *)
(***************************************************************************)
(* Something is wrong with the inputs that the script reports rightly.     *)
Rejected ==
  \/ fault # "none" \/ (~binary /\ no_build)
  \/ Len(traces) < 2
  \/ \E k \in DOMAIN traces :
       \/ traces[k].rows = <<>> \/ HasDefect(traces[k], RowDefects \ {"none"})
       \/ DuplicateIds(traces[k].rows)
       \/ script = "demo_python" /\ traces[k].workload # EXPECTED_WORKLOADS[k]

(* Two rows of one time that the engines put in different orders, because  *)
(* they read an id differently.                                            *)
ReadApart(rows) ==
  \E j, k \in DOMAIN rows :
    /\ rows[j].timestamp = rows[k].timestamp
    /\ python_before(rows[j], rows[k]) # sort_less(rows[j], rows[k])

(* A demonstration that succeeds leaves the summaries of its own traces,   *)
(* the same from both engines, and a report made of them; a report of this *)
(* invocation is there only when the engines were found to agree, and none *)
(* of an earlier one beside a summary of this; and it fails only when      *)
(* there is something wrong with its inputs, or when the engines read the  *)
(* ids of rows of one time apart: of any other trace both accept, they     *)
(* make the same summary.                                                  *)
OutputsMatchRun ==
  /\ returncode = 0 =>
       /\ outputs.python.summary = Written(Summary("python"))
       /\ script = "demo_cpp" =>
            /\ outputs.cpp = Directory(Written(Summary("cpp")))
            /\ Summary("cpp") = Summary("python")
  /\ outputs.cpp.comparison.by = "this" => SummariesAgree /\ returncode = 0
  /\ outputs.cpp.summary.by = "this" => outputs.cpp.comparison.by # "earlier"
  /\ returncode = 1 =>
       Rejected \/ (script = "demo_cpp" /\ \E k \in DOMAIN traces : ReadApart(traces[k].rows))
=============================================================================
