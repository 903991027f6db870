# A formal model of the AT and RTL performance labs

This directory holds TLA+ modules for the parts of this repository in which the
order of things decides the result: the approximately-timed (AT) SystemC labs, the
queueing models AT-4 to AT-7 that compute such times without SystemC, the banked
memory controller of Project H with its golden model, and the Python scripts that
run these programs case after case, check what they wrote and publish tables and
advice. The modules are checked with TLC on small instances, and for the cores
(AT-1, AT-2, AT-3, AT-5, AT-6, AT-7, the AT smoke lab, the RTL controller and its
golden model) the safety properties and refinements are proved with TLAPS for every
value of the parameters.

Paths below are relative to the repository. `PROJECT.json` maps every definition
to the lines it models.

## 1. The system and its parts

| Part | Where | State | Operations | Hard behaviour |
|---|---|---|---|---|
| SystemC scheduler | external library | process states, notified events, timers, `sc_time_stamp` | evaluation, delta cycle, time advance, `sc_stop`, `SC_REPORT_FATAL` | the order of the ready processes of one delta cycle is unspecified; a notification nobody waits for is lost |
| AT-1 four-phase memory | `examples/at/four_phase_memory_timing` | initiator (awaited request, response queue, records), target (slots, three queues, two requests carried across a wait) | `issue_requests`, `send_end_responses`, `send_end_requests`, `service_requests`, `nb_transport_fw`, `nb_transport_bw` | four threads hand one request over; slot accounting is spread over three functions |
| AT-2 multi-initiator arbitration | `examples/at/multi_initiator_arbitration` | three initiators, interconnect queues and cursors, target, Top | the above, `arbitrate_requests`, `choose_next_initiator`, `stop_when_done` | ten threads; initiators do not wait for END_REQ; fairness of three policies |
| AT-3 QoS and SLA | `examples/at/qos_sensitivity_sla` | as AT-2 with weights and bursts | as AT-2 with `build_weighted_order`, `issue_gap_after`, draining admission | a cursor that skips the slots of idle initiators |
| AT smoke lab | `examples/at/systemc` | initiators with payload event queues, bus, target, phase trace | `run`, `handle_bw_phase`, `service_requests`, `process_requests`, `stop_when_done` | payloads on the stack of a thread, pointers to them in three modules |
| AT smoke lab's demonstration and sweep | `examples/at/tools/demo_at_lab.py`, `run_arbitration_sweep.py`, `analyze_phase_trace.py` | the one `phase_trace.csv`, the directory of each policy, results so far, the trace kept aside | clean, run, analyze, per policy clear, run and analyze, write, restore, conclude | every run overwrites the trace of the one before; traces that end early |
| AT-4 cache and MSHR | `examples/at/project_at4_cache_mshr_pressure.cpp` | active misses | one loop over sorted records | misses that end together free several entries for one that waits |
| AT-4 and AT-5 demonstrations | `examples/at/tools/demo_at4_cache_mshr_pressure.py`, `demo_at5_backpressure_qos_collapse.py` | build directories, rows of the tables so far, failures, files | configure, compile, run a case, analyse it, write, accept | a failing or interrupted step after others have written; directories that are reset while other runs have output in them |
| AT-5 backpressure and QoS | `examples/at/project_at5_backpressure_qos_collapse.cpp` | two lists of release times, next free time of the server | one loop over records in schedule order | records are not processed in the order of their times |
| AT-6 heterogeneous fabric | `examples/at/project_at6_heterogeneous_soc_fabric.cpp` | pending queue, round-robin cursor, token time | one event loop | token throttling and a loop that must make progress |
| AT-7 GPU-like saturation | `examples/at/project_at7_gpu_like_throughput_saturation.cpp` | lanes, memory queue, outstanding counts | complete, start, issue, advance | three limits at once; a loop that must make progress |
| Project H RTL | `examples/lt/rtl_banked_memory_controller/rtl` | per bank a ring buffer of completion cycles | one clock edge, reset | two nonblocking assignments to one count in the same edge |
| Project H harness and golden model | `examples/lt/rtl_banked_memory_controller/sim` | per bank a queue and a busy time | `run_aligned_model`, `run_rtl`, `reset_rtl` | lazy pruning must decide like the RTL |
| Project E | `examples/lt/banked_memory_controller_cpp` | per bank: busy time, open row, completion times | one loop over sorted requests | full queues; percentiles at the boundaries |
| Projects K and L | `examples/lt/tools/demo_project_k_workload_bottleneck_lab.py` | the sweep so far, tables, reports | build, remove, run Project E nine times, attribute, recommend, write, accept | advice beside tables it was not made from |
| Trace replay (Project D, Python engine) | `examples/lt/replay_cpp`, `examples/lt/tools/*replay*.py` | none across calls but files | validate, sort, replay, summarise, compare | two engines that must accept and order alike |
| LT lab in SystemC | `examples/lt/systemc` | per target: busy time and last bank; the trace file | blocking transport, settings from environment or file | rows appended over sessions |
| LT sweeps and demonstrations | `examples/lt/tools/run_*_sweep.py`, `analyze_latency.py`, `demo_memory_access_pattern_lab.py`, `demo_performance_lab.py` | `workload_config.env`, the trace, tables | prepare, run, remove, analyse, write a case | what a killed or failed invocation leaves for the next |
| Other Python tools | `examples/*/tools`, `tools` | none across calls | CSV to CSV | none beyond those of the scripts above |
| Renode examples | `examples/dma`, `examples-native`, ... | peripherals behind an external bridge | callbacks from the bridge | the behaviour of a library that is not in the repository |

How they interact: in the AT labs modules call each other through
`nb_transport_fw` (requester to target: BEGIN_REQ, END_RESP) and `nb_transport_bw`
(target to requester: END_REQ, BEGIN_RESP). A call runs in the thread of the
caller and may enqueue, stamp a record and notify an event with `SC_ZERO_TIME`;
the thread that waits for the event runs in the next delta cycle. The queueing
models AT-4 to AT-7 are single loops that compute the times the other labs
simulate. Project H runs one request trace through the RTL and through a golden
model and compares the rows. The scripts start the programs as processes and
read the files they leave; the LT scripts also hand settings to a program through a
file and the environment, and share one trace file with it.

What makes each part correct:

* AT-1: END_REQ answers the awaited request; slots are neither lost nor handed
  out twice; no wakeup is lost; the times are those of a queue with
  `queue_depth` slots and one server; the run stops with everything answered.
* AT-2, AT-3: the above for a shared target; one request downstream at a time;
  no transaction lost or duplicated between seven queues; the order of each
  initiator kept; overtaking bounded by the policy.
* AT smoke lab: no dangling payload pointer, bus and target agree on the active
  transaction, the trace is complete, the preferred initiator is served faster.
* AT-4: a miss waits while the MSHR is full and takes the entry that is freed
  first.
* AT-5: stages in order, one server, depths within the capacities.
* AT-6: the order of each initiator kept; the cap on the NPU effective; the
  memory idle only when nothing may be served; the policy obeyed at the times of
  issue, not only for what is in the queue; the loop ends.
* AT-7: none of the program's exceptions; counters agree with the queue they
  count; blocked intervals complete; averages consistent with the records.
* The scripts: exit code, tables, reports and traces on the disk agree with what
  happened, whatever went wrong and whatever was there before; an error is
  reported only when there is one; what the reports advise is borne out by the
  numbers.
* Trace replay: both engines accept the same traces and, where they read the ids
  alike, summarise them alike; where they do not, no report is written.
* Project H: the ring buffer is consistent; requests of a bank are served one
  after the other; RTL and golden model agree row by row.

## 2. The modules

| Module | Models | Composes |
|---|---|---|
| `SystemCKernel` | the scheduler as the labs use it | |
| `MemoryTarget` | class `MemoryTarget` of AT-1, AT-2, AT-3 | `SystemCKernel` |
| `FourPhaseLink` | abstract: the four phases between a requester and a target | |
| `FourPhaseMemory` | AT-1 | `MemoryTarget`; implements `FourPhaseLink` |
| `MultiInitiator` | initiators, interconnect, Top of AT-2 and AT-3, and the scan over weighted slots both arbiters use | `MemoryTarget`; implements `FourPhaseLink` |
| `AT2Arbitration`, `AT3QosSla` | the two programs: options, issue gaps, `choose_next_initiator` | `MultiInitiator` |
| `Fabrics` | both in one state space: a behaviour is a run of one of them | `AT2Arbitration`, `AT3QosSla` |
| `PhaseTraces` | the traces the smoke lab can write, and the phase trace analyzer | |
| `AtLab` | the AT smoke lab | `SystemCKernel`, `PhaseTraces` |
| `AtLabDemo` | the demonstration of the smoke lab and its arbitration sweep | `PhaseTraces` |
| `CacheMshr` | AT-4: the cases and `run_shared_resource_model` | |
| `At4Results`, `At4Lab` | the AT-4 demonstration: what it computes of a trace, and its steps | `CacheMshr` |
| `Backpressure` | AT-5: schedule, queues and server as functions of a record | |
| `BackpressureModel` | AT-5, record by record | `Backpressure` |
| `At5Results`, `At5Lab` | the AT-5 demonstration: what it computes, and its steps | `Backpressure` |
| `HeterogeneousFabric` | AT-6 | |
| `ThroughputSaturation` | AT-7 | |
| `BankedMemory` | abstract: what a banked memory promises | |
| `BankedMemoryController` | the RTL; implements `BankedMemory` | |
| `ProjectH` | RTL and golden model on one trace | `BankedMemoryController` |
| `ProjectE` | the banked memory model of Project E | |
| `BottleneckRules`, `ProjectKL` | Projects K and L: traces, features, rules and advice, and the steps of the script | `ProjectE` |
| `LtBus` | the LT lab in SystemC: from a workload to its latency trace | |
| `MemorySweep`, `WorkloadSweep`, `LtSweepRows` | what the sweeps measure and check of a trace | `LtBus` |
| `LtSweepLab` | the sweeps and their demonstrations, one invocation after another | `LtSweepRows` |
| `TraceReplay`, `ReplayLab` | the two replay engines, and their demonstrations | |
| `FourPhaseMemoryProofs`, `AtLabProofs`, `HeterogeneousFabricProofs`, `ThroughputSaturationProofs` | theorems | the modules they are named after |
| `BackpressureProofs` | theorems about AT-5 | `BackpressureModel` |
| `BankedMemoryControllerProofs` | theorems about the RTL, and about RTL and golden model | `ProjectH` |
| `MultiInitiatorProofs` | what every step of the shared fabric preserves: accounting, wakeups, places and order of the transactions | `MultiInitiator` |
| `FabricsProofs` | the two arbiters, and the theorems about AT-2 and AT-3 | `Fabrics`, `MultiInitiatorProofs` |
| `MCAtDemos`, `MCLtDemos` | runs of several programs in one state space: a behaviour is one of them | the modules they instantiate |
| the other `MC...` | constants and option sets for TLC | |

### Conventions

* **A step is a segment**: the code an `SC_THREAD` runs between two waits, with
  every call it makes into other modules. SystemC processes are cooperative, so
  nothing else runs in between. The threads that are ready in one delta cycle run
  in any order.
* A request that a thread has popped and carries across a timed wait is state of
  its own (`accepting`, `servicing`, `responding`): it is in no queue of the
  code, but the program has it.
* Times are whole numbers: `Ns` ticks per nanosecond in the AT labs; in the
  queueing models a unit in which every constant and every product of the program
  is exact (0.1 ps in AT-5 and AT-6, 1 ps in AT-7). The programs compare doubles
  with a margin of 1e-9; exact arithmetic needs none.
* In the queueing models a step is one iteration, or one part of an iteration, of
  the program's loop, in the order of the code: a part is enabled only when the
  parts before it have nothing left to do.
* A variable `opt` holds the options of the run, chosen once by `Init`: one TLC
  run checks all options of its `.cfg`.
* In the scripts a step is what happens between two points at which the rest of
  the world can tell a difference: a file written, a process run, a decision to
  go on. At most one thing goes wrong in an invocation, chosen in `Init` or when
  it happens; an interrupt (which Python sees) or a kill (which it does not) may
  come between any two steps, and a file that is being written then is cut short.
  A file is represented by who wrote it (`earlier`, `this`, none) and what was put
  in it. The numbers the scripts decide by are the real ones: the modules compute
  the traces of the programs for the scripts' own cases, once, as constants, in
  thousandths of the printed unit.
* `Exit` (or `Finished`) is the program returning after `sc_start`; it keeps a
  finished run from being reported as a deadlock, so deadlock is checked in all
  runs: a state in which the scheduler can do nothing and has not returned is an
  error. A simulation whose threads all wait for ever *returns* from `sc_start`
  without an error; that is `Starved`, and `RunStops` says it does not happen.
* Operators with a suffix such as `HasFreeSlot_OneTooMany` are plausible bugs
  of the operator they are named after. No specification uses them; substituted
  for the original they break the property they are listed with.

### State and code

`MemoryTarget` keeps `occupied_slots_`, `waiting_accept_queue_`,
`end_req_queue_` and `service_queue_` under the names of the code;
`FourPhaseMemory` keeps `awaiting_end_req_`, `end_req_seen_`,
`completed_responses_`, the response queue and the four stamps and the status of
each record. `MultiInitiator` keeps the per-initiator queues of the
interconnect, `downstream_pending_`, both cursors, and of each record the last
phase it was stamped with. `passed` is a history variable: it counts grants and
influences nothing. Which program a behaviour of `Fabrics` is a run of shows in its
options: those of AT-2 name a policy, those of AT-3 have weights; by the same mark
`MemoryTarget` admits one waiting request per release or all a free slot allows
(`DrainAll`). `AtLab` represents a payload pointer by the transaction
whose payload it points at; whether two calls of `send_transaction` reuse one
stack address is a choice (`reuse`) that comparisons of pointers
(`SamePayload`) take into account. `BankedMemoryController` keeps the registers
of the RTL; one step is one clock edge, written as the value of each register
after all nonblocking assignments. `ProjectH` runs RTL and golden model in lock
step; the program runs them one after the other, which makes no difference as
they share only the trace. `BackpressureModel` keeps the locals of
`run_backpressure_model`: the two lists of release times and the time the server is
free. Of a list the code asks the size, the earliest time and what is over by now, so
the order means nothing and the lists are sets here; as two records may end together,
an entry carries its transaction with its time. `HeterogeneousFabric` keeps the locals of
`run_fabric_model`: the pending queue of positions in the sorted schedule, the
cursor, the time of the next token, and of each record the start of its service
(its end follows from `service_delay_for`). `ThroughputSaturation` keeps the
`LaneState`s, the memory queue, the request in service and the areas of
`run_case`; an exception is the state `Throw` leads to, so that `NeverThrows` is
about reaching it. `LtSweepLab` keeps `workload_config.env`, the sessions whose
rows `latency_trace.csv` holds, the tables of each sweep and `analysis.txt`, all
of which outlive an invocation, and the locals of `main` and `run_case`.
`AtLabDemo` takes the traces of a run from `PhaseTraces`, where they are written
down; that the lab writes these and no others, whatever the order of its threads,
is a part of `PolicyEffect` and checked in `AtLab`.

## 3. The runs

| Run | Question | Instance |
|---|---|---|
| `at1_options` | does AT-1 do what its records claim, for all orders of its threads? | 1-4 transactions, 1-2 slots, service latency and issue gap 0-3.5 ns in steps of 0.5 ns |
| `fabrics` | are the shared fabrics of AT-2 and AT-3 safe, fair by their policy or weights, and do they implement the link? | 3 initiators with 4 transactions each, 1-2 slots; AT-2: three policies, each initiator back-to-back or spaced; AT-3: weights 1-2, bursts 1-2 |
| `atlab_policies` | is the smoke lab safe, complete, and is its comparison of policies independent of the thread order? | the lab as built: 2 initiators, 2 transactions each, 3 policies, both payload layouts |
| `projecth_lockstep` | do RTL and golden model agree, and implement a banked memory? | 2 banks, depth 2, latency 3, traces of up to 11 cycles, two addresses a bank, resets |
| `at6_cases` | does AT-6 serve by its policies, in order, paced, without idling, and end? | the five cases of the program, all their records, and two lighter cases |
| `at7_cases` | does AT-7 run without an exception, count right and average right? | the six cases of the program, all their requests |
| `at_demos` | do the demonstrations of AT-4, AT-5 and the AT smoke lab tell the truth about their run, and are AT-5's reported queues within bounds? | the scripts' own seven cases each; a fault in the build or in any of the cases (of AT-5: cases 1, 2, 5), an interrupt anywhere; the smoke lab's demonstration and its sweep, alone or of one policy, every trace the lab can write, a fault in any run, traces cut after any row; the AT-5 program: 7 cases, 5 policies, 27 records, capacities, latencies and rates that limit or do not |
| `lt_demos` | do the LT scripts leave the outputs of their own run, and is their advice borne out? | Projects K and L: one invocation with any fault; the LT sweeps: every two invocations in a row; trace replay: two traces, the first of up to 4 rows |
| `at5_overflow` | are AT-5's queues bounded at the times it reports? (violated) | the AT-5 program with small capacities |
| `at4_overflow` | are at most `mshr_capacity` misses of AT-4 in flight? (violated) | the seven cases |
| `at5_keep_going` | does `--keep-going` write a report after a failed case? (violated) | a run of the program that fails |
| `lt_dedup` | does the memory sweep count each transaction once? (violated) | one invocation |

Why these bounds are enough for the interesting cases:

* AT-1: half nanoseconds put gaps and latencies before, at and after the fixed
  1 ns delays, and at the same instant as them, so that every pair of threads
  meets in one delta cycle; four transactions with one or two slots fill the
  slots, make a request wait, release it, and go round again.
* AT-2: four transactions an initiator fill all the queues of the interconnect,
  and are enough for the weighted cursor to go round twice and for an initiator
  to be overtaken as often as its policy allows and once more if it were wrong.
* AT-3: weights and bursts of one and two are the smallest with a skipped and a
  doubled slot, and a gap that is not the same after every request.
* AT smoke lab: the program has no options but the policy; the run is the
  program.
* Project H: a latency above the depth keeps a full ring for several cycles;
  11 cycles fill it, drain it, wrap both indices and reach every combination of
  completion and accept in one cycle. The theorems remove these bounds for the
  RTL and the golden model.
* AT-5: nine transactions an initiator reach the tail penalty of every eighth
  transaction, the burst pauses, and full queues of both kinds. The theorems remove
  these bounds; what they keep is `MaxTransactions`, below.
* AT-4, AT-5 demonstrations: the cases are the scripts'. One fault is enough for
  the error paths, which do not interact: the first failing step ends the script or
  is recorded. AT-5's faulty cases are the first, one with other runs before its
  primary policy's, and one in the middle.
* AT smoke lab's demonstration: the script has no cases of its own; every row a
  trace may be cut after, in every run, is tried.
* Projects K and L: nothing is left open but the faults.
* LT sweeps: what one invocation leaves (settings, rows, tables) is all the next can
  find, so two invocations show every way an earlier one can disturb a later one.
* Trace replay: two rows decide order, ties and duplicates; three and four rows are
  there for the ranks of the percentiles; the ids differ as numbers and as texts
  ("9", "10"), and one has a leading zero ("010"), which the engines read apart.
* AT-6, AT-7: the programs take no option that changes the simulation, so the
  runs are the programs. In AT-6's cases the fabric never runs dry, so the jump to
  the next record is not taken; two cases with longer gaps are added to reach it.
  The end times (and AT-6's maximum latencies, AT-7's averages) are exactly those
  of the committed `summary.csv` files. The theorems take AT-7 to every number of
  lanes, requests and limits, and AT-6 to every set of cases of the program's kind.

`LastCycle` (Project H) and the number of transactions (all labs) are the only
bounds on counters; both are parameters of the programs too. `MaxTransactions` (AT-5)
is a bound of the model of another kind: the program gives the transactions of an
initiator the ids from 100001, 200001 or 300001 on, so with more than 100000 each two
of them may share an id, and equal keys are then ordered otherwise.

### Properties worth knowing

* `NoLostWakeup` (AT-2, AT-3): a thread that sleeps on an event while its work is there
  has a notification under way.
* `TraceTiming` (AT-1): the stamps satisfy the recurrences of a queue with
  `queue_depth` slots and one server, in every order of the threads, and a record
  without the backpressure flag was not blocked.
* `ImplementsLink` (AT-1, AT-2, AT-3): the simulated modules refine `FourPhaseLink`.
* `TransactionsTracked` (AT-2, AT-3): `InFlightOnce`, `InitiatorOrder` and
  `OneDownstream`. The last one also explains why AT-2, which admits one waiting
  request per release, and AT-3, which drains, behave alike: at most one request
  ever waits.
* `OvertakingBounded`: fairness of the arbiters, `BoundedOvertaking` for AT-2 and
  `WeightedShare` for AT-3.
* `PayloadShared` (no dangling payload, and bus and target agree), `PolicyEffect`
  (AT smoke lab).
* `RowsAgree`, `ImplementsBankedMemory` (Project H).
* `RunStops` (AT-1, AT-2, AT smoke lab): the simulation comes to `sc_stop()`, and
  only with everything answered.
* `OutcomeMatchesRun` (AT demonstrations), `OutputsMatchRun` (LT
  scripts): exit code, tables, report and traces agree with what happened, and no
  error is reported without a cause. For the LT sweeps it states the one fault that
  goes unnoticed, a session cut short in the memory sweep. For the smoke lab's
  demonstration it says besides that `phase_trace.csv` is the analyzed trace again
  however the sweep ended, that what the script concludes at the end is true of the
  numbers, and which cut the analyzer cannot see: a run that serves both
  transactions of one initiator first, cut after its twelfth row, is reported with
  three complete transactions and no failure.
* `ResultsSound` (AT-4): the sweep and the summary, computed apart, tell the same
  story, and the MSHR is respected unless two misses end at once.
* `ConclusionsHold`: more banks or another mapping, where Project L recommends them,
  take a quarter or more off the 95th percentile of the workload, and a case of an LT
  sweep differs as its report says from the case the report compares it with: the
  baseline, or for the target 202 hotspot the target 201 hotspot. One claim is
  stated as false, since it is: that the hotspot of the memory sweep has more conflicts
  and a longer tail than the sequential case. Its metrics are the same, unless a session
  was cut short; a missing row may also make a case look better than the sequential one.
* `QueuesRespected` (AT-5): both lists and the depths a record reports are within the
  capacities, full is reported exactly when it is true, and initiators are served in
  order.
* `ServiceDiscipline` (`ServedInOrder`, `TokenPaced`, `WorkConserving`) and
  `PolicyRespected` (AT-6): stated
  over the issue times of all records, so that an arrival that is put in the queue
  too late, or a jump in time that is too long, shows.
* `NeverThrows`, `Accounted`, `BlockedOnTime` (AT-7), and `LittlesLaw`: the
  areas under the queue and the outstanding counts are the sums of the delays of
  the records, as the averages the program reports presume.
* `RunCompletes` (AT-6, AT-7): the loops end with everything served.

The smoke lab's documentation quotes averages of exactly 1 ns for the preferred
initiator (`README.md:234`). With other orders of the threads of one delta cycle
the first request of the other initiator may win the empty bus, and then the
average is higher. The SystemC library at hand picks one order, so this is not
reported as a disagreement; `PolicyEffect` states what every order guarantees.

`fabric_queue_capacity` of AT-6 bounds nothing: it only decides a flag of the
records, and the queue peaks in the committed summary exceed it. Nothing in the
documentation says otherwise.

### Findings

`at5_overflow`: AT-5 prunes its lists of release times with the time of the
record in hand, and forgets what it pruned. Records are processed by schedule
key, so a later one can have earlier times; it then does not see records that,
at its own time, are still queued. By the times in the trace the downstream
queue holds more records than its capacity, while `examples/at/README.md:304`
calls the queues bounded. `ReportedDepthBounded` (which holds) says that the
depths the program *reports* do stay within the capacities. The demonstration
cases with their default options do not reach it.

`at4_overflow`: when the MSHR is full, AT-4 grants a miss at the earliest end and
drops every completion up to then. Misses that end together all leave, and a
later record whose look-up was before that time is let in at once, before the
entries are free. The shipped case `high_mshr_diminishing_return` reaches it:
9 misses in flight with 8 entries.

`at5_keep_going`: with `--keep-going` a case of the AT-5 demonstration that fails
after its primary policy has a row but no recommendation, and the report, which
looks it up, ends with a `KeyError`; the help of the option promises the report.

`lt_dedup`: the memory sweep counts every transaction twice, once for each test of
`lt.robot`, while `README_performance_lab.md:521` says it runs the analyzer with
`--dedup-identical`; the script does not run the analyzer.

Some more disagreements were met while reading and have no run of their own.

* The settings of the memory sweep's hotspot case differ from those of the sequential
  one in `LT_MEMORY_PATTERN` and `LT_HOTSPOT_RATIO` only, and `top.cpp:186` reads
  neither: in the model the settings of a case hold the pattern, and
  `getWorkloadSettings` drops it. The sweep does not notice, as the trace has no column
  to check them by, and its report (`run_memory_access_pattern_sweep.py:655`) says that
  the hotspot "should expose higher bank conflict and tail latency than sequential
  access". All its metrics are those of the sequential case, as
  `README_performance_lab.md:583` shows too; `ConclusionsHold` says so.
* `trace_validator.cpp:147` reads ids with `strtoll` and base 0, Python with
  `int(x, 0)`: "010" is 8 to one and a text to the other. Rows of one time are then
  replayed in another order, and other accesses conflict, while the design note
  `docs/project_d_cpp_trace_replay_engine_design.md:302` makes equivalence of the engines
  the acceptance criterion. For rows 1, 9 and 010 of one time in the banks 0, 1 and 0 the
  Python engine writes an average of 100.000 ns, the C++ engine one of 106.667 ns (both
  programs were run). `OutputsMatchRun` says that, of the ids in the run, this
  is the only difference, that the comparison finds it and that no report is
  written. Underscores ("1_0") differ in the same way and are modelled, but not in
  the run.
* `csv_writer.cpp:84` does not quote workload names; the names of `lt_demos` have no
  comma.
* When a file lies where the arbitration sweep wants the directory of a policy,
  `run_arbitration_sweep.py:246` raises inside the handler of the first error: with
  `--keep-going` too the sweep ends at once and writes no summary
  (`examples/at/README.md:89`). `AtLabDemo` does the same.

## 4. Fairness

Two properties are liveness: `RunStops` (a simulation comes to `sc_stop()`) and
`RunCompletes` (a loop comes to its end).

`RunStops` is checked under `WF_vars(Thread \/ Scheduler)`, one weak fairness
condition on the whole kernel. That is what the code has: `sc_start()` is a loop
that runs ready processes, then delta cycles, then the next timer, until
`sc_stop()` or until there is nothing left. No fairness between processes is
assumed, and none is needed, since a process that is ready keeps the delta cycle
from ending.

`RunCompletes` is checked under `WF_vars(Next)`: AT-6 and AT-7 are sequential
programs, and nothing keeps a sequential program from taking its next step. What
the property adds is that the steps lead to the end: a round of the loop that
changes nothing is a stuttering step, which fairness does not count.

Project H, AT-5 and the scripts have no liveness property: they take a step per
cycle, record or case, and end.

## 5. What is proved

Assumptions: those on the constants, stated as named ASSUMEs in
`MemoryTarget`, `FourPhaseMemory`, `AT2Arbitration` (`PolicyOptionsAssumption`),
`AT3QosSla` (`WeightOptionsAssumption`), `BackpressureModel` (`OptionsAssumption`),
`BankedMemoryController`, `ThroughputSaturation` and `HeterogeneousFabric`
(`CasesAssumption`) and evaluated by TLC in the runs above. Those on options say what
the programs' parsers let through: AT-3's rejects a weight of zero
(`qos_sensitivity_sla/main.cpp:904`). The smoke lab has no constants. The proofs use
no bound on transactions (but for AT-5's `MaxTransactions`), slots, latencies, gaps,
weights, banks, depth, trace length, lanes, records or limits.

**AT-1** (`FourPhaseMemoryProofs`): `TypeCorrect`, `AbortFree`,
`SlotsAreAccounted`, `SlotsAreNotIdle`, `UpstreamIsAwaited`. The inductive
invariant `Inv` adds two facts to the properties. `Counted`: `occupied_slots`
is the sum of the lengths of the four stages of the pipeline (then a service
that ends has a slot to release). `AwaitedIsIssued`: the awaited request has a
stamp (then the next issue time is a number). `OneUpstream` is needed for
`NeverAborts` (END_REQ comes for the awaited request only) and for
`NoIdleSlot` (one admitted request per release is enough because at most one
waits). The proof goes thread by thread; the scheduler changes none of it.

* `TimingIsExact`: `TraceTiming`, the times of the trace. That the stamps obey the
  recurrences says nothing of the present, so it is not inductive. `TimingInv` has
  two parts. `StampInv`: requests pass the four stages in the order of issue, so that
  three counts (issued, accepted, answered) say which stamps are set and which
  request each queue holds, and every stamp that is set is the one the recurrence
  gives. The other part is that each of the four threads is on time: one that carries
  a request across a wait has its timer set to the stamp the recurrence gives that
  request; one that sleeps with work in its queue was given the work at this very
  instant and has a notification under way. Then time cannot pass over work, and the
  order in which the kernel runs the threads of one delta cycle does not matter: it
  is nowhere in the proof.
* `MemoryImplementsLink`: the same counts tell the phase of every transaction, so
  that each step of a thread is one step of `FourPhaseLink` or none.

**AT-2 and AT-3** (`FabricsProofs`, on the lemmas of `MultiInitiatorProofs`). The two
programs share their steps, and so the lemmas about a step; what differs are the
arbiters and the options. The theorems are about `Spec` of `Fabrics`, the one the run
checks. `ProgramInv` says that the options, which never change, tell which program
runs, and holds the invariant of that program: `OvertakingInv` for AT-2, `ShareInv`
for AT-3, each with `FabricInv`.

* `FabricIsAccounted`, `FabricNeverAborts`. The invariant `FabricInv` is that of AT-1
  with `OneUpstream` for the interconnect: it sends a second request only after the
  END_REQ of the first. Hence a release that admits one waiting request (AT-2) and one
  that admits all (AT-3) do the same, and no slot is idle while a request waits.
* `OvertakingIsBounded`: `OvertakingBounded`. `passed[i][j]` alone is not inductive;
  `Paid` says what a grant costs. For the weighted policies the order
  is a ring of slots: the grants of `j` while `i` waits and the slots of `j` the
  scan still meets before the next slot of `i` are together at most the weight of
  `j` (a grant uses up a slot; slots of idle initiators that are skipped only
  lower the second number). AT-2 has a ring of five slots; for AT-3 the lemma
  `ChoiceIsNearest` shows for all weights that the scan of `build_weighted_order`
  finds the nearest waiting slot. For round robin a grant of `j` puts `i` ahead of
  it; for fixed priority nobody of lower priority is granted, and whoever has a
  higher one at most as often as it has issued (`GrantsAreIssued`).
* `WakeupsAreKept`. `WakeupInv` is `NoLostWakeup` with `FabricInv` and the types of
  what threads wait for. A step that makes work for
  a sleeping thread notifies its event; a thread that goes to sleep has just seen
  that there is none; and the delta cycle, which clears the notifications, wakes
  whoever waits for one.
* `TransactionsAreTracked`, `FabricsImplementLink`. `LinkInv` ties the phase
  of a transaction to its place: each queue holds the transactions of its phase,
  all of them, each once, those of one initiator in the order of issue. So the
  head of a queue is the earliest of its initiator in that phase (`QueuePop`),
  and moving it on keeps the order of the phases (`Advance`) and is a step of the
  link (`LinkStep`).

**AT smoke lab** (`AtLabProofs`): `LabNeverAborts`, `PayloadIsShared`. Neither property
is inductive: that a pointer matches, or that a payload is alive, depends on what the
other threads are waiting for. `Inv` ties four things together. `FlightInv`: a
transaction in the bus' queue or active is the current one of its initiator, which has
only one, and the initiator sleeps with its event not notified; so its
`send_transaction` cannot return. `TargetInv`: bus and target hold the same
transaction, and the target is only woken for one it has not taken yet. `PeqInv`: an
initiator's event queue holds phases of its active transaction only, in order, and its
method is called back at most once for each, whether END_REQ and BEGIN_RESP come in
one delta cycle or in two. `AnswerInv`: what was written and read for those that were
answered, from which the comparison in `Finish` cannot fail. The END_RESP of the
callback is then the one step that lets go of a payload everywhere and wakes the
initiator. No clock appears in the argument, so it does not depend on the latencies
of the lab (1 and 4 ns), only on the order in which a process waits.

**AT-5** (`BackpressureProofs`): `QueuesAreRespected`, `TimesOfARecordFollow`,
`EveryTransactionServed`, for all options.

* The schedule. Gaps between the issues of an initiator are at least 4 ns, which is
  more than the jitter (at most 0.9 ns) and the spread of the bias a policy adds to
  the key together, so that the keys of an initiator rise with its transactions under
  every policy (`KeysRise`). The comparison of the sort is a strict total order
  (`BeforeIsOrder`), hence the ranks that define the schedule are a bijection
  (`RanksRise`) and the schedule is in that order with every record in it (`Sorted`).
* A visit to a queue (`EnterFacts`): what is over is pruned; a queue that is still full
  makes the record wait for the earliest release, which is in the list (a finite set
  has a least element, `LeastElement`) and leaves it; so there is room for one entry.
* The loop. `Inv` has `TypeInv`, by which both lists are within their capacities;
  `ScheduleOK`, the records processed and those still to process are together the
  schedule; and `ServedOK`, each record is served after the one processed before it,
  and its depths and times are those of its visits. The order of each initiator
  follows from the last two; without `KeysRise` it would not.

**Project H** (`BankedMemoryControllerProofs`): `TypeCorrect`,
`RingIsConsistent`, `RequestsServedInOrder`, `LatencyIsBounded`. The inductive
invariant adds `QueueInv`: every completion in the ring is still to come, each
one service latency after its predecessor, the first at most one away, and the
last is when the bank becomes available. Hence at most one request of a bank
completes per cycle, which is why a single pop per clock edge suffices, and a
new request waits at most for the `QUEUE_DEPTH - 1` before it. The lemmas
`SlotsDiffer` and `PopRenumbers` carry the modular arithmetic of the ring.

* `ControllerImplementsMemory`: the ring implements the set of completions of
  `BankedMemory`. The completions rise along the ring (`Rising`), hence differ, so
  that their number is the count in the register and the pop of the head removes
  exactly those that are over.
* `GoldenModelAgrees`: `RowsAgree`, for RTL and golden model in lock step. The RTL
  pops in every cycle, the golden model only when a request of the bank comes. The
  invariant `Golden` says how far apart this lets them drift: the busy times are
  equal, the ring is the end of the golden queue, and what the golden queue has
  before it is over already. So the pruning before a decision leaves the same number
  in both, and they accept, reject and date every request alike.

**AT-6** (`HeterogeneousFabricProofs`): `ServiceIsDisciplined`,
`PolicyIsRespected`, `EveryRecordIsServed`, for every set of cases. What
`CasesAssumption` asks of a case beyond types is what the five cases of the program
have and the properties need: gaps above the jitter of issue times (which is below
3 ns), or an initiator's records would not be issued in their order; positive factors
of the service time; and no token under round robin, since an initiator that waits
for a token is passed as often as the others come. Service times are whole ticks in
the program's cases; for others the model rounds down, and the proofs use no more
than that a service takes time.

* The schedule. `make_initial_records` is defined by ranks: place `k` has the record
  with `k - 1` before it. `IssueTimesRise` makes the comparison of `std::sort` a strict
  total order on the records of a case (`BeforeIsOrder`), the ranks are then a
  bijection (`RanksRise`), and `Sorted` says that the schedule is a sequence in that
  order with every record in it.
* The loop. `Inv` has `QueueOK`, the queue holds, in the order of the schedule and
  once each, exactly the enqueued records that are not served, and each initiator is
  served in that order; and `ServiceOK`, no service that was started ends after the
  present, and the token is due no earlier than a gap after the NPU's last start. Then
  the record served is the first of its initiator (`ServeTakesFirst`), and whatever
  is issued is in the queue when the policy looks (`IssuedIsPending`), which turns a
  statement about the queue into one about the times of issue.
* Round robin. `RoundRobinInv`: an initiator that has passed another's waiting record
  has passed it with one record, and its turn now comes later. A service of `k` keeps
  this because whoever waits and may be served is tried after `k`, so had not been
  passed by it; then `k` is tried last, and those behind it keep their order
  (`RoundTurns`). A record that becomes the first of its initiator because `k`'s
  service starts has been passed by nobody (`SinceAfter`).

**AT-7** (`ThroughputSaturationProofs`): `TypeCorrect`, `ExceptionFree`,
`CountsAgree`, `BlockedFromTheStart`, `LittlesLawHolds`. The first four properties alone are not
inductive: whether the counters can underflow, whether there is a next event and
whether it is later than the present depends on the part of the round the loop is
in. `StageInv` says, for each part, what the parts before it have established
(the server is not overdue, no lane that could issue is left, a lane that is
ready and has not issued is marked as blocked). Then a round that is over has a
request in service or a lane that becomes ready later, hence a next event in the
future; that the set of event times, which is not empty, has an
earliest member is shown with the well-foundedness of the order on the naturals
(`EarliestExists`).

* `LittlesLawHolds`: `LittlesLaw`. It compares areas with sums over all completed
  records, and between completions the areas also hold what the requests under way
  have waited so far; `LittleInv` adds these ages, summed over queue and server
  (`AgeSum`). What a sum over a sequence is when an element is appended, the head is
  taken, or all ages grow by the same amount is shown of the sequence of its partial
  sums: if the sum had another value, there would be a least place at which it
  differs, and the place before refutes it (`AgeSumUnique`, `PartialSums`). This is
  induction as an argument about the least member of a set.

## 6. What is only model-checked

* Liveness: `RunStops`, `RunCompletes`. Liveness under fairness is out of the
  prover's reach. What the ends of the loops are like is proved where a theorem says
  so: AT-6 leaves no record unserved (`EveryRecordIsServed`), nor does AT-5
  (`EveryTransactionServed`).
* `PolicyEffect` of the AT smoke lab: it compares the finished trace with a list of
  traces. The program has two initiators with two transactions each and no parameter
  but the policy, so the run is all there is.
* The scripts (`OutcomeMatchesRun`, `ResultsSound`, `OutputsMatchRun`,
  `ConclusionsHold`): they run their own cases, and what is said of these is true of
  the numbers, not of every number.

## 7. What is not modelled, and why

* Addresses, data, commands, CSV and console output of the AT labs: they decide
  nothing in the control. The AT smoke lab is the exception (its check of the read
  data is fatal), and there the words are modelled.
* Immediate notification, event cancellation and method sensitivity of SystemC:
  the labs do not use them.
* Widths: the counters of the RTL are 32 and 64 bits wide and do not wrap in the
  cycles a workload has; the models use naturals.
* Of the LT lab in SystemC, the bridge to Renode, the contents of the memories,
  debug transport and DMI. Renode's own accesses are filtered out by the scripts
  and taken to come after the traffic.
* Two invocations of a script at the same time: the scripts take no lock, and
  nothing says that they may overlap.
* Other Python tools (`normalize_profiler_counters.py`,
  `gem5_stats_correlation.py`, `build_accuracy_validation_packet.py`,
  `correlate_model_rtl_summaries.py`, portfolio validation): they read tables, compute sums
  and ratios and write one result at the end. The demonstrations of AT-2 and AT-3
  have the same steps as those of AT-4 and AT-5.
* The Renode examples (their behaviour is that of an external bridge and of
  Renode), build scripts and CI, vendored code.

## 8. Order of the work, and what is left

Done, in this order: kernel, AT-1 with its proof, AT-2 and AT-3, the AT smoke lab,
Project H with its proof, AT-5, AT-7 with its proof, AT-6, AT-4 and its
demonstration, the AT-5 demonstration, Projects E, K and L, the LT sweeps, trace
replay, the proofs for the shared fabric of AT-2 and AT-3, the smoke lab's
demonstration, the proofs of AT-1's timing and link, of Project H's refinement and
golden model, of Little's law in AT-7, of AT-6, of AT-5, of the bounds on overtaking
in AT-2 and AT-3 as the run states them, and of the AT smoke lab.

Left:

1. The relation of Project E to Project H's golden model, which share the rule of a
   full bank.
2. The demonstrations of AT-2 and AT-3.
