------------------------------- MODULE LtBus -------------------------------
(***************************************************************************)
(* The loosely-timed lab in SystemC, examples/lt/systemc: two traffic      *)
(* generators with their LT initiators (101 and 102), SimpleBusLT and two  *)
(* memory targets (201 and 202).  What it shows is the latency trace of a  *)
(* workload, one row per b_transport of the bus.                           *)
(*                                                                         *)
(* The bus keeps, for each target, until when it is busy and the bank of   *)
(* the last access.  An initiator waits for the delay its b_transport      *)
(* returned before it issues the next transaction, so the next call is     *)
(* that of the initiator whose clock is behind; at time 0, the only time   *)
(* both are ready, 101 was created first.  Times are in ns.                *)
(*                                                                         *)
(* Renode's own accesses, which the scripts filter out, are taken to come  *)
(* after the traffic.                                                      *)
(***************************************************************************)
EXTENDS Integers, Sequences, FiniteSets, SequencesExt

(* The settings of a workload, those of a run without any, and a file or   *)
(* an environment that sets none.                                          *)
Workload(burst_count, address_stride, target_pattern, initiators) ==
  [burst_count |-> burst_count, address_stride |-> address_stride,
   target_pattern |-> target_pattern, initiators |-> initiators]

DefaultWorkload == Workload(64, 4, "both", {101, 102})
NoSettings      == Workload(0, 0, "none", {})

(* workloadSetting: the environment, if the process got it, comes before   *)
(* the file.  Of what is set only these are read: a setting by another     *)
(* name has no effect.                                                     *)
getWorkloadSettings(environment, file) ==
  LET settings == IF environment # NoSettings THEN environment
                  ELSE IF file # NoSettings THEN file ELSE DefaultWorkload
  IN  Workload(settings.burst_count, settings.address_stride, settings.target_pattern,
               settings.initiators)

-----------------------------------------------------------------------------
(***************************************************************************)
(* traffic_generator, which writes and then reads.                         *)
(***************************************************************************)
write_count(workload) == (workload.burst_count + 1) \div 2
read_count(workload)  == workload.burst_count \div 2

target_phase_count(count, port) == IF port = 0 THEN (count + 1) \div 2 ELSE count \div 2

Accesses(command, port, count, stride) ==
  [i \in 1..count |-> [command |-> command, port |-> port, address |-> (i - 1) * stride]]

(* Target 201 is written and read, and then target 202.                    *)
run_current_default_workload(workload) ==
  LET phase(command, port, count) ==
        Accesses(command, port, target_phase_count(count, port), workload.address_stride)
  IN  phase("WRITE", 0, write_count(workload)) \o phase("READ", 0, read_count(workload))
        \o phase("WRITE", 1, write_count(workload)) \o phase("READ", 1, read_count(workload))

run_pattern_workload(workload) ==
  LET port == IF workload.target_pattern = "target201" THEN 0 ELSE 1
  IN  Accesses("WRITE", port, write_count(workload), workload.address_stride)
        \o Accesses("READ", port, read_count(workload), workload.address_stride)

Traffic(workload) == IF workload.target_pattern = "both"
                       THEN run_current_default_workload(workload)
                       ELSE run_pattern_workload(workload)

-----------------------------------------------------------------------------
(***************************************************************************)
(* The targets and the bus.                                                *)
(***************************************************************************)
ServiceDelay == << [READ |-> 120, WRITE |-> 80], [READ |-> 60, WRITE |-> 40] >>
BankConflictPenalty == 20

(* Mutant: banks are interleaved by lines instead of words.                *)
bankIdForAddress_Lines(address) == (address \div 16) % 4

bankIdForAddress(address) == (address \div 4) % 4

(* One b_transport, and its initiator's wait.                              *)
initiatorBTransport(bus, initiator, access) ==
  LET port     == access.port + 1
      start    == bus.clock[initiator]
      bank     == bankIdForAddress(access.address)
      conflict == bus.last_bank[port] = bank
      grant    == IF bus.busy_until[port] > start THEN bus.busy_until[port] ELSE start
      end      == grant + ServiceDelay[port][access.command]
                    + IF conflict THEN BankConflictPenalty ELSE 0
  IN  [row |-> [initiator_id |-> initiator, target_id |-> 201 + access.port,
                command |-> access.command, address |-> access.address, start |-> start,
                end |-> end, queue |-> grant - start,
                service |-> ServiceDelay[port][access.command], bank_conflict |-> conflict],
       bus |-> [clock |-> [bus.clock EXCEPT ![initiator] = end],
                next |-> [bus.next EXCEPT ![initiator] = @ + 1],
                busy_until |-> [bus.busy_until EXCEPT ![port] = end],
                last_bank |-> [bus.last_bank EXCEPT ![port] = bank]]]

IdleBus ==
  [clock |-> [i \in {101, 102} |-> 0], next |-> [i \in {101, 102} |-> 1],
   busy_until |-> <<0, 0>>, last_bank |-> <<-1, -1>>]

(* The initiator that calls next: of those with a transaction left, the    *)
(* one whose clock is behind.                                              *)
Caller(bus, workload) ==
  LET ready == {i \in workload.initiators : bus.next[i] <= workload.burst_count}
  IN  CHOOSE i \in ready : \A j \in ready \ {i} :
        bus.clock[i] < bus.clock[j] \/ (bus.clock[i] = bus.clock[j] /\ i < j)

(* The rows one run of the lab writes for a workload.                      *)
LatencyTrace(workload) ==
  LET traffic == Traffic(workload)
      calls   == [k \in 1..(Len(traffic) * Cardinality(workload.initiators)) |-> k]
      call(bus) == LET initiator == Caller(bus, workload)
                   IN  initiatorBTransport(bus, initiator, traffic[bus.next[initiator]])
      transport(done, k) == Append(done, call(IF done = <<>> THEN IdleBus
                                              ELSE done[Len(done)].bus))
      calls_done == FoldLeft(transport, <<>>, calls)
  IN  [k \in DOMAIN calls_done |-> calls_done[k].row]
=============================================================================
