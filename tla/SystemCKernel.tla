--------------------------- MODULE SystemCKernel ---------------------------
(***************************************************************************)
(* The SystemC discrete-event scheduler, as far as the AT labs depend on   *)
(* it: SC_THREADs, wait(event), wait(time), notify(SC_ZERO_TIME), sc_stop  *)
(* and SC_REPORT_FATAL.  The scheduler is an external library; this module *)
(* models what the code under src/examples/at uses of it (IEEE 1666):      *)
(*                                                                         *)
(*  - processes are cooperative: the code between two waits is one step;   *)
(*  - the order in which the ready processes of one evaluation phase run   *)
(*    is unspecified, so every order is a behaviour;                       *)
(*  - notify(SC_ZERO_TIME) takes effect at the next delta cycle, and only  *)
(*    wakes the processes that wait for the event at that moment;          *)
(*  - wait(SC_ZERO_TIME) resumes in the next delta cycle;                  *)
(*  - time advances only when no process is ready and nothing is notified; *)
(*  - sc_stop() lets the current evaluation phase finish, and              *)
(*    SC_REPORT_FATAL aborts the program at once.                          *)
(***************************************************************************)
EXTENDS Naturals

VARIABLES
  now,       \* sc_time_stamp(), in ticks
  waits,     \* process -> "ready", "timed", "ended" or the event it waits for
  due,       \* process -> the time at which its last timed wait expires
  notified,  \* the events notified for the next delta cycle
  sim        \* "running", "stopped" (sc_stop) or "aborted" (SC_REPORT_FATAL)

kernel == <<now, waits, due, notified, sim>>

NotEvents == {"ready", "timed", "ended"}

(* The state before sc_start.                                              *)
ElaborateWith(initial) ==
  /\ now = 0
  /\ waits = initial
  /\ due = [p \in DOMAIN initial |-> 0]
  /\ notified = {}
  /\ sim = "running"

(* Every SC_THREAD is ready to run its first segment.                      *)
Elaborate(processes) == ElaborateWith([p \in processes |-> "ready"])

Evaluating == \E p \in DOMAIN waits : waits[p] = "ready"

CanRun(p) == sim # "aborted" /\ waits[p] = "ready"

(* How the segment of process p that is running ends.                      *)
WaitEvent(p, event) ==
  /\ waits' = [waits EXCEPT ![p] = event]
  /\ UNCHANGED due

WaitTime(p, delay) ==
  /\ waits' = [waits EXCEPT ![p] = "timed"]
  /\ due' = [due EXCEPT ![p] = now + delay]

EndThread(p) ==
  /\ waits' = [waits EXCEPT ![p] = "ended"]
  /\ UNCHANGED due

(* The rest of the kernel state in a step of a process.                    *)
Notify(events) ==
  /\ notified' = notified \cup events
  /\ UNCHANGED <<now, sim>>

StopAndNotify(events) ==
  /\ notified' = notified \cup events
  /\ sim' = "stopped"
  /\ UNCHANGED now

Abort ==
  /\ sim' = "aborted"
  /\ UNCHANGED <<now, waits, due, notified>>

(* The processes the next delta cycle makes ready.                         *)
Woken == {p \in DOMAIN waits : \/ waits[p] \in notified
                               \/ waits[p] = "timed" /\ due[p] = now}

DeltaCycle ==
  /\ sim = "running"
  /\ ~Evaluating
  /\ notified # {} \/ Woken # {}
  /\ waits' = [p \in DOMAIN waits |-> IF p \in Woken THEN "ready" ELSE waits[p]]
  /\ notified' = {}
  /\ UNCHANGED <<now, due, sim>>

Sleepers == {p \in DOMAIN waits : waits[p] = "timed"}

AdvanceTime ==
  /\ sim = "running"
  /\ ~Evaluating
  /\ notified = {}
  /\ \E p \in Sleepers :
       /\ now < due[p]
       /\ \A q \in Sleepers : due[p] <= due[q]
       /\ now' = due[p]
  /\ UNCHANGED <<waits, due, notified, sim>>

(* Nothing is ready, notified or timed any more: sc_start() returns without *)
(* an error although the threads are still waiting.                        *)
Starved == ~Evaluating /\ notified = {} /\ Sleepers = {}

(* sc_start() has returned, or the program aborted.                        *)
Ended == sim = "aborted" \/ (sim = "stopped" /\ ~Evaluating) \/ Starved

KernelTypeOK(processes, events) ==
  /\ now \in Nat
  /\ waits \in [processes -> events \cup NotEvents]
  /\ due \in [processes -> Nat]
  /\ notified \in SUBSET events
  /\ sim \in {"running", "stopped", "aborted"}
=============================================================================
