------------------------------ MODULE Fabrics ------------------------------
(***************************************************************************)
(* AT-2 and AT-3: a behaviour is a run of one of the two programs.  They   *)
(* are built from the same classes and differ in the arbiter, in when the  *)
(* initiators issue and in how many waiting requests a release admits.     *)
(***************************************************************************)
EXTENDS AT2Arbitration, AT3QosSla

(* The options of AT-2 name a policy, those of AT-3 have weights.          *)
IsAT2 == "policy" \in DOMAIN opt

FabricInit == AT2Init \/ AT3Init

Thread == (IsAT2 /\ AT2Thread) \/ (~IsAT2 /\ AT3Thread)

Next == Thread \/ Scheduler \/ Exit

Spec == FabricInit /\ [][Next]_vars

(* sc_start() runs the kernel loop until sc_stop() or starvation.          *)
FairSpec == Spec /\ WF_vars(Thread \/ Scheduler)

(* Neither arbiter starves a waiting initiator: how often another one is   *)
(* granted in the meantime is bounded by the policy of AT-2 and by the     *)
(* weights of AT-3, for every order in which the threads run.              *)
OvertakingBounded == IF IsAT2 THEN BoundedOvertaking ELSE WeightedShare
=============================================================================
