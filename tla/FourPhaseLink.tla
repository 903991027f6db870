--------------------------- MODULE FourPhaseLink ---------------------------
(***************************************************************************)
(* What the AT labs promise of the link between a requester and a memory   *)
(* target: the four phases of every transaction in order, one request at a *)
(* time, no more accepted requests than the target has slots, responses in *)
(* the order of acceptance.  No time, no threads, no events: this is the   *)
(* specification that the simulated modules implement.                     *)
(***************************************************************************)
EXTENDS Naturals, Sequences

VARIABLES
  capacity,  \* the slots of the target, chosen once
  phase,     \* transaction -> "idle" or the last of its four phases
  accepted   \* the transactions after END_REQ and before BEGIN_RESP, in order

vars == <<capacity, phase, accepted>>

Transactions == DOMAIN phase

Init ==
  /\ capacity \in Nat \ {0}
  /\ \A t \in Transactions : phase[t] = "idle"
  /\ accepted = <<>>

BeginReq(t) ==
  /\ phase[t] = "idle"
  /\ \A u \in Transactions : phase[u] # "begin_req"
  /\ phase' = [phase EXCEPT ![t] = "begin_req"]
  /\ UNCHANGED <<capacity, accepted>>

EndReq(t) ==
  /\ phase[t] = "begin_req"
  /\ Len(accepted) < capacity
  /\ phase' = [phase EXCEPT ![t] = "end_req"]
  /\ accepted' = Append(accepted, t)
  /\ UNCHANGED capacity

BeginResp(t) ==
  /\ accepted # <<>>
  /\ t = Head(accepted)
  /\ phase' = [phase EXCEPT ![t] = "begin_resp"]
  /\ accepted' = Tail(accepted)
  /\ UNCHANGED capacity

EndResp(t) ==
  /\ phase[t] = "begin_resp"
  /\ phase' = [phase EXCEPT ![t] = "end_resp"]
  /\ UNCHANGED <<capacity, accepted>>

Next == \E t \in Transactions : BeginReq(t) \/ EndReq(t) \/ BeginResp(t) \/ EndResp(t)

Spec == Init /\ [][Next]_vars
=============================================================================
