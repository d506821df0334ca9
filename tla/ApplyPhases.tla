---------------------------- MODULE ApplyPhases ----------------------------
(***************************************************************************)
(* What an IncidentApply promises whoever reads it: its script runs at     *)
(* most once, a rejected one never does, and a terminal phase is final.    *)
(* IncidentApply implements it while the informer does not lag.            *)
(***************************************************************************)
EXTENDS Naturals

CONSTANT Requests

VARIABLES
  phase,  \* each request's phase
  runs    \* how often its script was started

vars == <<phase, runs>>

NoPhase == ""

Init ==
  /\ phase = [r \in Requests |-> NoPhase]
  /\ runs = [r \in Requests |-> 0]

Move(r, from, to) ==
  /\ phase[r] \in from
  /\ phase' = [phase EXCEPT ![r] = to]
  /\ UNCHANGED runs

(* A pod given up as overdue may still start. *)
Start(r) ==
  /\ phase[r] \in {NoPhase, "Running", "Failed"} /\ runs[r] = 0
  /\ runs' = [runs EXCEPT ![r] = 1]
  /\ UNCHANGED phase

Accept(r) == Move(r, {NoPhase}, "Running")

Reject(r) == runs[r] = 0 /\ Move(r, {NoPhase}, "Rejected")

Succeed(r) == runs[r] = 1 /\ Move(r, {NoPhase, "Running"}, "Succeeded")

Fail(r) == Move(r, {NoPhase, "Running"}, "Failed")

Next ==
  \E r \in Requests : Start(r) \/ Accept(r) \/ Reject(r) \/ Succeed(r) \/ Fail(r)

Spec == Init /\ [][Next]_vars
=============================================================================
