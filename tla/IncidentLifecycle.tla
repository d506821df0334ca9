------------------------- MODULE IncidentLifecycle -------------------------
(***************************************************************************)
(* What an Incident promises its readers: the states it goes through and   *)
(* how it ended, whoever writes it.  IncidentController implements it.     *)
(***************************************************************************)
VARIABLES state, resolution

vars == <<state, resolution>>

Init == state = "" /\ resolution = "none"

Move(from, to) ==
  /\ state \in from /\ state' = to
  /\ UNCHANGED resolution

End(from, to, by) ==
  /\ state \in from /\ state' = to
  /\ resolution' = by

Analyze == Move({""}, "Analyzing")
Analyzed == Move({"Analyzing"}, "Open")
Fixed == Move({"Open"}, "Verifying")
FixFailed == Move({"Verifying"}, "Open")
Reanalyze == Move({"Open", "Verifying"}, "Analyzing")

(* From Open too: one write may carry both the apply that moves the        *)
(* incident to Verifying and a verify result read in the same reconcile.   *)
Resolved == End({"Open", "Verifying"}, "Resolved", "verify")

Closed == End({"", "Analyzing", "Open", "Verifying", "Resolved"}, "Closed", "user")

Next ==
  \/ Analyze \/ Analyzed \/ Fixed \/ FixFailed \/ Reanalyze
  \/ Resolved \/ Closed

Spec == Init /\ [][Next]_vars
=============================================================================
