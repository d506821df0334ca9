----------------------------- MODULE CheckPods -----------------------------
(***************************************************************************)
(* What internal/controllers/incident/checkpod.go reads from a pod that    *)
(* runs a script, and what the kubelet does to one.  Check pods and apply  *)
(* pods differ in their names and in how long they may run.                *)
(***************************************************************************)
EXTENDS IncidentMachine

OutOfRange == 256   \* a container exit code outside 0..255

Codes == {0, 1, 2, OutOfRange, NoExit}

PodPhases == {"Pending", "Running", "Ended"}

(* The deadline of a pod that has timeout to run. *)
Overdue(p, timeout) == p.created + timeout + PendingGrace

(* resultOf: whether a pod gives a result at now, its exit, and when the   *)
(* run ended.                                                              *)
Finished(p, timeout, now) == p.phase = "Ended" \/ now >= Overdue(p, timeout)

(* Mutant: any exit code counts, also one outside 0..255. *)
ExitOfAnyCode(p) ==
  IF p.phase = "Ended" /\ ~p.deadline THEN p.code ELSE NoExit

ExitOf(p) ==
  IF p.phase = "Ended" /\ ~p.deadline /\ p.code \in 0..255 THEN p.code ELSE NoExit

EndedAt(p, timeout) ==
  CASE p.phase = "Ended" /\ p.finished # None -> p.finished
    [] p.phase = "Ended" /\ p.finished = None /\ p.start # None -> p.start + timeout
    [] OTHER -> Overdue(p, timeout)

-----------------------------------------------------------------------------
(* The kubelet.  A pod starts once what it mounts is there; body is whose  *)
(* script it runs.  It ends with its container's exit, at its deadline     *)
(* (its script may trap the signal and exit 0), or without the container:  *)
(* never scheduled, evicted, or stopped while it waited.  A pod that is    *)
(* leaving may still end, but no longer starts.                            *)
MayStart(p) == p.phase = "Pending" /\ ~p.leaving
MayExit(p) == p.phase = "Running"
MayStop(p, timeout, now) == MayExit(p) /\ now >= p.start + timeout
MayFail(p, start) ==
  \/ p.phase = "Pending" /\ ~p.leaving
  \/ p.phase = "Running" /\ start = p.start

StartedPod(p, body, now) == [p EXCEPT !.phase = "Running", !.start = now, !.body = body]
ExitedPod(p, code, now) == [p EXCEPT !.phase = "Ended", !.finished = now, !.code = code]
StoppedPod(p, now) == [ExitedPod(p, 0, now) EXCEPT !.deadline = TRUE]
FailedPod(p, start) == [p EXCEPT !.phase = "Ended", !.start = start]
=============================================================================
