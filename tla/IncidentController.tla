------------------------- MODULE IncidentController -------------------------
(***************************************************************************)
(* One Incident, the controller that reconciles it (incident.go), its      *)
(* check pods (checkpod.go), and everyone else who writes it: the writer,  *)
(* humans and IncidentApply runs.                                          *)
(*                                                                         *)
(* A reconcile reads the Incident from the informer's cache, computes a    *)
(* plan in memory (Observe) and carries it out call by call (Update or     *)
(* Delete).  Every call is a step, anyone may act between two steps, any   *)
(* call may fail, and the process may restart.  resourceVersion is a       *)
(* Boolean per copy: whether the copy is the latest version.               *)
(***************************************************************************)
EXTENDS CheckPods, FiniteSets

CONSTANTS
  ExitCodes,   \* the exit codes a check container ends with
  RunExits,    \* the exits of an IncidentApply run
  Lags,        \* bound: what takes time, of "cache" (the informer sees a write later),
               \* "list" (and a new pod) and "pod" (a deleted pod stays until the kubelet
               \* is done with it)
  MaxTime,     \* bound: the clock stops here
  MaxFaults,   \* bound: failed calls and restarts
  MaxEdits,    \* bound: human edits and IncidentApply runs
  Humans       \* bound: which of "apply", "close", "reanalysis", "delete", "run" occur

ASSUME BoundsAssumption ==
  /\ ExitCodes \subseteq {0, 1, 2, OutOfRange}
  /\ RunExits \subseteq Exits
  /\ Lags \subseteq {"cache", "list", "pod"}
  /\ MaxTime \in Nat
  /\ MaxFaults \in Nat
  /\ MaxEdits \in Nat
  /\ Humans \subseteq {"apply", "close", "reanalysis", "delete", "run"}

VARIABLES
  exists,       \* the Incident object is in the API
  spec, status, \* its spec and status
  cache,        \* the informer's copy
  cacheCurrent, \* it is the latest version
  pc,           \* where the reconcile is
  copy,         \* the Incident as the reconcile read it, and as last written
  copyCurrent,  \* it is the latest version
  plan,         \* the reconcile's plan
  lastRun,      \* lastRuns.at of the Incident
  pods, cms,    \* its check pods and their ConfigMaps
  clock, faults, edits

object == <<exists, spec, status, cache, cacheCurrent>>
worker == <<pc, copy, copyCurrent, plan, lastRun>>
cluster == <<pods, cms>>
bounds == <<clock, faults, edits>>
vars == <<object, worker, cluster, bounds>>

-----------------------------------------------------------------------------
(* Pods and ConfigMaps are named after the script and the moment the wait  *)
(* for the run began (checkName).                                          *)
Names == Checked \X Time

Pods == [ name     : Names,
          created  : Time,
          phase    : PodPhases,
          start    : Time,                                \* status.startTime
          finished : Time,                                \* the container's finishedAt
          code     : Codes,                               \* its exit code, if it ended
          deadline : BOOLEAN,                             \* reason is DeadlineExceeded
          body     : Fixes \union {NoFix},                \* whose script it runs
          leaving  : BOOLEAN ]                            \* deletionTimestamp is set

ConfigMaps == [name : Names, body : Fixes \union {NoFix}, owned : BOOLEAN]

ScriptOf(p) == p.name[1]

CheckName(s, from) == <<s, from>>

NewPod(name, now) ==
  [ name |-> name, created |-> now, phase |-> "Pending", start |-> None, finished |-> None,
    code |-> NoExit, deadline |-> FALSE, body |-> NoFix, leaving |-> FALSE ]

ResultOf(p) == [script |-> ScriptOf(p), exit |-> ExitOf(p), at |-> EndedAt(p, CheckTimeout)]

-----------------------------------------------------------------------------
Copies == [spec : Specs, status : Statuses]

NewSpec == [applied |-> FALSE, closed |-> FALSE, reanalysis |-> FALSE, deleted |-> FALSE]
NewCopy == [spec |-> NewSpec, status |-> NewStatus]

Plans == [ status  : Statuses,            \* the status computed in memory
           now     : Time,
           todo    : SUBSET Pods,         \* listed pods Observe has still to read
           live    : BOOLEAN,
           stale   : SUBSET Names,
           cms     : SUBSET Names,        \* ConfigMaps Delete removes
           dirty   : BOOLEAN,
           consume : BOOLEAN,
           due     : BOOLEAN,
           from    : Time ]

NoPlan == [ status |-> NewStatus, now |-> None, todo |-> {}, live |-> FALSE, stale |-> {},
            cms |-> {}, dirty |-> FALSE, consume |-> FALSE, due |-> FALSE, from |-> None ]

Init ==
  /\ exists = TRUE /\ spec = NewSpec /\ status = NewStatus
  /\ cache = NewCopy /\ cacheCurrent = TRUE
  /\ pc = "idle" /\ copy = NewCopy /\ copyCurrent = TRUE /\ plan = NoPlan
  /\ lastRun = None
  /\ pods = {} /\ cms = {}
  /\ clock = 1 /\ faults = MaxFaults /\ edits = MaxEdits

(* A write of the object makes every other copy of it old. *)
Write(sp, st) ==
  /\ spec' = sp
  /\ status' = st
  /\ cacheCurrent' = ("cache" \notin Lags \/ (cacheCurrent /\ sp = spec /\ st = status))
  /\ cache' = IF "cache" \in Lags THEN cache ELSE [spec |-> sp, status |-> st]
  /\ UNCHANGED exists

WriteByOther(sp, st) ==
  /\ exists
  /\ Write(sp, st)
  /\ copyCurrent' = (pc = "idle" \/ (copyCurrent /\ sp = spec /\ st = status))
  /\ UNCHANGED <<pc, copy, plan, lastRun, cluster>>

(* The reconcile ends: its plan is dropped. *)
EndReconcile ==
  /\ pc' = "idle" /\ copy' = NewCopy /\ copyCurrent' = TRUE /\ plan' = NoPlan

(* The reconcile goes on with what is left of plan p. *)
Continue(p, c) ==
  IF p.dirty \/ p.consume \/ p.stale # {} \/ p.due
  THEN pc' = "update" /\ plan' = p /\ copy' = c /\ UNCHANGED copyCurrent
  ELSE EndReconcile

-----------------------------------------------------------------------------
(* The names of pods, and of their ConfigMaps, created so recently that    *)
(* the informer's lists may leave them out.                                *)
Recent == IF "list" \in Lags THEN {p.name : p \in {q \in pods : q.created = clock}} ELSE {}

(* Observe reads the cached Incident, lists its pods and applies spec. *)
Observe ==
  /\ pc = "idle" /\ exists /\ ~cache.spec.deleted
  /\ pc' = "observe" /\ copy' = cache /\ copyCurrent' = cacheCurrent
  /\ \E unseen \in SUBSET Recent :
       plan' = [NoPlan EXCEPT !.status = ApplySpec(cache.spec, cache.status, clock),
                              !.consume = AppliesNow(cache.spec, cache.status),
                              !.now = clock,
                              !.todo = {p \in pods : ~p.leaving /\ p.name \notin unseen}]
  /\ UNCHANGED <<object, lastRun, cluster, bounds>>

(* Mutant: a running pod of a script no longer current is left alone. *)
ReadPodKeepsRunning(p) ==
  LET r == ResultOf(p)
      current == r.script = CurrentScript(plan.status)
      read == [plan EXCEPT !.todo = @ \ {p}]
      recorded == Finished(p, CheckTimeout, plan.now) /\ current
  IN
  /\ pc = "observe" /\ p \in plan.todo
  /\ plan' = CASE ~Finished(p, CheckTimeout, plan.now) /\ current -> [read EXCEPT !.live = TRUE]
               [] ~Finished(p, CheckTimeout, plan.now) /\ ~current -> read
               [] OTHER -> [read EXCEPT !.stale = @ \union {p.name},
                                        !.status = IF recorded THEN Record(@, r) ELSE @]
  /\ lastRun' = IF recorded /\ r.at > lastRun THEN r.at ELSE lastRun
  /\ UNCHANGED <<object, pc, copy, copyCurrent, cluster, bounds>>

(* Mutant: a finished pod of a script no longer current is dropped, and    *)
(* never deleted.                                                          *)
ReadPodDrops(p) ==
  LET r == ResultOf(p)
      current == r.script = CurrentScript(plan.status)
      read == [plan EXCEPT !.todo = @ \ {p}]
      recorded == Finished(p, CheckTimeout, plan.now) /\ current
  IN
  /\ pc = "observe" /\ p \in plan.todo
  /\ plan' = CASE ~Finished(p, CheckTimeout, plan.now) /\ current -> [read EXCEPT !.live = TRUE]
               [] Finished(p, CheckTimeout, plan.now) /\ ~current -> read
               [] OTHER -> [read EXCEPT !.stale = @ \union {p.name},
                                        !.status = IF recorded THEN Record(@, r) ELSE @]
  /\ lastRun' = IF recorded /\ r.at > lastRun THEN r.at ELSE lastRun
  /\ UNCHANGED <<object, pc, copy, copyCurrent, cluster, bounds>>

(* One turn of Observe's loop over the pods, oldest first. *)
ReadPod(p) ==
  LET r == ResultOf(p)
      current == r.script = CurrentScript(plan.status)
      read == [plan EXCEPT !.todo = @ \ {p}]
      keep == ~Finished(p, CheckTimeout, plan.now) /\ current /\ ~plan.live
      recorded == Finished(p, CheckTimeout, plan.now) /\ current
  IN
  /\ pc = "observe" /\ p \in plan.todo
  /\ \A q \in plan.todo : p.created <= q.created
  /\ plan' = IF keep THEN [read EXCEPT !.live = TRUE]
             ELSE [read EXCEPT !.stale = @ \union {p.name},
                               !.status = IF recorded THEN Record(@, r) ELSE @]
  /\ lastRun' = IF recorded /\ r.at > lastRun THEN r.at ELSE lastRun
  /\ UNCHANGED <<object, pc, copy, copyCurrent, cluster, bounds>>

(* Mutant: with no last run known, nothing is due. *)
DecideFirstNeverDue ==
  /\ pc = "observe" /\ plan.todo = {}
  /\ Continue([plan EXCEPT !.dirty = plan.consume \/ plan.status # copy.status,
                           !.due = ~plan.live /\ lastRun # None /\ CheckDue(plan.status, lastRun, plan.now),
                           !.from = CheckFrom(plan.status, lastRun)],
              copy)
  /\ UNCHANGED <<object, lastRun, cluster, bounds>>

(* The end of Observe: what is there to do. *)
Decide ==
  /\ pc = "observe" /\ plan.todo = {}
  /\ Continue([plan EXCEPT !.dirty = plan.consume \/ plan.status # copy.status,
                           !.due = ~plan.live /\ CheckDue(plan.status, lastRun, plan.now),
                           !.from = CheckFrom(plan.status, lastRun)],
              copy)
  /\ UNCHANGED <<object, lastRun, cluster, bounds>>

-----------------------------------------------------------------------------
(* Mutant: the status is written whatever happened to it since. *)
UpdateStatusBlindly ==
  /\ pc = "update" /\ plan.dirty
  /\ IF exists /\ CRDAccepts(status, plan.status)
     THEN /\ Write(spec, plan.status)
          /\ Continue([plan EXCEPT !.dirty = FALSE], [copy EXCEPT !.status = plan.status])
     ELSE EndReconcile /\ UNCHANGED object
  /\ UNCHANGED <<lastRun, cluster, bounds>>

(* Mutant: a conflict is retried with the same copy. *)
UpdateStatusRetries ==
  /\ pc = "update" /\ plan.dirty
  /\ copyCurrent /\ exists /\ CRDAccepts(status, plan.status)
  /\ Write(spec, plan.status)
  /\ Continue([plan EXCEPT !.dirty = FALSE], [copy EXCEPT !.status = plan.status])
  /\ UNCHANGED <<lastRun, cluster, bounds>>

(* Update, call by call.  A write of an old copy is a conflict, and ends   *)
(* the reconcile.                                                          *)
UpdateStatus ==
  /\ pc = "update" /\ plan.dirty
  /\ IF copyCurrent /\ exists /\ CRDAccepts(status, plan.status)
     THEN /\ Write(spec, plan.status)
          /\ Continue([plan EXCEPT !.dirty = FALSE], [copy EXCEPT !.status = plan.status])
     ELSE EndReconcile /\ UNCHANGED object
  /\ UNCHANGED <<lastRun, cluster, bounds>>

(* Mutant: spec.applied is reset before the status is written. *)
ConsumeAppliedFirst ==
  LET sp == [copy.spec EXCEPT !.applied = FALSE] IN
  /\ pc = "update" /\ plan.consume
  /\ IF copyCurrent /\ exists
     THEN /\ Write(sp, status)
          /\ Continue([plan EXCEPT !.consume = FALSE], [copy EXCEPT !.spec = sp])
     ELSE EndReconcile /\ UNCHANGED object
  /\ UNCHANGED <<lastRun, cluster, bounds>>

ConsumeApplied ==
  LET sp == [copy.spec EXCEPT !.applied = FALSE] IN
  /\ pc = "update" /\ ~plan.dirty /\ plan.consume
  /\ IF copyCurrent /\ exists
     THEN /\ Write(sp, status)
          /\ Continue([plan EXCEPT !.consume = FALSE], [copy EXCEPT !.spec = sp])
     ELSE EndReconcile /\ UNCHANGED object
  /\ UNCHANGED <<lastRun, cluster, bounds>>

(* A pod is deleted by name, in the background: it is leaving until the    *)
(* kubelet is done with it.  Nothing else is read of a leaving pod.        *)
MarkLeaving(n) ==
  {IF p.name = n THEN [NewPod(n, None) EXCEPT !.leaving = TRUE] ELSE p : p \in pods}

DeletePodNamed(n) ==
  IF "pod" \in Lags
  THEN pods' = MarkLeaving(n) /\ UNCHANGED cms
  ELSE /\ pods' = {p \in pods : p.name # n}
       /\ cms' = {c \in cms : ~(c.name = n /\ c.owned)}

(* Mutant: pods are deleted before the status is written. *)
DeleteStaleFirst(n) ==
  /\ pc = "update" /\ n \in plan.stale
  /\ DeletePodNamed(n)
  /\ Continue([plan EXCEPT !.stale = @ \ {n}], copy)
  /\ UNCHANGED <<object, lastRun, bounds>>

DeleteStale(n) ==
  /\ pc = "update" /\ ~plan.dirty /\ ~plan.consume /\ n \in plan.stale
  /\ DeletePodNamed(n)
  /\ Continue([plan EXCEPT !.stale = @ \ {n}], copy)
  /\ UNCHANGED <<object, lastRun, bounds>>

(* startCheck creates the pod, or finds the one of that name; then the     *)
(* ConfigMap owned by it, unless there is one of that name.                *)
PlannedName == CheckName(CurrentScript(plan.status), plan.from)

StartCheck ==
  /\ pc = "update" /\ ~plan.dirty /\ ~plan.consume /\ plan.stale = {} /\ plan.due
  /\ pods' = IF \E p \in pods : p.name = PlannedName THEN pods
             ELSE pods \union {NewPod(PlannedName, clock)}
  /\ pc' = "configmap"
  /\ UNCHANGED <<object, copy, copyCurrent, plan, lastRun, cms, bounds>>

CreateConfigMap ==
  /\ pc = "configmap"
  /\ cms' = IF \E c \in cms : c.name = PlannedName THEN cms
            ELSE cms \union {[ name  |-> PlannedName,
                               body  |-> plan.status.howToFix,
                               owned |-> \E p \in pods : p.name = PlannedName ]}
  /\ EndReconcile
  /\ UNCHANGED <<object, lastRun, pods, bounds>>

-----------------------------------------------------------------------------
(* Mutant: only the pods keep the Incident. *)
ObserveDeletedPodsOnly ==
  /\ pc = "idle" /\ exists /\ cache.spec.deleted
  /\ lastRun' = None
  /\ copy' = cache /\ copyCurrent' = cacheCurrent
  /\ plan' = [NoPlan EXCEPT !.stale = {p.name : p \in pods}, !.cms = {c.name : c \in cms}]
  /\ pc' = IF pods = {} THEN "finalize" ELSE "delete"
  /\ UNCHANGED <<object, cluster, bounds>>

(* Mutant: only the current script's pods are deleted. *)
ObserveDeletedCurrentOnly ==
  /\ pc = "idle" /\ exists /\ cache.spec.deleted
  /\ lastRun' = None
  /\ copy' = cache /\ copyCurrent' = cacheCurrent
  /\ plan' = [NoPlan EXCEPT !.stale = {p.name : p \in {q \in pods : ScriptOf(q) = CurrentScript(cache.status)}},
                            !.cms = {c.name : c \in cms}]
  /\ pc' = IF pods = {} /\ cms = {} THEN "finalize" ELSE "delete"
  /\ UNCHANGED <<object, cluster, bounds>>

(* A deleted Incident: Observe forgets its last run, Delete removes its    *)
(* pods, then its ConfigMaps, and once there are none the runtime removes  *)
(* its finalizer.                                                          *)
ObserveDeleted ==
  /\ pc = "idle" /\ exists /\ cache.spec.deleted
  /\ lastRun' = None
  /\ copy' = cache /\ copyCurrent' = cacheCurrent
  /\ \E unseen \in SUBSET Recent :
       plan' = [NoPlan EXCEPT !.stale = {p.name : p \in pods} \ unseen,
                              !.cms = {c.name : c \in cms} \ unseen]
  /\ pc' = IF plan'.stale = {} /\ plan'.cms = {} THEN "finalize" ELSE "delete"
  /\ UNCHANGED <<object, cluster, bounds>>

DeletePod(n) ==
  /\ pc = "delete" /\ n \in plan.stale
  /\ DeletePodNamed(n)
  /\ plan' = [plan EXCEPT !.stale = @ \ {n}]
  /\ UNCHANGED <<object, pc, copy, copyCurrent, lastRun, bounds>>

DeleteConfigMap(n) ==
  /\ pc = "delete" /\ plan.stale = {} /\ n \in plan.cms
  /\ cms' = {c \in cms : c.name # n}
  /\ plan' = [plan EXCEPT !.cms = @ \ {n}]
  /\ UNCHANGED <<object, pc, copy, copyCurrent, lastRun, pods, bounds>>

EndDelete ==
  /\ pc = "delete" /\ plan.stale = {} /\ plan.cms = {}
  /\ EndReconcile
  /\ UNCHANGED <<object, lastRun, cluster, bounds>>

RemoveFinalizer ==
  /\ pc = "finalize"
  /\ exists' = ~copyCurrent
  /\ EndReconcile
  /\ UNCHANGED <<spec, status, cache, cacheCurrent, lastRun, cluster, bounds>>

-----------------------------------------------------------------------------
(* Faults: a call fails, or the process restarts and lastRuns is lost. *)
CallFails ==
  /\ pc # "idle" /\ faults > 0
  /\ faults' = faults - 1
  /\ EndReconcile
  /\ UNCHANGED <<object, lastRun, cluster, clock, edits>>

Restart ==
  /\ faults > 0
  /\ faults' = faults - 1
  /\ lastRun' = None
  /\ EndReconcile
  /\ UNCHANGED <<object, cluster, clock, edits>>

CacheSync ==
  /\ ~cacheCurrent
  /\ cache' = [spec |-> spec, status |-> status] /\ cacheCurrent' = TRUE
  /\ UNCHANGED <<exists, spec, status, worker, cluster, bounds>>

-----------------------------------------------------------------------------
(* The cluster.  A pod starts once its ConfigMap is there. *)
Replace(p, q) == pods' = (pods \ {p}) \union {q}

ByKubelet == UNCHANGED <<object, worker, cms, bounds>>

PodStarts(p, c) ==
  /\ MayStart(p) /\ c.name = p.name
  /\ Replace(p, StartedPod(p, c.body, clock))
  /\ ByKubelet

ContainerExits(p, code) ==
  /\ ~p.leaving /\ MayExit(p)
  /\ Replace(p, ExitedPod(p, code, clock))
  /\ ByKubelet

DeadlineStops(p) ==
  /\ ~p.leaving /\ MayStop(p, CheckTimeout, clock)
  /\ Replace(p, StoppedPod(p, clock))
  /\ ByKubelet

PodFails(p, start) ==
  /\ ~p.leaving /\ MayFail(p, start)
  /\ Replace(p, FailedPod(p, start))
  /\ ByKubelet

PodGone(p) ==
  /\ p.leaving
  /\ pods' = pods \ {p}
  /\ cms' = {IF c.name = p.name THEN [c EXCEPT !.owned = FALSE] ELSE c : c \in cms}
  /\ UNCHANGED <<object, worker, bounds>>

(* The garbage collector deletes a ConfigMap whose owner is gone. *)
Collect(c) ==
  /\ ~c.owned
  /\ cms' = cms \ {c}
  /\ UNCHANGED <<object, worker, pods, bounds>>

Tick ==
  /\ clock < MaxTime
  /\ clock' = clock + 1
  /\ UNCHANGED <<object, worker, cluster, faults, edits>>

-----------------------------------------------------------------------------
(* The writer.  Its writes to an ended incident are rejected by the CRD. *)
ByWriter(sp, st) == WriteByOther(sp, st) /\ UNCHANGED bounds

WriterStarts ==
  /\ status.state = ""
  /\ ByWriter(spec, [status EXCEPT !.state = "Analyzing"])

WriterFinishes(fix) ==
  /\ status.state = "Analyzing"
  /\ ByWriter(spec, [status EXCEPT !.state = "Open", !.howToFix = fix])

WriterReanalyses ==
  /\ spec.reanalysis
  /\ ByWriter([spec EXCEPT !.reanalysis = FALSE],
              IF status.state \in {"Open", "Verifying"}
              THEN [NewStatus EXCEPT !.state = "Analyzing"]
              ELSE status)

(* Humans, and the IncidentApply controller recording a finished run. *)
Edit(kind, sp, st) ==
  /\ kind \in Humans /\ edits > 0
  /\ edits' = edits - 1
  /\ WriteByOther(sp, st)
  /\ UNCHANGED <<clock, faults>>

HumanApplies == ~spec.applied /\ Edit("apply", [spec EXCEPT !.applied = TRUE], status)
HumanCloses == ~spec.closed /\ Edit("close", [spec EXCEPT !.closed = TRUE], status)
HumanAsksReanalysis == ~spec.reanalysis /\ Edit("reanalysis", [spec EXCEPT !.reanalysis = TRUE], status)
HumanDeletes == ~spec.deleted /\ Edit("delete", [spec EXCEPT !.deleted = TRUE], status)

ApplyRecorded(exit, at) ==
  /\ status.state \in {"Open", "Verifying"}
  /\ Edit("run", spec, RecordApply(status, exit, at))

-----------------------------------------------------------------------------
Reconcile ==
  \/ Observe
  \/ \E p \in plan.todo : ReadPod(p)
  \/ Decide
  \/ UpdateStatus
  \/ ConsumeApplied
  \/ \E n \in plan.stale : DeleteStale(n) \/ DeletePod(n)
  \/ StartCheck
  \/ CreateConfigMap
  \/ ObserveDeleted
  \/ \E n \in plan.cms : DeleteConfigMap(n)
  \/ EndDelete
  \/ RemoveFinalizer

Kubelet ==
  \E p \in pods :
    \/ \E c \in cms : PodStarts(p, c)
    \/ \E code \in ExitCodes : ContainerExits(p, code)
    \/ DeadlineStops(p)
    \/ \E start \in {None} \union p.created..clock : PodFails(p, start)
    \/ PodGone(p)

Environment ==
  \/ \E c \in cms : Collect(c)
  \/ CacheSync
  \/ Tick
  \/ WriterStarts
  \/ \E fix \in Fixes \union {NoFix} : WriterFinishes(fix)
  \/ WriterReanalyses

People ==
  \/ HumanApplies \/ HumanCloses \/ HumanAsksReanalysis \/ HumanDeletes
  \/ \E exit \in RunExits, at \in 1..clock : ApplyRecorded(exit, at)

(* Observe computes on what it has read, so what others do between its     *)
(* turns commutes with them: they wait until it has decided.               *)
Next ==
  \/ Reconcile
  \/ pc # "observe" /\ (Kubelet \/ Environment \/ People \/ CallFails \/ Restart)

Spec == Init /\ [][Next]_vars
=============================================================================
