------------------------- MODULE IncidentProperties -------------------------
(***************************************************************************)
(* What must be true of an Incident and its controller.                    *)
(***************************************************************************)
EXTENDS IncidentController

ObjectTypes ==
  /\ exists \in BOOLEAN
  /\ spec \in Specs /\ status \in Statuses
  /\ cache \in Copies /\ cacheCurrent \in BOOLEAN

ReconcileTypes ==
  /\ pc \in {"idle", "observe", "update", "configmap", "delete", "finalize"}
  /\ copy \in Copies /\ copyCurrent \in BOOLEAN
  /\ plan \in Plans

ClusterTypes == pods \subseteq Pods /\ cms \subseteq ConfigMaps

BoundTypes == clock \in Time /\ faults \in Nat /\ edits \in Nat

(* Every variable has its type: no result, window or copy of the status    *)
(* ever holds a value the Go type and the CRD do not allow.                *)
TypeOK == ObjectTypes /\ ReconcileTypes /\ lastRun \in Time /\ ClusterTypes /\ BoundTypes

(* What makes TypeOK inductive: a planned check is of some script. *)
PlannedHasScript ==
  (pc = "update" /\ plan.due) \/ pc = "configmap" => CurrentScript(plan.status) # ""

Staying == {p \in pods : ~p.leaving}

(* At most one check pod of the incident is not being deleted: a run that  *)
(* is no longer wanted is deleted before the next one starts, whatever     *)
(* failed, was restarted or was read from an old copy in between.          *)
OneCheckAtATime == \A p, q \in Staying : p = q

(* A status Update is about to write over the version it read is never     *)
(* refused by the CRD's validation rules, which would block the incident   *)
(* for good.                                                               *)
WritesAccepted ==
  pc = "update" /\ plan.dirty /\ copyCurrent => CRDAccepts(status, plan.status)

(* The settle window is there exactly while the incident is Verifying, and *)
(* the resolution exactly when it has ended, in whatever order writer,     *)
(* controller and IncidentApply write.                                     *)
WellFormed(st) ==
  /\ ValidStatus(st)
  /\ st.state = "Verifying" <=> st.verifyingSince # None

WindowAndResolution == WellFormed(status)

(* What makes it inductive: every copy the controller may write from is    *)
(* well formed too.                                                        *)
CopiesWellFormed ==
  /\ WellFormed(status) /\ WellFormed(cache.status) /\ WellFormed(plan.status)
  /\ clock # None

(* What makes WritesAccepted inductive: a copy taken for the latest        *)
(* version is it, and the plan never takes an ended incident back.         *)
CopiesFollow ==
  /\ cacheCurrent => cache = [spec |-> spec, status |-> status]
  /\ pc # "idle" /\ copyCurrent => copy = [spec |-> spec, status |-> status]
  /\ pc \in {"observe", "update"} /\ copy.status.state \in Ended =>
       plan.status.state \in {copy.status.state, "Closed"}

(* The finalizer works: no check pod and no ConfigMap outlives the         *)
(* Incident.                                                               *)
NothingOutlivesTheIncident == ~exists => pods = {} /\ cms = {}

(* What makes the two inductive, while the lists do not lag: a pod that    *)
(* stays is still to be read, to be deleted, or keeps a check from         *)
(* starting; and the finalizer goes only once nothing is there.            *)
ChecksKnown ==
  /\ OneCheckAtATime
  /\ pc = "observe" => \A p \in Staying : p \in plan.todo \/ p.name \in plan.stale \/ plan.live
  /\ pc = "update" /\ plan.due => \A p \in Staying : p.name \in plan.stale

NothingLeft ==
  /\ ~exists => pc = "idle"
  /\ ~exists \/ pc = "finalize" => pods = {} /\ cms = {}

(* Recording a run of the current script a second time, because its pod    *)
(* outlived a failed delete or the write of the first was refused, changes *)
(* nothing while that script is still current.                             *)
RunsOf(st) ==
  {r \in [script : Checked, exit : Exits, at : 1..MaxTime] : r.script = CurrentScript(st)}

RecordingTwiceChangesNothing ==
  \A r \in RunsOf(status) :
    LET once == Record(status, r) IN
    r.script = CurrentScript(once) => Record(once, r) = once

-----------------------------------------------------------------------------
Dropped(p) == ~p.leaving /\ \A q \in pods' : q.name = p.name => q.leaving

(* Update writes the status before it deletes a pod: a pod of the current  *)
(* script that ended with a result before it was overdue is deleted only   *)
(* once lastChecks has that result, unless the incident was written since. *)
ResultNotLost ==
  [][ \A p \in pods :
        /\ pc = "update" /\ copyCurrent /\ Dropped(p)
        /\ p.phase = "Ended" /\ plan.now < Overdue(p, CheckTimeout)
        /\ ScriptOf(p) = CurrentScript(status)
        => status.lastChecks[ScriptOf(p)].exit = ResultOf(p).exit ]_vars

(* What makes it a property of every write: of the one pod that stays, a   *)
(* plan that deletes it for its result has recorded that, and the status   *)
(* it goes on with is the one it wrote.                                    *)
ResultsRead ==
  /\ pc = "observe" =>
       plan.todo \subseteq Staying /\ (plan.todo # {} => ~plan.live /\ plan.stale = {})
  /\ pc \in {"observe", "update"} =>
       \A p \in Staying :
         /\ p.name \in plan.stale /\ plan.now < Overdue(p, CheckTimeout)
         /\ ScriptOf(p) = CurrentScript(plan.status)
         => p.phase = "Ended" /\ plan.status.lastChecks[ScriptOf(p)].exit = ExitOf(p)

PlanWritten == pc = "update" /\ ~plan.dirty => copy.status = plan.status

(* spec.applied goes back to false only when the status says it was        *)
(* applied, and the incident moved on; with no settle window at all, a     *)
(* verify that exits 1 may have moved it back in the same write.           *)
MovedOn(st) ==
  \/ st.state \in {"Verifying", "Resolved"}
  \/ SettleWindow = 0 /\ st.state = "Open" /\ st.lastChecks["verify"].exit = 1

AppliedNotLost ==
  [][ spec.applied /\ ~spec'.applied =>
        /\ status.lastChecks["apply"].since # None
        /\ status.lastChecks["apply"].exit = NoExit
        /\ MovedOn(status) ]_vars

(* What makes it a property of every write: a plan that consumes the apply *)
(* recorded it, whatever runs it has recorded since, and stays in the      *)
(* settle window that began with it until a verify ends it.                *)
PlanApplied ==
  pc \in {"observe", "update"} /\ plan.consume =>
    /\ plan.now # None
    /\ plan.status.lastChecks["apply"] = [exit |-> NoExit, since |-> plan.now]
    /\ MovedOn(plan.status)
    /\ SettleWindow # 0 /\ plan.status.state = "Verifying" =>
         plan.status.verifyingSince = plan.now

(* An incident goes back from Verifying to Open only once its settle       *)
(* window has passed, on a verify that exited 1.                           *)
WindowHonoured ==
  [][ status.state = "Verifying" /\ status'.state = "Open" =>
        /\ clock >= status.verifyingSince + SettleWindow
        /\ status'.lastChecks["verify"].exit = 1 ]_vars

(* The first verdict of the precondition stands until the next analysis:   *)
(* no later run, restart or apply clears or turns Reproduced.              *)
FirstVerdictStands ==
  [][ Reproduced(status) =>
        \/ status'.reproduced = status.reproduced
        \/ status'.state = "Analyzing" ]_vars

(* The incident's state and resolution follow its lifecycle. *)
Lifecycle == INSTANCE IncidentLifecycle
  WITH state <- status.state, resolution <- status.resolution

FollowsLifecycle == Lifecycle!Spec

(* What makes FollowsLifecycle, FirstVerdictStands and WindowHonoured      *)
(* properties of every write: a plan is one step of the lifecycle ahead of *)
(* the copy it was computed from, or none, keeps its verdict, and leaves   *)
(* its settle window only once that has passed.                            *)
Ahead(old, new) ==
  \/ new.state = old.state /\ new.resolution = old.resolution
  \/ /\ old.state \in {"Open", "Verifying"}
     /\ \/ new.state \in {"Open", "Verifying"} /\ new.resolution = old.resolution
        \/ new.state = "Resolved" /\ new.resolution = "verify"
  \/ old.state # "Closed" /\ new.state = "Closed" /\ new.resolution = "user"

KeepsVerdict(old, new) == Reproduced(old) => new.reproduced = old.reproduced

KeepsWindow(old, new, now) ==
  LET passed == now >= old.verifyingSince + SettleWindow IN
  old.state = "Verifying" =>
    /\ new.state = "Verifying" => passed \/ new.verifyingSince >= old.verifyingSince
    /\ new.state = "Open" => passed /\ new.lastChecks["verify"].exit = 1

Follows(old, new, now) == Ahead(old, new) /\ KeepsVerdict(old, new) /\ KeepsWindow(old, new, now)

PlanFollows == pc \in {"observe", "update"} => Follows(copy.status, plan.status, plan.now)

(* What makes PlanFollows inductive: no window began, and no container     *)
(* exited, in the future.                                                  *)
NothingFromTheFuture ==
  /\ \A p \in pods : p.code # NoExit => p.finished \in 1..clock
  /\ \A st \in {status, cache.status, plan.status} : st.verifyingSince <= clock
  /\ pc = "observe" => plan.now = clock /\ plan.todo \subseteq pods
  /\ plan.now <= clock

-----------------------------------------------------------------------------
(* What the repository says of the controller, and the code does not do:   *)
(* each is shown violated by a run.                                        *)

(* "The verify result of an earlier window is dropped" (enterVerifying):   *)
(* the verify result of a Verifying incident is not older than its window. *)
VerifyResultOfThisWindow ==
  LET verify == status.lastChecks["verify"] IN
  status.state = "Verifying" /\ verify # NoCheck => verify.since >= status.verifyingSince

(* "The result of a script that is no longer current is dropped"           *)
(* (Observe): a recorded result is of the script of this analysis.         *)
ResultOfThisAnalysis ==
  [][ \A p \in plan.todo :
        pc = "observe" /\ p \notin plan'.todo /\ plan'.status # plan.status =>
          p.body \in {NoFix, plan.status.howToFix} ]_vars

(* "A create retried after a partial failure reuses the same name"         *)
(* (checkName): a reconcile that finds the running check's pod without its *)
(* ConfigMap starts the check again, so that the pod gets one.             *)
PartialStartRetried ==
  [][ \A p \in Staying :
        /\ Decide
        /\ ScriptOf(p) = CurrentScript(plan.status) /\ ~Finished(p, CheckTimeout, plan.now)
        => (\E c \in cms : c.name = p.name) \/ plan'.due ]_vars

-----------------------------------------------------------------------------
(* Fairness: reconciles are requeued by watches, by errors and at least    *)
(* every poll interval; the informer, the kubelet and the garbage          *)
(* collector do their work, and time passes.  Nobody makes a human or the  *)
(* writer act.                                                             *)
Fairness ==
  /\ WF_vars(Reconcile)
  /\ WF_vars(CacheSync)
  /\ WF_vars(\E p \in pods : PodGone(p))
  /\ WF_vars(\E c \in cms : Collect(c))
  /\ WF_vars(Tick)

FairSpec == Spec /\ Fairness

(* A human's close is acted on, whatever writes race it. *)
CloseTakesEffect ==
  spec.closed ~> status.state = "Closed" \/ spec.deleted

(* spec.applied is consumed while the incident can take it. *)
ApplyTakesEffect ==
  spec.applied ~> \/ ~spec.applied
                  \/ status.state \notin {"Open", "Verifying"}
                  \/ spec.deleted

(* A check that is due starts, even when its name is taken by a pod that   *)
(* is still leaving.                                                       *)
DueCheckStarts ==
  CheckDue(status, lastRun, clock) ~>
    Staying # {} \/ ~CheckDue(status, lastRun, clock) \/ spec.deleted

(* A check pod that has ended, or is overdue, is read and deleted. *)
FinishedPodsGo ==
  (\E p \in Staying : Finished(p, CheckTimeout, clock)) ~> ~\E p \in Staying : Finished(p, CheckTimeout, clock)

(* Once the incident has ended, its pods and their ConfigMaps go, and no   *)
(* check starts again.                                                     *)
NothingRunsAfterTheEnd ==
  status.state \in Ended ~> [](pods = {} /\ cms = {})

(* A deleted Incident goes away. *)
DeletionCompletes == spec.deleted ~> ~exists
=============================================================================
