--------------------------- MODULE IncidentSafety ---------------------------
(***************************************************************************)
(* More theorems about the incident controller, for every set of fixes,    *)
(* every configuration and every bound: what a write may do to an incident *)
(* (PlanFollows, NothingFromTheFuture), what a human's apply leaves in it  *)
(* (PlanApplied), and, while the informer's lists do not lag, what becomes *)
(* of its pods (ChecksKnown, NothingLeft) and their results (ResultsRead). *)
(***************************************************************************)
EXTENDS IncidentProofs

USE DEF None, Time, NoExit

-----------------------------------------------------------------------------
(* What the state machine's functions do to a status, as Follows says it.  *)
LEMMA ApplySpecStep ==
  ASSUME NEW sp \in Specs, NEW st \in Statuses, NEW now \in Time, st.verifyingSince <= now
  PROVE  LET new == ApplySpec(sp, st, now) IN
         Follows(st, new, now) /\ new.verifyingSince <= now
<1> DEFINE applied == SetLastCheck(st, "apply", NoExit, now)
           new == ApplySpec(sp, st, now)
<1>1. /\ applied \in Statuses /\ applied.state = st.state /\ applied.resolution = st.resolution
      /\ applied.reproduced = st.reproduced
  <2>1. applied \in Statuses
    BY CheckTypes DEF Scripts, Exits
  <2> QED BY <2>1 DEF SetLastCheck, Statuses
<1> HIDE DEF applied
<1>2. CASE sp.closed /\ st.state # "Closed"
  <2>1. new = Resolve(st, "Closed", "user", now)
    BY <1>2 DEF ApplySpec, AppliesNow
  <2>2. /\ new.state = "Closed" /\ new.resolution = "user"
        /\ new.reproduced = st.reproduced /\ new.verifyingSince = None
    BY <2>1 DEF Resolve, SetState, Statuses
  <2> QED BY <1>2, <2>2 DEF Follows, Ahead, KeepsVerdict, KeepsWindow
<1>3. CASE AppliesNow(sp, st)
  <2>1. new = SetState(applied, "Verifying", now) \/ new = EnterVerifying(applied, now)
    BY <1>3 DEF ApplySpec, AppliesNow, applied
  <2>2. new.state \in {"Verifying", st.state} /\ st.state \in {"Open", "Verifying"}
    BY <1>1, <1>3, <2>1 DEF AppliesNow, SetState, EnterVerifying, ClearLastCheck, Statuses
  <2>3. /\ new.resolution = st.resolution /\ new.reproduced = st.reproduced
        /\ new.verifyingSince = now
    BY <1>1, <2>1 DEF SetState, EnterVerifying, ClearLastCheck, Statuses
  <2>4. new.state = "Verifying"
    <3>1. st.state = "Open" => new = SetState(applied, "Verifying", now)
      BY <1>3 DEF ApplySpec, AppliesNow, applied
    <3> QED BY <1>1, <2>2, <3>1 DEF SetState, EnterVerifying, ClearLastCheck, Statuses
  <2> QED BY <2>2, <2>3, <2>4 DEF Follows, Ahead, KeepsVerdict, KeepsWindow
<1>4. CASE ~AppliesNow(sp, st) /\ ~(sp.closed /\ st.state # "Closed")
  <2>1. new = st
    BY <1>4 DEF ApplySpec, AppliesNow
  <2>2. st.verifyingSince \in Nat
    BY DEF Statuses
  <2> QED BY <2>1, <2>2 DEF Follows, Ahead, KeepsVerdict, KeepsWindow
<1> QED BY <1>2, <1>3, <1>4

(* Recording a run of the current script: no transition, a fixed Open      *)
(* incident, a window that ended, or a resolved incident.                  *)
LEMMA RecordCases ==
  ASSUME NEW st \in Statuses, WellFormed(st),
         NEW r \in Results, r.script = CurrentScript(st)
  PROVE  LET new == Record(st, r) IN
    /\ st.state \in {"Open", "Verifying"}
    /\ Reproduced(st) => new.reproduced = st.reproduced
    /\ \/ /\ new.state = st.state /\ new.resolution = st.resolution
          /\ new.verifyingSince = st.verifyingSince
          /\ st.state = "Open" => new.lastChecks["verify"] = st.lastChecks["verify"]
       \/ /\ st.state = "Open" /\ Known(r.exit)
          /\ new.state = "Verifying" /\ new.resolution = st.resolution
          /\ new.verifyingSince = r.at
       \/ /\ st.state = "Verifying" /\ Known(r.exit)
          /\ r.at - st.verifyingSince >= SettleWindow
          /\ new.state = "Open" /\ new.resolution = st.resolution
          /\ new.verifyingSince = None /\ new.lastChecks["verify"].exit = 1
       \/ /\ st.state = "Verifying" /\ Known(r.exit)
          /\ new.state = "Resolved" /\ new.resolution = "verify"
          /\ new.verifyingSince = None
<1> DEFINE noted == SetLastCheck(st, r.script, r.exit, r.at)
           new == Record(st, r)
<1>1. /\ noted \in Statuses /\ noted.state = st.state /\ noted.reproduced = st.reproduced
      /\ noted.verifyingSince = st.verifyingSince /\ noted.resolution = st.resolution
      /\ noted.howToFix = st.howToFix
      /\ r.script # "verify" => noted.lastChecks["verify"] = st.lastChecks["verify"]
      /\ r.script = "verify" => noted.lastChecks["verify"].exit = r.exit
  <2>1. noted \in Statuses
    BY CheckTypes DEF Results, Checked, Scripts
  <2>2. r.script \in Scripts /\ "verify" \in Scripts
    BY DEF Results, Checked, Scripts
  <2> QED BY <2>1, <2>2 DEF SetLastCheck, Statuses
<1> HIDE DEF noted
<1>2. /\ r.script = "precondition" => st.state = "Open"
      /\ r.script = "verify" => st.state = "Verifying"
      /\ r.script \in {"precondition", "verify"}
  BY DEF CurrentScript, Results, Checked
<1>3. CASE ~Known(r.exit)
  BY <1>1, <1>2, <1>3 DEF Record, noted
<1>4. CASE Known(r.exit) /\ r.script = "precondition"
  <2>1. new = RecordPrecondition(noted, r)
    BY <1>4 DEF Record, noted
  <2>2. CASE ~Reproduced(noted)
    <3>1. new = [noted EXCEPT !.reproduced = IF r.exit = 1 THEN "True" ELSE "False"]
      BY <2>1, <2>2 DEF RecordPrecondition
    <3>2. /\ new.state = noted.state /\ new.resolution = noted.resolution
          /\ new.verifyingSince = noted.verifyingSince /\ new.lastChecks = noted.lastChecks
      BY <1>1, <3>1 DEF Statuses
    <3> QED BY <1>1, <1>2, <1>4, <2>2, <3>2 DEF Reproduced
  <2>3. CASE Reproduced(noted) /\ r.exit = 0
    <3>1. new = SetState(noted, "Verifying", r.at)
      BY <2>1, <2>3 DEF RecordPrecondition
    <3>2. /\ new.state = "Verifying" /\ new.resolution = noted.resolution
          /\ new.verifyingSince = r.at /\ new.reproduced = noted.reproduced
      BY <1>1, <3>1 DEF SetState, EnterVerifying, ClearLastCheck, Statuses
    <3> QED BY <1>1, <1>2, <1>4, <3>2
  <2>4. CASE Reproduced(noted) /\ r.exit # 0
    <3>1. new = noted
      BY <2>1, <2>4 DEF RecordPrecondition
    <3> QED BY <1>1, <1>2, <1>4, <3>1
  <2> QED BY <2>2, <2>3, <2>4
<1>5. CASE Known(r.exit) /\ r.script = "verify"
  <2>1. new = RecordVerify(noted, r)
    BY <1>5 DEF Record, noted
  <2>2. noted.verifyingSince # None
    BY <1>1, <1>2, <1>5 DEF WellFormed
  <2>3. CASE r.exit = 0
    <3>1. new = Resolve(noted, "Resolved", "verify", r.at)
      BY <2>1, <2>3 DEF RecordVerify
    <3>2. /\ new.state = "Resolved" /\ new.resolution = "verify"
          /\ new.verifyingSince = None /\ new.reproduced = noted.reproduced
      BY <1>1, <3>1 DEF Resolve, SetState, Statuses
    <3> QED BY <1>1, <1>2, <1>5, <3>2
  <2>4. CASE r.exit = 1 /\ r.at - noted.verifyingSince >= SettleWindow
    <3>1. new = SetState(noted, "Open", r.at)
      BY <2>1, <2>2, <2>4 DEF RecordVerify
    <3>2. /\ new.state = "Open" /\ new.resolution = noted.resolution
          /\ new.verifyingSince = None /\ new.reproduced = noted.reproduced
      BY <1>1, <3>1 DEF SetState, ClearLastCheck, Statuses
    <3>3. new.lastChecks["verify"] = noted.lastChecks["verify"]
      <4>1. \A t \in Statuses : ClearLastCheck(t, "precondition").lastChecks["verify"] = t.lastChecks["verify"]
        BY DEF ClearLastCheck, Statuses, Scripts
      <4>2. [noted EXCEPT !.state = "Open"] \in Statuses
        BY <1>1 DEF Statuses, States
      <4>3. new = [ClearLastCheck([noted EXCEPT !.state = "Open"], "precondition") EXCEPT !.verifyingSince = None]
        BY <3>1 DEF SetState
      <4>4. ClearLastCheck([noted EXCEPT !.state = "Open"], "precondition") \in Statuses
        BY <4>2, CheckTypes DEF Scripts, Exits
      <4>5. new.lastChecks = ClearLastCheck([noted EXCEPT !.state = "Open"], "precondition").lastChecks
        BY <4>3, <4>4 DEF Statuses
      <4>6. [noted EXCEPT !.state = "Open"].lastChecks = noted.lastChecks
        BY <1>1 DEF Statuses
      <4> QED BY <4>1, <4>2, <4>5, <4>6
    <3> QED BY <1>1, <1>2, <1>5, <2>4, <3>2, <3>3
  <2>5. CASE r.exit # 0 /\ ~(r.exit = 1 /\ r.at - noted.verifyingSince >= SettleWindow)
    <3>1. new = noted
      BY <2>1, <2>2, <2>5 DEF RecordVerify
    <3> QED BY <1>1, <1>2, <1>5, <3>1
  <2> QED BY <2>3, <2>4, <2>5
<1> QED BY <1>2, <1>3, <1>4, <1>5

(* A run that did not end in the future keeps a plan following its copy.  *)
LEMMA RecordStep ==
  ASSUME NEW old \in Statuses, NEW st \in Statuses, WellFormed(st), NEW now \in Time,
         NEW r \in Results, r.script = CurrentScript(st), Known(r.exit) => r.at <= now,
         Follows(old, st, now), st.verifyingSince <= now
  PROVE  LET new == Record(st, r) IN
         Follows(old, new, now) /\ new.verifyingSince <= now
<1> DEFINE new == Record(st, r)
<1>1. /\ st.verifyingSince \in Nat /\ old.verifyingSince \in Nat /\ r.at \in Nat
      /\ SettleWindow \in Nat
  BY ConfigAssumption DEF Statuses, Results
<1> HIDE DEF new
<1>2. st.state \in {"Open", "Verifying"} /\ (Reproduced(st) => new.reproduced = st.reproduced)
  BY RecordCases DEF new
<1>3. KeepsVerdict(old, new)
  BY <1>2 DEF Follows, KeepsVerdict, Reproduced
<1>4. Ahead(old, new)
  <2>1. \/ new.state \in {"Open", "Verifying"} /\ new.resolution = st.resolution
        \/ new.state = "Resolved" /\ new.resolution = "verify"
    BY <1>2, RecordCases DEF new
  <2> QED BY <1>2, <2>1 DEF Follows, Ahead
<1>5. KeepsWindow(old, new, now) /\ new.verifyingSince <= now
  <2>1. CASE /\ new.state = st.state /\ new.verifyingSince = st.verifyingSince
             /\ st.state = "Open" => new.lastChecks["verify"] = st.lastChecks["verify"]
    BY <2>1 DEF Follows, KeepsWindow
  <2>2. CASE /\ st.state = "Open" /\ Known(r.exit)
             /\ new.state = "Verifying" /\ new.verifyingSince = r.at
    BY <2>2 DEF Follows, KeepsWindow
  <2>3. CASE /\ st.state = "Verifying" /\ Known(r.exit)
             /\ r.at - st.verifyingSince >= SettleWindow
             /\ new.state = "Open" /\ new.verifyingSince = None
             /\ new.lastChecks["verify"].exit = 1
    <3>1. now >= st.verifyingSince + SettleWindow
      BY <1>1, <2>3
    <3>2. old.state = "Verifying" => now >= old.verifyingSince + SettleWindow
      BY <1>1, <2>3, <3>1 DEF Follows, KeepsWindow
    <3> QED BY <2>3, <3>2 DEF KeepsWindow
  <2>4. CASE new.state = "Resolved" /\ new.verifyingSince = None
    BY <2>4 DEF KeepsWindow
  <2> QED BY <2>1, <2>2, <2>3, <2>4, RecordCases DEF new
<1> QED BY <1>3, <1>4, <1>5 DEF Follows, new
-----------------------------------------------------------------------------
(* A plan follows its copy, and nothing read for it is from the future.    *)
Timely == PlanFollows /\ NothingFromTheFuture

LEMMA FollowsItself ==
  ASSUME NEW st \in Statuses, NEW now
  PROVE  Follows(st, st, now)
<1>1. st.verifyingSince \in Nat
  BY DEF Statuses
<1> QED BY <1>1 DEF Follows, Ahead, KeepsVerdict, KeepsWindow

(* A container that exited with a verdict exited by now. *)
LEMMA VerdictInPast ==
  ASSUME NEW p \in Pods, p.code # NoExit => p.finished \in 1..clock, clock \in Time,
         Known(ResultOf(p).exit)
  PROVE  ResultOf(p).at <= clock
<1>1. p.phase = "Ended" /\ p.code \in {0, 1}
  BY DEF Known, ResultOf, ExitOf
<1>2. p.finished \in 1..clock
  BY <1>1
<1>3. ResultOf(p).at = p.finished
  BY <1>1, <1>2 DEF ResultOf, EndedAt
<1> QED BY <1>2, <1>3

LEMMA NewTimely == NewStatus.verifyingSince = 0 /\ NoPlan.status = NewStatus /\ NoPlan.now = 0
BY DEF NewStatus, NoPlan

LEMMA EndTimely ==
  ASSUME EndReconcile, Typed
  PROVE  pc' = "idle" /\ plan'.status.verifyingSince <= clock /\ plan'.now <= clock
BY NewTimely DEF EndReconcile, Typed, TypeOK, BoundTypes

LEMMA ReconcileTimely ==
  ASSUME Typed, CopiesWellFormed, Timely, Reconcile
  PROVE  Timely'
<1> USE DEF Timely, PlanFollows, NothingFromTheFuture
<1>1. /\ plan \in Plans /\ copy \in Copies /\ clock \in Time /\ pods \subseteq Pods
      /\ plan.status \in Statuses /\ copy.status \in Statuses
  BY DEF Typed, TypeOK, ReconcileTypes, Plans, Copies, BoundTypes, ClusterTypes
<1> HIDE DEF Follows
<1>2. CASE Observe
  <2> DEFINE st == ApplySpec(cache.spec, cache.status, clock)
  <2>1. cache.spec \in Specs /\ cache.status \in Statuses
    BY DEF Typed, TypeOK, ObjectTypes, Copies
  <2>2. /\ plan'.status = st /\ plan'.now = clock /\ plan'.todo \subseteq pods
        /\ copy' = cache /\ pc' = "observe" /\ UNCHANGED <<object, cluster, bounds>>
    BY <1>2 DEF Observe, NoPlan
  <2>3. Follows(cache.status, st, clock) /\ st.verifyingSince <= clock
    BY <1>1, <2>1, ApplySpecStep
  <2> HIDE DEF st
  <2> QED BY <1>1, <2>2, <2>3 DEF object, cluster, bounds
<1>3. ASSUME NEW p \in plan.todo, ReadPod(p)
      PROVE  Timely'
  <2>1. p \in pods /\ p \in Pods /\ pc = "observe" /\ plan.now = clock
    BY <1>1, <1>3 DEF ReadPod
  <2>2. ResultOf(p) \in Results /\ (Known(ResultOf(p).exit) => ResultOf(p).at <= clock)
    BY <1>1, <2>1, ResultType, VerdictInPast
  <2>3. /\ UNCHANGED <<object, pc, copy, cluster, bounds>>
        /\ plan'.now = plan.now /\ plan'.todo \subseteq plan.todo
        /\ \/ plan'.status = plan.status
           \/ /\ ResultOf(p).script = CurrentScript(plan.status)
              /\ plan'.status = Record(plan.status, ResultOf(p))
    BY <1>1, <1>3 DEF ReadPod, Plans
  <2>4. Follows(copy.status, plan'.status, clock) /\ plan'.status.verifyingSince <= clock
    <3>1. CASE plan'.status = plan.status
      BY <2>1, <3>1
    <3>2. CASE /\ ResultOf(p).script = CurrentScript(plan.status)
               /\ plan'.status = Record(plan.status, ResultOf(p))
      <4>1. WellFormed(plan.status)
        BY DEF CopiesWellFormed
      <4> QED BY <1>1, <2>1, <2>2, <3>2, <4>1, RecordStep
    <3> QED BY <2>3, <3>1, <3>2
  <2> QED BY <1>1, <2>1, <2>3, <2>4 DEF object, cluster, bounds
<1>4. CASE Decide
  <2> DEFINE decided == [plan EXCEPT !.dirty = plan.consume \/ plan.status # copy.status,
                                     !.due = ~plan.live /\ CheckDue(plan.status, lastRun, plan.now),
                                     !.from = CheckFrom(plan.status, lastRun)]
  <2>1. /\ decided.status = plan.status /\ decided.now = plan.now
        /\ Continue(decided, copy) /\ pc = "observe" /\ UNCHANGED <<object, cluster, bounds>>
    BY <1>1, <1>4 DEF Plans, Decide
  <2> HIDE DEF decided
  <2>2. CASE EndReconcile
    BY <2>1, <2>2, EndTimely DEF object, cluster, bounds
  <2>3. CASE pc' = "update" /\ plan' = decided /\ copy' = copy
    BY <2>1, <2>3 DEF object, cluster, bounds
  <2> QED BY <2>1, <2>2, <2>3 DEF Continue
<1>5. ASSUME pc = "update", NEW p, NEW c, Continue(p, c) \/ EndReconcile,
             p.status = plan.status, p.now = plan.now,
             c.status \in {copy.status, plan.status},
             UNCHANGED <<pods, bounds>>, status' \in {status, plan.status},
             cache'.status \in {cache.status, status, plan.status}
      PROVE  Timely'
  <2>1. Follows(plan.status, plan.status, plan.now)
    BY <1>1, FollowsItself
  <2>2. status'.verifyingSince <= clock /\ cache'.status.verifyingSince <= clock
    BY <1>5
  <2>3. CASE EndReconcile
    BY <1>5, <2>2, <2>3, EndTimely DEF bounds
  <2>4. CASE pc' = "update" /\ plan' = p /\ copy' = c
    BY <1>5, <2>1, <2>2, <2>4 DEF bounds
  <2> QED BY <1>5, <2>3, <2>4 DEF Continue
<1>6. CASE UpdateStatus
  <2> DEFINE left == [plan EXCEPT !.dirty = FALSE]
             written == [copy EXCEPT !.status = plan.status]
  <2>1. /\ left.status = plan.status /\ left.now = plan.now /\ written.status = plan.status
        /\ Continue(left, written) \/ EndReconcile
        /\ pc = "update" /\ UNCHANGED <<pods, bounds>>
    BY <1>1, <1>6 DEF UpdateStatus, Plans, Copies, cluster
  <2>2. status' \in {status, plan.status} /\ cache'.status \in {cache.status, plan.status}
    BY <1>6 DEF UpdateStatus, Write, object
  <2> HIDE DEF left, written
  <2> QED BY <1>5, <2>1, <2>2
<1>7. CASE ConsumeApplied
  <2> DEFINE sp == [copy.spec EXCEPT !.applied = FALSE]
             left == [plan EXCEPT !.consume = FALSE]
             written == [copy EXCEPT !.spec = sp]
  <2>1. /\ left.status = plan.status /\ left.now = plan.now /\ written.status = copy.status
        /\ Continue(left, written) \/ EndReconcile
        /\ pc = "update" /\ UNCHANGED <<pods, bounds>>
    BY <1>1, <1>7 DEF ConsumeApplied, Plans, Copies, cluster
  <2>2. status' = status /\ cache'.status \in {cache.status, status}
    BY <1>7 DEF ConsumeApplied, Write, object
  <2> HIDE DEF left, written, sp
  <2> QED BY <1>5, <2>1, <2>2
<1>8. ASSUME NEW n, DeletePodNamed(n)
      PROVE  \A p \in pods' : p \in pods \/ p.code = NoExit
  BY <1>8 DEF DeletePodNamed, MarkLeaving, NewPod
<1>9. ASSUME NEW n \in plan.stale, DeleteStale(n)
      PROVE  Timely'
  <2> DEFINE left == [plan EXCEPT !.stale = @ \ {n}]
  <2>1. /\ left.status = plan.status /\ left.now = plan.now /\ pc = "update"
        /\ Continue(left, copy) /\ UNCHANGED <<object, bounds>>
        /\ \A p \in pods' : p \in pods \/ p.code = NoExit
    BY <1>1, <1>8, <1>9 DEF Plans, DeleteStale
  <2> HIDE DEF left
  <2>2. CASE EndReconcile
    BY <2>1, <2>2, EndTimely DEF object, bounds
  <2>3. CASE pc' = "update" /\ plan' = left /\ copy' = copy
    BY <2>1, <2>3 DEF object, bounds
  <2> QED BY <2>1, <2>2, <2>3 DEF Continue
<1>10. CASE StartCheck
  <2>1. \A p \in pods' : p \in pods \/ p.code = NoExit
    BY <1>10 DEF StartCheck, NewPod
  <2> QED BY <1>10, <2>1 DEF StartCheck, object, bounds
<1>11. CASE CreateConfigMap \/ EndDelete \/ RemoveFinalizer
  <2>1. EndReconcile /\ UNCHANGED <<status, cache, pods, bounds>>
    BY <1>11 DEF CreateConfigMap, EndDelete, RemoveFinalizer, object, cluster
  <2> QED BY <2>1, EndTimely DEF bounds
<1>12. CASE ObserveDeleted
  <2>1. /\ plan'.status = NewStatus /\ plan'.now = 0 /\ pc' \in {"finalize", "delete"}
        /\ UNCHANGED <<object, cluster, bounds>>
    BY <1>12, NewTimely DEF ObserveDeleted, NoPlan
  <2> QED BY <1>1, <2>1, NewTimely DEF object, cluster, bounds
<1>13. ASSUME \/ \E n \in plan.stale : DeletePod(n)
              \/ \E n \in plan.cms : DeleteConfigMap(n)
       PROVE  Timely'
  <2>1. /\ pc = "delete" /\ plan'.status = plan.status /\ plan'.now = plan.now
        /\ UNCHANGED <<object, pc, bounds>>
        /\ \A p \in pods' : p \in pods \/ p.code = NoExit
    BY <1>1, <1>8, <1>13 DEF DeletePod, DeleteConfigMap, Plans
  <2> QED BY <2>1 DEF object, bounds
<1> QED BY <1>2, <1>3, <1>4, <1>6, <1>7, <1>9, <1>10, <1>11, <1>12, <1>13 DEF Reconcile

LEMMA KubeletTimely ==
  ASSUME Typed, CopiesWellFormed, Timely, pc # "observe", Kubelet
  PROVE  Timely'
<1> USE DEF Timely, PlanFollows, NothingFromTheFuture
<1>1. clock \in Time /\ clock # None /\ pods \subseteq Pods
  BY DEF Typed, TypeOK, BoundTypes, ClusterTypes, CopiesWellFormed
<1>2. PICK p \in pods :
        \/ \E c \in cms : PodStarts(p, c)
        \/ \E code \in ExitCodes : ContainerExits(p, code)
        \/ DeadlineStops(p)
        \/ \E start \in {None} \union p.created..clock : PodFails(p, start)
        \/ PodGone(p)
  BY DEF Kubelet
<1>3. UNCHANGED <<object, worker, bounds>>
  BY <1>2 DEF PodStarts, ContainerExits, DeadlineStops, PodFails, PodGone, ByKubelet
<1>4. ASSUME NEW q, Replace(p, q), q.code # NoExit => q.finished \in 1..clock
      PROVE  \A x \in pods' : x.code # NoExit => x.finished \in 1..clock
  BY <1>4 DEF Replace
<1>5. \A x \in pods' : x.code # NoExit => x.finished \in 1..clock
  <2>1. p \in Pods
    BY <1>1
  <2>2. ASSUME NEW c \in cms, PodStarts(p, c)
        PROVE  \A x \in pods' : x.code # NoExit => x.finished \in 1..clock
    <3>1. StartedPod(p, c.body, clock).code = p.code /\ StartedPod(p, c.body, clock).finished = p.finished
      BY <2>1 DEF StartedPod, Pods
    <3> QED BY <1>4, <2>2, <3>1 DEF PodStarts
  <2>3. ASSUME NEW code \in ExitCodes, ContainerExits(p, code)
        PROVE  \A x \in pods' : x.code # NoExit => x.finished \in 1..clock
    <3>1. ExitedPod(p, code, clock).finished = clock
      BY <2>1 DEF ExitedPod, Pods
    <3> QED BY <1>1, <1>4, <2>3, <3>1 DEF ContainerExits
  <2>4. CASE DeadlineStops(p)
    <3>1. StoppedPod(p, clock).finished = clock
      BY <2>1 DEF StoppedPod, ExitedPod, Pods
    <3> QED BY <1>1, <1>4, <2>4, <3>1 DEF DeadlineStops
  <2>5. ASSUME NEW start \in {None} \union p.created..clock, PodFails(p, start)
        PROVE  \A x \in pods' : x.code # NoExit => x.finished \in 1..clock
    <3>1. FailedPod(p, start).code = p.code /\ FailedPod(p, start).finished = p.finished
      BY <2>1 DEF FailedPod, Pods
    <3> QED BY <1>4, <2>5, <3>1 DEF PodFails
  <2>6. CASE PodGone(p)
    BY <2>6 DEF PodGone
  <2> QED BY <1>2, <2>2, <2>3, <2>4, <2>5, <2>6
<1> QED BY <1>3, <1>5 DEF object, worker, bounds

LEMMA OtherWriteTimely ==
  ASSUME Typed, Timely, pc # "observe", NEW sp, NEW st, WriteByOther(sp, st), clock' = clock,
         st.verifyingSince <= clock
  PROVE  Timely'
<1>1. /\ UNCHANGED <<pc, copy, plan, pods, clock>>
      /\ status' = st /\ cache'.status \in {cache.status, st}
  BY DEF WriteByOther, Write, cluster
<1> QED BY <1>1 DEF Timely, PlanFollows, NothingFromTheFuture

LEMMA OthersTimely ==
  ASSUME Typed, CopiesWellFormed, Timely, pc # "observe",
         Environment \/ People \/ CallFails \/ Restart
  PROVE  Timely'
<1>1. clock \in Time /\ spec \in Specs /\ status \in Statuses /\ pods \subseteq Pods
      /\ plan \in Plans /\ cache \in Copies
  BY DEF Typed, TypeOK, BoundTypes, ObjectTypes, ClusterTypes, ReconcileTypes
<1>2. status.verifyingSince <= clock
  BY DEF Timely, NothingFromTheFuture
<1>3. ASSUME NEW c \in cms, Collect(c)
      PROVE  Timely'
  BY <1>3 DEF Timely, PlanFollows, NothingFromTheFuture, Collect, object, worker, bounds
<1>4. CASE CacheSync
  <2>1. /\ UNCHANGED <<pc, copy, plan, pods, clock, status>> /\ cache'.status = status
    BY <1>4 DEF CacheSync, worker, cluster, bounds
  <2> QED BY <2>1 DEF Timely, PlanFollows, NothingFromTheFuture
<1>5. CASE Tick
  <2>1. \A t : t \in Nat /\ t <= clock => t <= clock'
    BY <1>1, <1>5 DEF Tick
  <2>2. \A t : t \in 1..clock => t \in 1..clock'
    BY <1>1, <1>5 DEF Tick
  <2>3. /\ status.verifyingSince \in Nat /\ cache.status.verifyingSince \in Nat
        /\ plan.status.verifyingSince \in Nat /\ plan.now \in Nat
    BY <1>1 DEF Statuses, Copies, Plans
  <2>4. UNCHANGED <<pc, copy, plan, pods, status, cache>>
    BY <1>5 DEF Tick, object, worker, cluster
  <2> QED BY <2>1, <2>2, <2>3, <2>4 DEF Timely, PlanFollows, NothingFromTheFuture
<1>6. CASE WriterStarts
  <2>1. [status EXCEPT !.state = "Analyzing"].verifyingSince <= clock
    BY <1>1, <1>2 DEF Statuses
  <2> QED BY <1>6, <2>1, OtherWriteTimely DEF WriterStarts, ByWriter, bounds
<1>7. ASSUME NEW fix \in Fixes \union {NoFix}, WriterFinishes(fix)
      PROVE  Timely'
  <2>1. [status EXCEPT !.state = "Open", !.howToFix = fix].verifyingSince <= clock
    BY <1>1, <1>2 DEF Statuses
  <2> QED BY <1>7, <2>1, OtherWriteTimely DEF WriterFinishes, ByWriter, bounds
<1>8. CASE WriterReanalyses
  <2>1. [NewStatus EXCEPT !.state = "Analyzing"].verifyingSince <= clock
    BY <1>1 DEF NewStatus
  <2> QED BY <1>2, <1>8, <2>1, OtherWriteTimely DEF WriterReanalyses, ByWriter, bounds
<1>9. CASE People
  <2>1. ASSUME NEW exit \in RunExits, NEW at \in 1..clock, ApplyRecorded(exit, at)
        PROVE  Timely'
    <3> DEFINE noted == SetLastCheck(status, "apply", exit, at)
    <3>1. exit \in Exits /\ at \in Time
      BY <1>1, BoundsAssumption
    <3>2. noted \in Statuses
      BY <1>1, <3>1, CheckTypes DEF Scripts
    <3>3. noted.verifyingSince = status.verifyingSince
      BY <1>1 DEF SetLastCheck, Statuses
    <3> HIDE DEF noted
    <3>4. /\ SetState(noted, "Verifying", at).verifyingSince = at
          /\ EnterVerifying(noted, at).verifyingSince = at
      BY <3>2 DEF SetState, EnterVerifying, ClearLastCheck, Statuses
    <3>5. RecordApply(status, exit, at).verifyingSince <= clock
      BY <1>1, <1>2, <3>3, <3>4 DEF RecordApply, noted
    <3> QED BY <2>1, <3>5, OtherWriteTimely DEF ApplyRecorded, Edit
  <2>2. CASE HumanApplies \/ HumanCloses \/ HumanAsksReanalysis \/ HumanDeletes
    BY <1>2, <2>2, OtherWriteTimely
       DEF HumanApplies, HumanCloses, HumanAsksReanalysis, HumanDeletes, Edit
  <2> QED BY <1>9, <2>1, <2>2 DEF People
<1>10. CASE CallFails \/ Restart
  <2>1. EndReconcile /\ UNCHANGED <<status, cache, pods, clock>>
    BY <1>10 DEF CallFails, Restart, object, cluster
  <2> QED BY <2>1, EndTimely DEF Timely, PlanFollows, NothingFromTheFuture
<1> QED BY <1>3, <1>4, <1>5, <1>6, <1>7, <1>8, <1>9, <1>10 DEF Environment

LEMMA AlwaysTimely == Spec => []Timely
<1>1. Init => Timely
  BY NewTimely DEF Init, Timely, PlanFollows, NothingFromTheFuture, NewCopy
<1>2. Typed /\ CopiesWellFormed /\ Timely /\ [Next]_vars => Timely'
  <2> SUFFICES ASSUME Typed, CopiesWellFormed, Timely, [Next]_vars
               PROVE  Timely'
    OBVIOUS
  <2>1. CASE Next
    BY <2>1, ReconcileTimely, KubeletTimely, OthersTimely DEF Next
  <2>2. CASE UNCHANGED vars
    BY <2>2 DEF vars, object, worker, cluster, bounds, Timely, PlanFollows, NothingFromTheFuture
  <2> QED BY <2>1, <2>2
<1> QED BY <1>1, <1>2, AlwaysTyped, AlwaysWellFormed, PTL DEF Spec
-----------------------------------------------------------------------------
(* What a step may do to the status: nothing but UpdateStatus, the writer  *)
(* and IncidentApply change it.                                            *)
Analyses(old, new) ==
  /\ new.resolution = old.resolution /\ new.reproduced = old.reproduced
  /\ \/ old.state = "" /\ new.state = "Analyzing"
     \/ old.state = "Analyzing" /\ new.state = "Open"

Reanalyses(old, new) ==
  /\ old.state \in {"Open", "Verifying"} /\ new.state = "Analyzing"
  /\ new.resolution = old.resolution

StatusStep ==
  \/ status' = status
  \/ Follows(status, status', clock)
  \/ Analyses(status, status')
  \/ Reanalyses(status, status')

LEMMA RecordApplyStep ==
  ASSUME NEW st \in Statuses, NEW exit \in Exits, NEW at \in Time, NEW now
  PROVE  Follows(st, RecordApply(st, exit, at), now)
<1> DEFINE noted == SetLastCheck(st, "apply", exit, at)
           new == RecordApply(st, exit, at)
<1>1. /\ noted \in Statuses /\ noted.state = st.state /\ noted.resolution = st.resolution
      /\ noted.reproduced = st.reproduced /\ noted.verifyingSince = st.verifyingSince
  <2>1. noted \in Statuses
    BY CheckTypes DEF Scripts
  <2> QED BY <2>1 DEF SetLastCheck, Statuses
<1> HIDE DEF noted
<1>2. st.verifyingSince \in Nat
  BY DEF Statuses
<1>3. CASE st.state \notin {"Open", "Verifying"}
  <2>1. new = st
    BY <1>3 DEF RecordApply
  <2> QED BY <2>1, FollowsItself
<1>4. CASE st.state = "Open" /\ exit = 0
  <2>1. new = SetState(noted, "Verifying", at)
    BY <1>4 DEF RecordApply, noted
  <2>2. new.state = "Verifying" /\ new.resolution = st.resolution /\ new.reproduced = st.reproduced
    BY <1>1, <2>1 DEF SetState, EnterVerifying, ClearLastCheck, Statuses
  <2> QED BY <1>4, <2>2 DEF Follows, Ahead, KeepsVerdict, KeepsWindow
<1>5. CASE st.state = "Verifying" /\ exit = 0 /\ st.verifyingSince < at
  <2>1. new = EnterVerifying(noted, at)
    BY <1>5 DEF RecordApply, noted
  <2>2. /\ new.state = st.state /\ new.resolution = st.resolution
        /\ new.reproduced = st.reproduced /\ new.verifyingSince = at
    BY <1>1, <2>1 DEF EnterVerifying, ClearLastCheck, Statuses
  <2> QED BY <1>2, <1>5, <2>2 DEF Follows, Ahead, KeepsVerdict, KeepsWindow
<1>6. CASE /\ st.state \in {"Open", "Verifying"}
           /\ ~(st.state = "Open" /\ exit = 0)
           /\ ~(st.state = "Verifying" /\ exit = 0 /\ st.verifyingSince < at)
  <2>1. new = noted
    BY <1>6 DEF RecordApply, noted
  <2> QED BY <1>1, <1>2, <1>6, <2>1 DEF Follows, Ahead, KeepsVerdict, KeepsWindow
<1> QED BY <1>3, <1>4, <1>5, <1>6

LEMMA NextStatus ==
  ASSUME Typed, CopiesWellFormed, CopiesFollow, Timely, [Next]_vars
  PROVE  StatusStep
<1>1. status \in Statuses /\ plan \in Plans /\ copy \in Copies /\ clock \in Time
  BY DEF Typed, TypeOK, ObjectTypes, ReconcileTypes, BoundTypes
<1>2. CASE UpdateStatus
  <2>1. CASE copyCurrent /\ Write(spec, plan.status)
    <3>1. pc = "update" /\ status' = plan.status
      BY <1>2, <2>1 DEF UpdateStatus, Write
    <3>2. copy.status = status
      BY <2>1, <3>1 DEF CopiesFollow
    <3>3. Follows(status, plan.status, plan.now) /\ plan.now <= clock
      BY <3>1, <3>2 DEF Timely, PlanFollows, NothingFromTheFuture
    <3>4. KeepsWindow(status, plan.status, clock)
      <4>1. plan.now \in Nat /\ clock \in Nat /\ status.verifyingSince \in Nat /\ SettleWindow \in Nat
        BY <1>1, ConfigAssumption DEF Plans, Statuses
      <4>2. plan.now >= status.verifyingSince + SettleWindow =>
              clock >= status.verifyingSince + SettleWindow
        BY <3>3, <4>1
      <4> QED BY <3>3, <4>2 DEF Follows, KeepsWindow
    <3> QED BY <3>1, <3>3, <3>4 DEF StatusStep, Follows
  <2>2. CASE UNCHANGED object
    BY <2>2 DEF StatusStep, object
  <2> QED BY <1>2, <2>1, <2>2 DEF UpdateStatus
<1>3. ASSUME \/ Observe \/ (\E p \in plan.todo : ReadPod(p)) \/ Decide
             \/ ConsumeApplied
             \/ (\E n \in plan.stale : DeleteStale(n) \/ DeletePod(n))
             \/ StartCheck \/ CreateConfigMap \/ ObserveDeleted
             \/ (\E n \in plan.cms : DeleteConfigMap(n))
             \/ EndDelete \/ RemoveFinalizer
      PROVE  status' = status
  BY <1>3 DEF Observe, ReadPod, Decide, ConsumeApplied, Write, DeleteStale, DeletePod, StartCheck,
     CreateConfigMap, ObserveDeleted, DeleteConfigMap, EndDelete, RemoveFinalizer, object
<1>4. CASE Kubelet \/ CallFails \/ Restart
  <2>1. CASE Kubelet
    BY <2>1 DEF StatusStep, Kubelet, PodStarts, ContainerExits, DeadlineStops, PodFails, PodGone,
       ByKubelet, object
  <2>2. CASE CallFails \/ Restart
    BY <2>2 DEF StatusStep, CallFails, Restart, object
  <2> QED BY <1>4, <2>1, <2>2
<1>5. CASE Environment
  <2>1. CASE (\E c \in cms : Collect(c)) \/ CacheSync \/ Tick
    BY <2>1 DEF StatusStep, Collect, CacheSync, Tick, object
  <2>2. CASE WriterStarts
    <3>1. status' = [status EXCEPT !.state = "Analyzing"] /\ status.state = ""
      BY <2>2 DEF WriterStarts, ByWriter, WriteByOther, Write
    <3> QED BY <1>1, <3>1 DEF StatusStep, Analyses, Statuses
  <2>3. ASSUME NEW fix \in Fixes \union {NoFix}, WriterFinishes(fix)
        PROVE  StatusStep
    <3>1. status' = [status EXCEPT !.state = "Open", !.howToFix = fix] /\ status.state = "Analyzing"
      BY <2>3 DEF WriterFinishes, ByWriter, WriteByOther, Write
    <3> QED BY <1>1, <3>1 DEF StatusStep, Analyses, Statuses
  <2>4. CASE WriterReanalyses
    <3>1. status' = status \/ /\ status.state \in {"Open", "Verifying"}
                              /\ status' = [NewStatus EXCEPT !.state = "Analyzing"]
      BY <2>4 DEF WriterReanalyses, ByWriter, WriteByOther, Write
    <3>2. status.state \in {"Open", "Verifying"} => status.resolution = "none"
      BY DEF CopiesWellFormed, WellFormed, ValidStatus, Ended
    <3> QED BY <3>1, <3>2 DEF StatusStep, Reanalyses, NewStatus
  <2> QED BY <1>5, <2>1, <2>2, <2>3, <2>4 DEF Environment
<1>6. CASE People
  <2>1. ASSUME NEW exit \in RunExits, NEW at \in 1..clock, ApplyRecorded(exit, at)
        PROVE  StatusStep
    <3>1. status' = RecordApply(status, exit, at)
      BY <2>1 DEF ApplyRecorded, Edit, WriteByOther, Write
    <3>2. exit \in Exits /\ at \in Time
      BY <1>1, BoundsAssumption
    <3> QED BY <1>1, <3>1, <3>2, RecordApplyStep DEF StatusStep
  <2>2. CASE HumanApplies \/ HumanCloses \/ HumanAsksReanalysis \/ HumanDeletes
    BY <2>2 DEF StatusStep, HumanApplies, HumanCloses, HumanAsksReanalysis, HumanDeletes, Edit,
       WriteByOther, Write
  <2> QED BY <1>6, <2>1, <2>2 DEF People
<1>7. CASE UNCHANGED vars
  BY <1>7 DEF vars, object, StatusStep
<1>8. CASE Reconcile
  BY <1>2, <1>3, <1>8 DEF Reconcile, StatusStep
<1> QED BY <1>4, <1>5, <1>6, <1>7, <1>8 DEF Next

(* Every step is a step of the lifecycle, or none: the states an incident  *)
(* goes through and its resolution are those IncidentLifecycle promises,   *)
(* however the writes of controller, writer and IncidentApply interleave.  *)
THEOREM LifecycleFollowed == Spec => FollowsLifecycle
<1>1. Init => Lifecycle!Init
  <2>1. NewStatus.state = "" /\ NewStatus.resolution = "none"
    BY DEF NewStatus
  <2> QED BY <2>1 DEF Init, Lifecycle!Init
<1>2. Typed /\ CopiesWellFormed /\ CopiesFollow /\ Timely /\ [Next]_vars =>
        [Lifecycle!Next]_(Lifecycle!vars)
  <2> SUFFICES ASSUME Typed, StatusStep
               PROVE  [Lifecycle!Next]_(Lifecycle!vars)
    BY NextStatus
  <2>1. status.state \in States
    BY DEF Typed, TypeOK, ObjectTypes, Statuses
  <2>2. CASE status' = status
    BY <2>2 DEF Lifecycle!vars
  <2>3. CASE Ahead(status, status')
    BY <2>1, <2>3 DEF Ahead, States, Lifecycle!vars, Lifecycle!Next, Lifecycle!Fixed,
       Lifecycle!FixFailed, Lifecycle!Resolved, Lifecycle!Closed, Lifecycle!Move, Lifecycle!End
  <2>4. CASE Analyses(status, status')
    BY <2>4 DEF Analyses, Lifecycle!Next, Lifecycle!Analyze, Lifecycle!Analyzed, Lifecycle!Move
  <2>5. CASE Reanalyses(status, status')
    BY <2>5 DEF Reanalyses, Lifecycle!Next, Lifecycle!Reanalyze, Lifecycle!Move
  <2> QED BY <2>2, <2>3, <2>4, <2>5 DEF StatusStep, Follows
<1> QED BY <1>1, <1>2, AlwaysTyped, AlwaysWellFormed, AlwaysFollow, AlwaysTimely, PTL
        DEF Spec, FollowsLifecycle, Lifecycle!Spec

(* The first verdict of the precondition stands until the next analysis,   *)
(* whatever is recorded, failed or was read from an old copy since.        *)
THEOREM VerdictStands == Spec => FirstVerdictStands
<1>1. Typed /\ CopiesWellFormed /\ CopiesFollow /\ Timely /\ [Next]_vars =>
        [ Reproduced(status) =>
            \/ status'.reproduced = status.reproduced
            \/ status'.state = "Analyzing" ]_vars
  BY NextStatus DEF StatusStep, Follows, KeepsVerdict, Analyses, Reanalyses
<1> QED BY <1>1, AlwaysTyped, AlwaysWellFormed, AlwaysFollow, AlwaysTimely, PTL
        DEF Spec, FirstVerdictStands

(* An incident goes back from Verifying to Open only after its settle      *)
(* window, whatever began or extended that window, and on an exit 1.       *)
THEOREM WindowIsHonoured == Spec => WindowHonoured
<1>1. Typed /\ CopiesWellFormed /\ CopiesFollow /\ Timely /\ [Next]_vars =>
        [ status.state = "Verifying" /\ status'.state = "Open" =>
            /\ clock >= status.verifyingSince + SettleWindow
            /\ status'.lastChecks["verify"].exit = 1 ]_vars
  BY NextStatus DEF StatusStep, Follows, KeepsWindow, Analyses, Reanalyses
<1> QED BY <1>1, AlwaysTyped, AlwaysWellFormed, AlwaysFollow, AlwaysTimely, PTL
        DEF Spec, WindowHonoured
-----------------------------------------------------------------------------
(* The check pods, while the informer's lists do not lag. *)
LEMMA NothingRecent ==
  ASSUME "list" \notin Lags
  PROVE  Recent = {}
BY DEF Recent

(* What every step but StartCheck does to the pods that stay: they go, or  *)
(* the kubelet replaces one under its name.                                *)
Kept ==
  /\ OneCheckAtATime => OneCheckAtATime'
  /\ \A q \in Staying' : \E p \in Staying : p.name = q.name

LEMMA FewerKept ==
  ASSUME \A q \in Staying' : q \in Staying
  PROVE  Kept
BY DEF Kept, OneCheckAtATime

LEMMA UnchangedKept == UNCHANGED pods => Kept
BY DEF Kept, OneCheckAtATime, Staying

LEMMA DeleteLeaves ==
  ASSUME ClusterTypes, NEW n \in Names, DeletePodNamed(n)
  PROVE  \A q \in Staying' : q \in Staying /\ q.name # n
<1>1. \A p \in pods : p \in Pods
  BY DEF ClusterTypes
<1>2. [NewPod(n, None) EXCEPT !.leaving = TRUE].leaving
  BY DEF NewPod
<1>3. \A q \in pods' : q.leaving \/ (q \in pods /\ q.name # n)
  <2>1. CASE pods' = MarkLeaving(n)
    BY <1>2, <2>1 DEF MarkLeaving
  <2>2. CASE pods' = {p \in pods : p.name # n}
    BY <2>2
  <2> QED BY <2>1, <2>2 DEF DeletePodNamed
<1> QED BY <1>3 DEF Staying

LEMMA DeleteKept ==
  ASSUME ClusterTypes, NEW n \in Names, DeletePodNamed(n)
  PROVE  Kept /\ \A q \in Staying' : q.name # n
BY DeleteLeaves, FewerKept

LEMMA KubeletKept ==
  ASSUME Typed, Kubelet
  PROVE  Kept
<1>1. PICK p \in pods :
        \/ \E c \in cms : PodStarts(p, c)
        \/ \E code \in ExitCodes : ContainerExits(p, code)
        \/ DeadlineStops(p)
        \/ \E start \in {None} \union p.created..clock : PodFails(p, start)
        \/ PodGone(p)
  BY DEF Kubelet
<1>2. p \in Pods
  BY DEF Typed, TypeOK, ClusterTypes
<1>3. ASSUME NEW q, Replace(p, q), q.name = p.name, ~p.leaving
      PROVE  Kept
  <2>1. p \in Staying
    BY <1>3 DEF Staying
  <2>2. \A x \in Staying' : (x \in Staying /\ x # p) \/ x = q
    BY <1>3 DEF Staying, Replace
  <2>3. OneCheckAtATime => OneCheckAtATime'
    BY <2>1, <2>2 DEF OneCheckAtATime
  <2> QED BY <1>3, <2>1, <2>2, <2>3 DEF Kept
<1>4. ASSUME NEW c \in cms, PodStarts(p, c)
      PROVE  Kept
  <2>1. StartedPod(p, c.body, clock).name = p.name
    BY <1>2 DEF StartedPod, Pods
  <2> QED BY <1>3, <1>4, <2>1 DEF PodStarts, MayStart
<1>5. ASSUME NEW code \in ExitCodes, ContainerExits(p, code)
      PROVE  Kept
  <2>1. ExitedPod(p, code, clock).name = p.name
    BY <1>2 DEF ExitedPod, Pods
  <2> QED BY <1>3, <1>5, <2>1 DEF ContainerExits, MayExit
<1>6. CASE DeadlineStops(p)
  <2>1. StoppedPod(p, clock).name = p.name
    BY <1>2 DEF StoppedPod, ExitedPod, Pods
  <2> QED BY <1>3, <1>6, <2>1 DEF DeadlineStops, MayStop, MayExit
<1>7. ASSUME NEW start \in {None} \union p.created..clock, PodFails(p, start)
      PROVE  Kept
  <2>1. FailedPod(p, start).name = p.name
    BY <1>2 DEF FailedPod, Pods
  <2> QED BY <1>3, <1>7, <2>1 DEF PodFails, MayFail
<1>8. CASE PodGone(p)
  BY <1>8, FewerKept DEF PodGone, Staying
<1> QED BY <1>1, <1>4, <1>5, <1>6, <1>7, <1>8

LEMMA ContinueSplit ==
  ASSUME NEW p, NEW c, Continue(p, c) \/ EndReconcile
  PROVE  pc' = "idle" \/ (pc' = "update" /\ plan' = p)
<1>1. CASE EndReconcile
  BY <1>1 DEF EndReconcile
<1>2. CASE ~EndReconcile
  BY <1>2 DEF Continue
<1> QED BY <1>1, <1>2

(* A step that leaves the plan of an Update alone, or drops it, keeps what *)
(* is known of the pods.                                                   *)
LEMMA KeptKnown ==
  ASSUME ChecksKnown, Kept, pc' # "observe",
         pc' = "update" => pc = "update" /\ plan'.stale = plan.stale /\ (plan'.due => plan.due)
  PROVE  ChecksKnown'
BY DEF ChecksKnown, Kept

LEMMA ReconcileKnown ==
  ASSUME "list" \notin Lags, Typed, ChecksKnown, Reconcile
  PROVE  ChecksKnown'
<1>1. plan \in Plans /\ ClusterTypes
  BY DEF Typed, TypeOK, ReconcileTypes
<1>2. CASE Observe
  <2>1. plan'.todo = Staying /\ pc' = "observe" /\ UNCHANGED pods
    BY <1>2, NothingRecent DEF Observe, NoPlan, Staying, cluster
  <2> QED BY <2>1 DEF ChecksKnown, OneCheckAtATime, Staying
<1>3. ASSUME NEW p \in plan.todo, ReadPod(p)
      PROVE  ChecksKnown'
  <2>1. /\ pc = "observe" /\ UNCHANGED <<pc, pods>>
        /\ plan'.todo = plan.todo \ {p} /\ plan.stale \subseteq plan'.stale
        /\ plan.live => plan'.live
        /\ p.name \in plan'.stale \/ plan'.live
    BY <1>1, <1>3 DEF ReadPod, Plans, cluster
  <2> QED BY <2>1 DEF ChecksKnown, OneCheckAtATime, Staying
<1>4. CASE Decide
  <2> DEFINE decided == [plan EXCEPT !.dirty = plan.consume \/ plan.status # copy.status,
                                     !.due = ~plan.live /\ CheckDue(plan.status, lastRun, plan.now),
                                     !.from = CheckFrom(plan.status, lastRun)]
  <2>1. /\ decided.stale = plan.stale /\ (decided.due => ~plan.live) /\ plan.todo = {}
        /\ pc = "observe" /\ Continue(decided, copy) /\ UNCHANGED pods
    BY <1>1, <1>4 DEF Plans, Decide, cluster
  <2> HIDE DEF decided
  <2>2. pc' = "idle" \/ (pc' = "update" /\ plan' = decided)
    BY <2>1, ContinueSplit
  <2> QED BY <2>1, <2>2 DEF ChecksKnown, OneCheckAtATime, Staying
<1>5. CASE UpdateStatus
  <2> DEFINE left == [plan EXCEPT !.dirty = FALSE]
             written == [copy EXCEPT !.status = plan.status]
  <2>1. /\ left.stale = plan.stale /\ left.due = plan.due /\ pc = "update" /\ UNCHANGED pods
        /\ Continue(left, written) \/ EndReconcile
    BY <1>1, <1>5 DEF UpdateStatus, Plans, cluster
  <2> HIDE DEF left, written
  <2>2. pc' = "idle" \/ (pc' = "update" /\ plan' = left)
    BY <2>1, ContinueSplit
  <2> QED BY <2>1, <2>2, UnchangedKept, KeptKnown
<1>6. CASE ConsumeApplied
  <2> DEFINE left == [plan EXCEPT !.consume = FALSE]
             written == [copy EXCEPT !.spec = [copy.spec EXCEPT !.applied = FALSE]]
  <2>1. /\ left.stale = plan.stale /\ left.due = plan.due /\ pc = "update" /\ UNCHANGED pods
        /\ Continue(left, written) \/ EndReconcile
    BY <1>1, <1>6 DEF ConsumeApplied, Plans, cluster
  <2> HIDE DEF left, written
  <2>2. pc' = "idle" \/ (pc' = "update" /\ plan' = left)
    BY <2>1, ContinueSplit
  <2> QED BY <2>1, <2>2, UnchangedKept, KeptKnown
<1>7. ASSUME NEW n \in plan.stale, DeleteStale(n)
      PROVE  ChecksKnown'
  <2> DEFINE left == [plan EXCEPT !.stale = @ \ {n}]
  <2>1. /\ left.stale = plan.stale \ {n} /\ left.due = plan.due /\ pc = "update"
        /\ Continue(left, copy)
    BY <1>1, <1>7 DEF DeleteStale, Plans
  <2> HIDE DEF left
  <2>2. Kept /\ \A q \in Staying' : q.name # n
    BY <1>1, <1>7, DeleteKept DEF DeleteStale, Plans
  <2>3. pc' = "idle" \/ (pc' = "update" /\ plan' = left)
    BY <2>1, ContinueSplit
  <2> QED BY <2>1, <2>2, <2>3 DEF ChecksKnown, Kept
<1>8. CASE StartCheck
  <2>1. Staying = {} /\ pc' = "configmap"
    BY <1>8 DEF StartCheck, ChecksKnown
  <2>2. \A q \in Staying' : q = NewPod(PlannedName, clock)
    BY <1>8, <2>1 DEF StartCheck, Staying
  <2> QED BY <2>1, <2>2 DEF ChecksKnown, OneCheckAtATime
<1>9. ASSUME NEW n \in plan.stale, DeletePod(n)
      PROVE  ChecksKnown'
  <2>1. Kept /\ pc' = "delete"
    BY <1>1, <1>9, DeleteKept DEF DeletePod, Plans
  <2> QED BY <2>1, KeptKnown
<1>10. CASE \/ CreateConfigMap \/ ObserveDeleted \/ EndDelete \/ RemoveFinalizer
            \/ \E n \in plan.cms : DeleteConfigMap(n)
  <2>1. UNCHANGED pods /\ pc' \in {"idle", "delete", "finalize"}
    BY <1>10 DEF CreateConfigMap, ObserveDeleted, EndDelete, RemoveFinalizer, DeleteConfigMap,
       EndReconcile, cluster
  <2> QED BY <2>1, UnchangedKept, KeptKnown
<1> QED BY <1>2, <1>3, <1>4, <1>5, <1>6, <1>7, <1>8, <1>9, <1>10 DEF Reconcile

(* Nobody else touches the plan, or the controller's place in it. *)
LEMMA OthersLeaveReconcile ==
  ASSUME Kubelet \/ Environment \/ People \/ CallFails \/ Restart
  PROVE  /\ UNCHANGED <<pc, plan>> \/ EndReconcile
         /\ UNCHANGED exists
         /\ Kubelet \/ (UNCHANGED pods /\ \A c \in cms' : c \in cms)
<1>1. CASE Kubelet
  BY <1>1 DEF Kubelet, PodStarts, ContainerExits, DeadlineStops, PodFails, PodGone, ByKubelet,
     object, worker
<1>2. CASE (\E c \in cms : Collect(c)) \/ CacheSync \/ Tick
  BY <1>2 DEF Collect, CacheSync, Tick, object, worker, cluster
<1>3. ASSUME NEW sp, NEW st, WriteByOther(sp, st)
      PROVE  UNCHANGED <<pc, plan, exists, pods, cms>>
  BY <1>3 DEF WriteByOther, Write, cluster
<1>4. CASE WriterStarts \/ (\E fix \in Fixes \union {NoFix} : WriterFinishes(fix)) \/ WriterReanalyses
  BY <1>3, <1>4 DEF WriterStarts, WriterFinishes, WriterReanalyses, ByWriter
<1>5. CASE People
  BY <1>3, <1>5 DEF People, HumanApplies, HumanCloses, HumanAsksReanalysis, HumanDeletes,
     ApplyRecorded, Edit
<1>6. CASE CallFails \/ Restart
  BY <1>6 DEF CallFails, Restart, object, cluster
<1> QED BY <1>1, <1>2, <1>4, <1>5, <1>6 DEF Environment

LEMMA NextKnown ==
  ASSUME "list" \notin Lags, Typed, ChecksKnown, [Next]_vars
  PROVE  ChecksKnown'
<1>1. CASE pc # "observe" /\ (Kubelet \/ Environment \/ People \/ CallFails \/ Restart)
  <2>1. Kept
    BY <1>1, KubeletKept, UnchangedKept, OthersLeaveReconcile
  <2>2. UNCHANGED <<pc, plan>> \/ pc' = "idle"
    BY <1>1, OthersLeaveReconcile DEF EndReconcile
  <2> QED BY <1>1, <2>1, <2>2, KeptKnown
<1>2. CASE UNCHANGED vars
  BY <1>2 DEF vars, worker, cluster, ChecksKnown, OneCheckAtATime, Staying
<1> QED BY <1>1, <1>2, ReconcileKnown DEF Next

(* While the lists do not lag, at most one check pod of the incident is    *)
(* not being deleted: what keeps a check from starting beside another is   *)
(* the plan, whatever failed or was restarted since.                       *)
THEOREM OneCheck ==
  ASSUME "list" \notin Lags
  PROVE  Spec => []OneCheckAtATime
<1>1. Init => ChecksKnown
  BY DEF Init, ChecksKnown, OneCheckAtATime, Staying
<1>2. Typed /\ ChecksKnown /\ [Next]_vars => ChecksKnown'
  BY NextKnown
<1>3. ChecksKnown => OneCheckAtATime
  BY DEF ChecksKnown
<1> QED BY <1>1, <1>2, <1>3, AlwaysTyped, PTL DEF Spec

-----------------------------------------------------------------------------
(* The finalizer. *)
LEMMA ReconcileLeavesNothing ==
  ASSUME "list" \notin Lags, Typed, NothingLeft, Reconcile
  PROVE  NothingLeft'
<1>1. CASE ObserveDeleted
  <2>1. /\ exists /\ UNCHANGED <<exists, pods, cms>>
        /\ plan'.stale = {p.name : p \in pods} /\ plan'.cms = {c.name : c \in cms}
        /\ pc' = IF plan'.stale = {} /\ plan'.cms = {} THEN "finalize" ELSE "delete"
    BY <1>1, NothingRecent DEF ObserveDeleted, NoPlan, object, cluster
  <2>2. pc' = "finalize" => pods = {} /\ cms = {}
    BY <2>1
  <2> QED BY <2>1, <2>2 DEF NothingLeft
<1>2. CASE RemoveFinalizer
  BY <1>2 DEF RemoveFinalizer, NothingLeft, EndReconcile, cluster
<1>3. CASE \/ Observe \/ (\E p \in plan.todo : ReadPod(p)) \/ Decide
           \/ UpdateStatus \/ ConsumeApplied
           \/ (\E n \in plan.stale : DeleteStale(n) \/ DeletePod(n))
           \/ StartCheck \/ CreateConfigMap
           \/ (\E n \in plan.cms : DeleteConfigMap(n)) \/ EndDelete
  <2>1. exists
    BY <1>3 DEF NothingLeft, Observe, ReadPod, Decide, UpdateStatus, ConsumeApplied, DeleteStale,
       DeletePod, StartCheck, CreateConfigMap, DeleteConfigMap, EndDelete
  <2>2. UNCHANGED exists /\ pc' # "finalize"
    BY <1>3 DEF Observe, ReadPod, Decide, UpdateStatus, ConsumeApplied, DeleteStale, DeletePod,
       StartCheck, CreateConfigMap, DeleteConfigMap, EndDelete, Continue, EndReconcile, Write, object
  <2> QED BY <2>1, <2>2 DEF NothingLeft
<1> QED BY <1>1, <1>2, <1>3 DEF Reconcile

LEMMA NextLeavesNothing ==
  ASSUME "list" \notin Lags, Typed, NothingLeft, [Next]_vars
  PROVE  NothingLeft'
<1>1. CASE Kubelet \/ Environment \/ People \/ CallFails \/ Restart
  <2>1. (UNCHANGED pc \/ pc' = "idle") /\ UNCHANGED exists
    BY <1>1, OthersLeaveReconcile DEF EndReconcile
  <2>2. pods = {} => ~Kubelet
    BY DEF Kubelet
  <2>3. pods = {} /\ cms = {} => pods' = {} /\ cms' = {}
    BY <1>1, <2>2, OthersLeaveReconcile
  <2> QED BY <2>1, <2>3 DEF NothingLeft
<1>2. CASE UNCHANGED vars
  BY <1>2 DEF vars, object, worker, cluster, NothingLeft
<1> QED BY <1>1, <1>2, ReconcileLeavesNothing DEF Next

(* While the lists do not lag, the finalizer holds an Incident until no    *)
(* check pod and no ConfigMap of it is left.                               *)
THEOREM NothingOutlives ==
  ASSUME "list" \notin Lags
  PROVE  Spec => []NothingOutlivesTheIncident
<1>1. Init => NothingLeft
  BY DEF Init, NothingLeft
<1>2. Typed /\ NothingLeft /\ [Next]_vars => NothingLeft'
  BY NextLeavesNothing
<1>3. NothingLeft => NothingOutlivesTheIncident
  BY DEF NothingLeft, NothingOutlivesTheIncident
<1> QED BY <1>1, <1>2, <1>3, AlwaysTyped, PTL DEF Spec

-----------------------------------------------------------------------------
(* What a plan has recorded: the result of a pod it deletes, and the apply *)
(* it consumes.                                                            *)

(* Recording a run leaves the apply entry alone, and the entry of its own  *)
(* script as it says, unless the incident moves on to another script.      *)
LEMMA RecordEntries ==
  ASSUME NEW st \in Statuses, WellFormed(st),
         NEW r \in Results, r.script = CurrentScript(st)
  PROVE  LET new == Record(st, r) IN
         /\ new.lastChecks["apply"] = st.lastChecks["apply"]
         /\ r.script = CurrentScript(new) => new.lastChecks[r.script].exit = r.exit
<1> DEFINE noted == SetLastCheck(st, r.script, r.exit, r.at)
           new == Record(st, r)
<1>1. /\ noted \in Statuses /\ noted.state = st.state
      /\ noted.verifyingSince = st.verifyingSince
      /\ noted.lastChecks["apply"] = st.lastChecks["apply"]
      /\ noted.lastChecks[r.script].exit = r.exit
  <2>1. noted \in Statuses
    BY CheckTypes DEF Results, Checked, Scripts
  <2>2. r.script \in Scripts /\ r.script # "apply" /\ "apply" \in Scripts
    BY DEF Results, Checked, Scripts
  <2> QED BY <2>1, <2>2 DEF SetLastCheck, Statuses
<1> HIDE DEF noted
<1>2. /\ r.script = "precondition" => st.state = "Open"
      /\ r.script = "verify" => st.state = "Verifying"
      /\ r.script \in {"precondition", "verify"}
  BY DEF CurrentScript, Results, Checked
<1>3. ASSUME NEW to, NEW at, to # st.state, NEW t, t.state = to,
             t.lastChecks = SetState(noted, to, at).lastChecks
      PROVE  /\ t.lastChecks["apply"] = st.lastChecks["apply"]
             /\ r.script # CurrentScript(t)
  <2>1. SetState(noted, to, at).lastChecks["apply"] = noted.lastChecks["apply"]
    BY <1>1 DEF SetState, EnterVerifying, ClearLastCheck, Statuses, Scripts
  <2>2. /\ CurrentScript(t) = "precondition" => t.state = "Open"
        /\ CurrentScript(t) = "verify" => t.state = "Verifying"
    BY DEF CurrentScript
  <2>3. r.script # CurrentScript(t)
    BY <1>2, <1>3, <2>2
  <2> QED BY <1>1, <1>3, <2>1, <2>3
<1>4. CASE ~Known(r.exit)
  BY <1>1, <1>4 DEF Record, noted
<1>5. CASE Known(r.exit) /\ r.script = "precondition"
  <2>1. new = RecordPrecondition(noted, r)
    BY <1>5 DEF Record, noted
  <2>2. CASE Reproduced(noted) /\ r.exit = 0
    <3>1. new = SetState(noted, "Verifying", r.at)
      BY <2>1, <2>2 DEF RecordPrecondition
    <3>2. new.state = "Verifying"
      BY <1>1, <3>1 DEF SetState, EnterVerifying, ClearLastCheck, Statuses
    <3> QED BY <1>2, <1>3, <1>5, <3>1, <3>2
  <2>3. CASE ~(Reproduced(noted) /\ r.exit = 0)
    <3>1. new.lastChecks = noted.lastChecks
      BY <1>1, <2>1, <2>3 DEF RecordPrecondition, Statuses
    <3> QED BY <1>1, <3>1
  <2> QED BY <2>2, <2>3
<1>6. CASE Known(r.exit) /\ r.script = "verify"
  <2>1. new = RecordVerify(noted, r)
    BY <1>6 DEF Record, noted
  <2>2. noted.verifyingSince # None
    BY <1>1, <1>2, <1>6 DEF WellFormed
  <2>3. CASE r.exit = 0
    <3>1. new = [SetState(noted, "Resolved", r.at) EXCEPT !.resolution = "verify"]
      BY <2>1, <2>3 DEF RecordVerify, Resolve
    <3>2. new.state = "Resolved" /\ new.lastChecks = SetState(noted, "Resolved", r.at).lastChecks
      BY <1>1, <3>1 DEF SetState, Statuses
    <3> QED BY <1>2, <1>3, <1>6, <3>2
  <2>4. CASE r.exit = 1 /\ r.at - noted.verifyingSince >= SettleWindow
    <3>1. new = SetState(noted, "Open", r.at)
      BY <2>1, <2>2, <2>4 DEF RecordVerify
    <3>2. new.state = "Open"
      BY <1>1, <3>1 DEF SetState, ClearLastCheck, Statuses
    <3> QED BY <1>2, <1>3, <1>6, <3>1, <3>2
  <2>5. CASE r.exit # 0 /\ ~(r.exit = 1 /\ r.at - noted.verifyingSince >= SettleWindow)
    <3>1. new = noted
      BY <2>1, <2>2, <2>5 DEF RecordVerify
    <3> QED BY <1>1, <3>1
  <2> QED BY <2>3, <2>4, <2>5
<1> QED BY <1>2, <1>4, <1>5, <1>6

(* The steps of an Update leave what it deletes, consumes and has written. *)
UpdateKept ==
  /\ pc = "update" /\ plan'.status = plan.status /\ plan'.now = plan.now
  /\ plan'.stale \subseteq plan.stale /\ (plan'.consume => plan.consume)
  /\ \/ ~plan'.dirty /\ copy'.status = plan.status
     \/ plan'.dirty = plan.dirty /\ copy'.status = copy.status

Decided ==
  [plan EXCEPT !.dirty = plan.consume \/ plan.status # copy.status,
               !.due = ~plan.live /\ CheckDue(plan.status, lastRun, plan.now),
               !.from = CheckFrom(plan.status, lastRun)]

LEMMA ContinueCopy ==
  ASSUME NEW p, NEW c, Continue(p, c) \/ EndReconcile
  PROVE  pc' = "idle" \/ (pc' = "update" /\ plan' = p /\ copy' = c)
<1>1. CASE EndReconcile
  BY <1>1 DEF EndReconcile
<1>2. CASE ~EndReconcile
  BY <1>2 DEF Continue
<1> QED BY <1>1, <1>2

LEMMA ReconcilePlans ==
  ASSUME Typed, Reconcile
  PROVE  \/ pc' \notin {"observe", "update"}
         \/ Observe
         \/ \E p \in plan.todo : ReadPod(p)
         \/ pc = "observe" /\ plan' = Decided /\ copy' = copy /\ pc' = "update" /\ UNCHANGED pods
         \/ UpdateKept /\ pc' = "update"
<1>1. plan \in Plans /\ copy \in Copies
  BY DEF Typed, TypeOK, ReconcileTypes
<1>2. CASE Decide
  <2>1. pc = "observe" /\ Continue(Decided, copy) /\ UNCHANGED pods
    BY <1>2 DEF Decide, Decided, cluster
  <2> QED BY <2>1, ContinueCopy
<1>3. CASE UpdateStatus
  <2> DEFINE left == [plan EXCEPT !.dirty = FALSE]
             written == [copy EXCEPT !.status = plan.status]
  <2>1. /\ left.status = plan.status /\ left.now = plan.now /\ left.stale = plan.stale
        /\ left.consume = plan.consume /\ ~left.dirty /\ written.status = plan.status
    BY <1>1 DEF Plans, Copies
  <2>2. pc = "update" /\ (Continue(left, written) \/ EndReconcile)
    BY <1>3 DEF UpdateStatus
  <2> HIDE DEF left, written
  <2> QED BY <2>1, <2>2, ContinueCopy DEF UpdateKept
<1>4. CASE ConsumeApplied
  <2> DEFINE left == [plan EXCEPT !.consume = FALSE]
             written == [copy EXCEPT !.spec = [copy.spec EXCEPT !.applied = FALSE]]
  <2>1. /\ left.status = plan.status /\ left.now = plan.now /\ left.stale = plan.stale
        /\ ~left.consume /\ left.dirty = plan.dirty /\ written.status = copy.status
    BY <1>1 DEF Plans, Copies
  <2>2. pc = "update" /\ (Continue(left, written) \/ EndReconcile)
    BY <1>4 DEF ConsumeApplied
  <2> HIDE DEF left, written
  <2> QED BY <2>1, <2>2, ContinueCopy DEF UpdateKept
<1>5. ASSUME NEW n \in plan.stale, DeleteStale(n)
      PROVE  pc' = "idle" \/ (UpdateKept /\ pc' = "update")
  <2> DEFINE left == [plan EXCEPT !.stale = @ \ {n}]
  <2>1. /\ left.status = plan.status /\ left.now = plan.now /\ left.stale \subseteq plan.stale
        /\ left.consume = plan.consume /\ left.dirty = plan.dirty
    BY <1>1 DEF Plans
  <2>2. pc = "update" /\ Continue(left, copy)
    BY <1>5 DEF DeleteStale
  <2> HIDE DEF left
  <2> QED BY <2>1, <2>2, ContinueCopy DEF UpdateKept
<1>6. CASE \/ StartCheck \/ CreateConfigMap \/ ObserveDeleted \/ EndDelete \/ RemoveFinalizer
           \/ (\E n \in plan.stale : DeletePod(n)) \/ (\E n \in plan.cms : DeleteConfigMap(n))
  BY <1>6 DEF StartCheck, CreateConfigMap, ObserveDeleted, EndDelete, RemoveFinalizer, DeletePod,
     DeleteConfigMap, EndReconcile
<1> QED BY <1>2, <1>3, <1>4, <1>5, <1>6 DEF Reconcile

(* Nobody else touches what the controller holds. *)
LEMMA OthersLeaveCopy ==
  ASSUME Kubelet \/ Environment \/ People \/ CallFails \/ Restart
  PROVE  UNCHANGED <<pc, plan, copy>> \/ pc' = "idle"
<1>1. CASE Kubelet
  BY <1>1 DEF Kubelet, PodStarts, ContainerExits, DeadlineStops, PodFails, PodGone, ByKubelet, worker
<1>2. CASE (\E c \in cms : Collect(c)) \/ CacheSync \/ Tick
  BY <1>2 DEF Collect, CacheSync, Tick, worker
<1>3. ASSUME NEW sp, NEW st, WriteByOther(sp, st)
      PROVE  UNCHANGED <<pc, plan, copy>>
  BY <1>3 DEF WriteByOther
<1>4. CASE WriterStarts \/ (\E fix \in Fixes \union {NoFix} : WriterFinishes(fix)) \/ WriterReanalyses
  BY <1>3, <1>4 DEF WriterStarts, WriterFinishes, WriterReanalyses, ByWriter
<1>5. CASE People
  BY <1>3, <1>5 DEF People, HumanApplies, HumanCloses, HumanAsksReanalysis, HumanDeletes,
     ApplyRecorded, Edit
<1>6. CASE CallFails \/ Restart
  BY <1>6 DEF CallFails, Restart, EndReconcile
<1> QED BY <1>1, <1>2, <1>4, <1>5, <1>6 DEF Environment

(* The status a plan goes on with, once its own is written, is that one.   *)
LEMMA AlwaysWritten == Spec => []PlanWritten
<1>1. Init => PlanWritten
  BY DEF Init, PlanWritten
<1>2. Typed /\ PlanWritten /\ [Next]_vars => PlanWritten'
  <2> SUFFICES ASSUME Typed, PlanWritten, [Next]_vars
               PROVE  PlanWritten'
    OBVIOUS
  <2>1. CASE Reconcile
    <3>1. CASE Observe \/ (\E p \in plan.todo : ReadPod(p))
      BY <3>1 DEF Observe, ReadPod, PlanWritten
    <3>2. CASE pc = "observe" /\ plan' = Decided /\ copy' = copy
      <4>1. plan \in Plans
        BY DEF Typed, TypeOK, ReconcileTypes
      <4>2. ~plan'.dirty => plan'.status = copy.status
        BY <3>2, <4>1 DEF Decided, Plans
      <4> QED BY <3>2, <4>2 DEF PlanWritten
    <3>3. CASE UpdateKept
      BY <3>3 DEF UpdateKept, PlanWritten
    <3> QED BY <2>1, <3>1, <3>2, <3>3, ReconcilePlans DEF PlanWritten
  <2>2. CASE Kubelet \/ Environment \/ People \/ CallFails \/ Restart
    BY <2>2, OthersLeaveCopy DEF PlanWritten
  <2>3. CASE UNCHANGED vars
    BY <2>3 DEF vars, worker, PlanWritten
  <2> QED BY <2>1, <2>2, <2>3 DEF Next
<1> QED BY <1>1, <1>2, AlwaysTyped, PTL DEF Spec

-----------------------------------------------------------------------------
(* The results of the pods a plan deletes. *)

(* A staying pod after a step of the kubelet stayed before, or replaces    *)
(* one under its name that had not ended.                                  *)
LEMMA KubeletPods ==
  ASSUME Typed, Kubelet, NEW q \in Staying'
  PROVE  \/ q \in Staying
         \/ \E p \in Staying : q.name = p.name /\ q.created = p.created /\ p.phase # "Ended"
<1>1. PICK p \in pods :
        \/ \E c \in cms : PodStarts(p, c)
        \/ \E code \in ExitCodes : ContainerExits(p, code)
        \/ DeadlineStops(p)
        \/ \E start \in {None} \union p.created..clock : PodFails(p, start)
        \/ PodGone(p)
  BY DEF Kubelet
<1>2. p \in Pods
  BY DEF Typed, TypeOK, ClusterTypes
<1>3. ASSUME NEW new, Replace(p, new), new.name = p.name, new.created = p.created,
             ~p.leaving, p.phase # "Ended"
      PROVE  \/ q \in Staying
             \/ \E x \in Staying : q.name = x.name /\ q.created = x.created /\ x.phase # "Ended"
  <2>1. p \in Staying
    BY <1>3 DEF Staying
  <2>2. q \in Staying \/ q = new
    BY <1>3 DEF Staying, Replace
  <2> QED BY <1>3, <2>1, <2>2
<1>4. ASSUME NEW c \in cms, PodStarts(p, c)
      PROVE  \/ q \in Staying
             \/ \E x \in Staying : q.name = x.name /\ q.created = x.created /\ x.phase # "Ended"
  <2>1. /\ StartedPod(p, c.body, clock).name = p.name
        /\ StartedPod(p, c.body, clock).created = p.created
    BY <1>2 DEF StartedPod, Pods
  <2> QED BY <1>3, <1>4, <2>1 DEF PodStarts, MayStart
<1>5. ASSUME NEW code \in ExitCodes, ContainerExits(p, code)
      PROVE  \/ q \in Staying
             \/ \E x \in Staying : q.name = x.name /\ q.created = x.created /\ x.phase # "Ended"
  <2>1. /\ ExitedPod(p, code, clock).name = p.name
        /\ ExitedPod(p, code, clock).created = p.created
    BY <1>2 DEF ExitedPod, Pods
  <2> QED BY <1>3, <1>5, <2>1 DEF ContainerExits, MayExit
<1>6. CASE DeadlineStops(p)
  <2>1. StoppedPod(p, clock).name = p.name /\ StoppedPod(p, clock).created = p.created
    BY <1>2 DEF StoppedPod, ExitedPod, Pods
  <2> QED BY <1>3, <1>6, <2>1 DEF DeadlineStops, MayStop, MayExit
<1>7. ASSUME NEW start \in {None} \union p.created..clock, PodFails(p, start)
      PROVE  \/ q \in Staying
             \/ \E x \in Staying : q.name = x.name /\ q.created = x.created /\ x.phase # "Ended"
  <2>1. FailedPod(p, start).name = p.name /\ FailedPod(p, start).created = p.created
    BY <1>2 DEF FailedPod, Pods
  <2> QED BY <1>3, <1>7, <2>1 DEF PodFails, MayFail
<1>8. CASE PodGone(p)
  BY <1>8 DEF PodGone, Staying
<1> QED BY <1>1, <1>4, <1>5, <1>6, <1>7, <1>8

(* One turn of Observe's loop, when one pod stays. *)
LEMMA ReadPodResults ==
  ASSUME Typed, CopiesWellFormed, OneCheckAtATime, ResultsRead, NEW p \in plan.todo, ReadPod(p)
  PROVE  ResultsRead'
<1> DEFINE r == ResultOf(p)
           current == r.script = CurrentScript(plan.status)
           finished == Finished(p, CheckTimeout, plan.now)
<1>1. plan \in Plans /\ p \in Pods /\ pc = "observe" /\ WellFormed(plan.status)
  BY DEF Typed, TypeOK, ReconcileTypes, Plans, ReadPod, CopiesWellFormed
<1>2. plan.todo = {p} /\ Staying = {p} /\ ~plan.live /\ plan.stale = {}
  BY <1>1 DEF ResultsRead, OneCheckAtATime
<1>3. r \in Results /\ r.exit = ExitOf(p) /\ r.script = ScriptOf(p)
  BY <1>1, ResultType DEF ResultOf
<1>4. Staying' = Staying /\ pc' = "observe" /\ plan'.todo = {} /\ plan'.now = plan.now
  BY <1>1, <1>2 DEF ReadPod, Plans, Staying, cluster
<1>5. CASE ~finished /\ current
  <2>1. plan' = [[plan EXCEPT !.todo = @ \ {p}] EXCEPT !.live = TRUE]
    BY <1>2, <1>5 DEF ReadPod
  <2>2. plan'.stale = {}
    BY <1>1, <1>2, <2>1 DEF Plans
  <2> QED BY <1>4, <2>2 DEF ResultsRead
<1>6. CASE ~(~finished /\ current)
  <2>1. plan'.status = IF finished /\ current THEN Record(plan.status, r) ELSE plan.status
    BY <1>1, <1>2, <1>6 DEF ReadPod, Plans
  <2>2. ASSUME plan.now < Overdue(p, CheckTimeout), ScriptOf(p) = CurrentScript(plan'.status)
        PROVE  p.phase = "Ended" /\ plan'.status.lastChecks[ScriptOf(p)].exit = ExitOf(p)
    <3>1. current
      BY <1>3, <2>1, <2>2
    <3>2. finished
      BY <1>6, <3>1
    <3>3. plan'.status = Record(plan.status, r)
      BY <2>1, <3>1, <3>2
    <3>4. plan'.status.lastChecks[r.script].exit = r.exit
      BY <1>1, <1>3, <2>2, <3>1, <3>3, RecordEntries DEF Plans
    <3>5. p.phase = "Ended"
      <4>1. plan.now \in Nat /\ Overdue(p, CheckTimeout) \in Nat
        BY <1>1, ConfigAssumption DEF Plans, Pods, Overdue
      <4> QED BY <2>2, <3>2, <4>1 DEF Finished
    <3> QED BY <1>3, <3>4, <3>5
  <2> QED BY <1>2, <1>4, <2>2 DEF ResultsRead
<1> QED BY <1>5, <1>6

LEMMA NextResults ==
  ASSUME "list" \notin Lags, Typed, CopiesWellFormed, OneCheckAtATime, ResultsRead, [Next]_vars
  PROVE  ResultsRead'
<1>1. plan \in Plans /\ ClusterTypes
  BY DEF Typed, TypeOK, ReconcileTypes
<1>2. CASE Observe
  <2>1. /\ plan'.todo = Staying /\ plan'.stale = {} /\ ~plan'.live /\ UNCHANGED pods
        /\ pc' = "observe"
    BY <1>2, NothingRecent DEF Observe, NoPlan, Staying, cluster
  <2> QED BY <2>1 DEF ResultsRead, Staying
<1>3. ASSUME pc' = "update", pc \in {"observe", "update"},
             plan'.status = plan.status, plan'.now = plan.now, plan'.stale \subseteq plan.stale,
             \A q \in Staying' :
               \/ q \in Staying
               \/ \E p \in Staying : q.name = p.name /\ q.created = p.created /\ p.phase # "Ended"
      PROVE  ResultsRead'
  BY <1>3 DEF ResultsRead, Overdue, ScriptOf
<1>4. CASE pc = "observe" /\ plan' = Decided /\ copy' = copy /\ pc' = "update" /\ UNCHANGED pods
  <2>1. plan'.status = plan.status /\ plan'.now = plan.now /\ plan'.stale = plan.stale
    BY <1>1, <1>4 DEF Decided, Plans
  <2> QED BY <1>3, <1>4, <2>1 DEF Staying
<1>5. CASE Reconcile /\ UpdateKept /\ pc' = "update"
  <2>1. \A q \in Staying' : q \in Staying
    <3>1. CASE UpdateStatus \/ ConsumeApplied
      BY <3>1 DEF UpdateStatus, ConsumeApplied, cluster, Staying
    <3>2. ASSUME NEW n \in plan.stale, DeleteStale(n)
          PROVE  \A q \in Staying' : q \in Staying
      BY <1>1, <3>2, DeleteLeaves DEF DeleteStale, Plans
    <3>3. CASE \/ Observe \/ (\E p \in plan.todo : ReadPod(p)) \/ Decide \/ StartCheck
               \/ CreateConfigMap \/ ObserveDeleted \/ EndDelete \/ RemoveFinalizer
               \/ (\E n \in plan.stale : DeletePod(n)) \/ (\E n \in plan.cms : DeleteConfigMap(n))
      BY <1>5, <3>3 DEF UpdateKept, Observe, ReadPod, Decide, StartCheck, CreateConfigMap,
         ObserveDeleted, EndDelete, RemoveFinalizer, DeletePod, DeleteConfigMap, EndReconcile
    <3> QED BY <1>5, <3>1, <3>2, <3>3 DEF Reconcile
  <2> QED BY <1>3, <1>5, <2>1 DEF UpdateKept
<1>6. CASE pc # "observe" /\ (Kubelet \/ Environment \/ People \/ CallFails \/ Restart)
  <2>1. UNCHANGED <<pc, plan>> \/ pc' = "idle"
    BY <1>6, OthersLeaveCopy
  <2>2. Kubelet \/ UNCHANGED pods
    BY <1>6, OthersLeaveReconcile
  <2>3. \A q \in Staying' :
          \/ q \in Staying
          \/ \E p \in Staying : q.name = p.name /\ q.created = p.created /\ p.phase # "Ended"
    BY <2>2, KubeletPods DEF Staying
  <2>4. CASE pc' \notin {"observe", "update"}
    BY <2>4 DEF ResultsRead
  <2>5. CASE UNCHANGED <<pc, plan>> /\ pc = "update"
    BY <1>3, <2>3, <2>5
  <2> QED BY <1>6, <2>1, <2>4, <2>5
<1>7. CASE UNCHANGED vars
  BY <1>7 DEF vars, worker, cluster, ResultsRead, Staying
<1>8. CASE pc' \notin {"observe", "update"}
  BY <1>8 DEF ResultsRead
<1>9. CASE Reconcile
  BY <1>2, <1>4, <1>5, <1>8, <1>9, ReconcilePlans, ReadPodResults
<1> QED BY <1>6, <1>7, <1>9 DEF Next

(* While the lists do not lag, a pod of the current script that ended in   *)
(* time is deleted only once lastChecks has its result: the status is      *)
(* written first, and no pod ends unnoticed between read and delete.  (With *)
(* "list" in Lags two checks may run, and the last result read wins.)      *)
THEOREM NoResultLost ==
  ASSUME "list" \notin Lags
  PROVE  Spec => ResultNotLost
<1>1. Init => ResultsRead
  BY DEF Init, ResultsRead
<1>2. Typed /\ CopiesWellFormed /\ OneCheckAtATime /\ ResultsRead /\ [Next]_vars => ResultsRead'
  BY NextResults
<1>3. ASSUME Typed, CopiesFollow, PlanWritten, ResultsRead, [Next]_vars, NEW p \in pods,
             pc = "update", copyCurrent, Dropped(p), p.phase = "Ended",
             plan.now < Overdue(p, CheckTimeout), ScriptOf(p) = CurrentScript(status)
      PROVE  status.lastChecks[ScriptOf(p)].exit = ResultOf(p).exit
  <2>1. p \in Staying /\ p \notin pods'
    BY <1>3 DEF Staying, Dropped
  <2>2. ASSUME NEW n \in plan.stale, DeleteStale(n)
        PROVE  status.lastChecks[ScriptOf(p)].exit = ResultOf(p).exit
    <3>1. p.name = n
      BY <2>1, <2>2 DEF DeleteStale, DeletePodNamed, MarkLeaving
    <3>2. plan.status = status
      BY <1>3, <2>2 DEF DeleteStale, PlanWritten, CopiesFollow
    <3> QED BY <1>3, <2>1, <3>1, <3>2 DEF ResultsRead, ResultOf
  <2>3. ~Kubelet
    <3> SUFFICES ASSUME Kubelet PROVE FALSE
      OBVIOUS
    <3>1. ASSUME NEW x \in pods, NEW new, Replace(x, new), new.name = x.name, ~new.leaving
          PROVE  FALSE
      <4>1. x = p
        BY <2>1, <3>1 DEF Replace
      <4>2. new \in pods' /\ new.name = p.name
        BY <3>1, <4>1 DEF Replace
      <4> QED BY <1>3, <3>1, <4>2 DEF Dropped
    <3>2. PICK x \in pods :
            \/ \E c \in cms : PodStarts(x, c)
            \/ \E code \in ExitCodes : ContainerExits(x, code)
            \/ DeadlineStops(x)
            \/ \E start \in {None} \union x.created..clock : PodFails(x, start)
            \/ PodGone(x)
      BY DEF Kubelet
    <3>3. x \in Pods
      BY <1>3 DEF Typed, TypeOK, ClusterTypes
    <3>4. ASSUME NEW c \in cms, PodStarts(x, c)
          PROVE  FALSE
      <4>1. /\ StartedPod(x, c.body, clock).name = x.name
            /\ StartedPod(x, c.body, clock).leaving = x.leaving
        BY <3>3 DEF StartedPod, Pods
      <4> QED BY <3>1, <3>4, <4>1 DEF PodStarts, MayStart
    <3>5. ASSUME NEW code \in ExitCodes, ContainerExits(x, code)
          PROVE  FALSE
      <4>1. /\ ExitedPod(x, code, clock).name = x.name
            /\ ExitedPod(x, code, clock).leaving = x.leaving
        BY <3>3 DEF ExitedPod, Pods
      <4> QED BY <3>1, <3>5, <4>1 DEF ContainerExits, MayExit
    <3>6. CASE DeadlineStops(x)
      <4>1. StoppedPod(x, clock).name = x.name /\ StoppedPod(x, clock).leaving = x.leaving
        BY <3>3 DEF StoppedPod, ExitedPod, Pods
      <4> QED BY <3>1, <3>6, <4>1 DEF DeadlineStops, MayStop, MayExit
    <3>7. ASSUME NEW start \in {None} \union x.created..clock, PodFails(x, start)
          PROVE  FALSE
      <4>1. FailedPod(x, start).name = x.name /\ FailedPod(x, start).leaving = x.leaving
        BY <3>3 DEF FailedPod, Pods
      <4> QED BY <3>1, <3>7, <4>1 DEF PodFails, MayFail
    <3>8. ~PodGone(x)
      BY <2>1 DEF PodGone, Staying
    <3> QED BY <3>2, <3>4, <3>5, <3>6, <3>7, <3>8
  <2>4. ~UNCHANGED pods
    BY <2>1
  <2>5. Reconcile
    BY <1>3, <2>3, <2>4, OthersLeaveReconcile DEF Next, vars, cluster
  <2>6. ASSUME \/ Observe \/ (\E x \in plan.todo : ReadPod(x)) \/ Decide
               \/ UpdateStatus \/ ConsumeApplied \/ StartCheck \/ CreateConfigMap
               \/ ObserveDeleted \/ (\E n \in plan.stale : DeletePod(n))
               \/ (\E n \in plan.cms : DeleteConfigMap(n)) \/ EndDelete \/ RemoveFinalizer
        PROVE  FALSE
    BY <1>3, <2>1, <2>6 DEF Observe, ReadPod, Decide, UpdateStatus, ConsumeApplied, StartCheck,
       CreateConfigMap, ObserveDeleted, DeletePod, DeleteConfigMap, EndDelete, RemoveFinalizer, cluster
  <2> QED BY <2>2, <2>5, <2>6 DEF Reconcile
<1>4. Typed /\ CopiesFollow /\ PlanWritten /\ ResultsRead /\ [Next]_vars =>
        [ \A p \in pods :
            /\ pc = "update" /\ copyCurrent /\ Dropped(p)
            /\ p.phase = "Ended" /\ plan.now < Overdue(p, CheckTimeout)
            /\ ScriptOf(p) = CurrentScript(status)
            => status.lastChecks[ScriptOf(p)].exit = ResultOf(p).exit ]_vars
  BY <1>3
<1>5. Spec => []OneCheckAtATime
  BY OneCheck
<1> QED BY <1>1, <1>2, <1>4, <1>5, AlwaysTyped, AlwaysWellFormed, AlwaysFollow, AlwaysWritten, PTL
        DEF Spec, ResultNotLost

-----------------------------------------------------------------------------
(* The applies a plan consumes. *)
LEMMA ApplySpecApplied ==
  ASSUME NEW sp \in Specs, NEW st \in Statuses, NEW now \in Time, AppliesNow(sp, st)
  PROVE  LET new == ApplySpec(sp, st, now) IN
         /\ new.state = "Verifying" /\ new.verifyingSince = now
         /\ new.lastChecks["apply"] = [exit |-> NoExit, since |-> now]
<1> DEFINE applied == SetLastCheck(st, "apply", NoExit, now)
           new == ApplySpec(sp, st, now)
<1>1. /\ applied \in Statuses /\ applied.state = st.state
      /\ applied.lastChecks["apply"] = [exit |-> NoExit, since |-> now]
  <2>1. applied \in Statuses
    BY CheckTypes DEF Scripts, Exits
  <2>2. applied = [st EXCEPT !.lastChecks["apply"] = [exit |-> NoExit, since |-> now]]
    BY DEF SetLastCheck
  <2> QED BY <2>1, <2>2 DEF Statuses, Scripts
<1>2. /\ st.state \in {"Open", "Verifying"}
      /\ st.state = "Open" => new = SetState(applied, "Verifying", now)
      /\ st.state = "Verifying" => new = EnterVerifying(applied, now)
  BY DEF ApplySpec, AppliesNow
<1> HIDE DEF applied
<1>3. \A t \in Statuses :
        /\ EnterVerifying(t, now).state = t.state /\ EnterVerifying(t, now).verifyingSince = now
        /\ EnterVerifying(t, now).lastChecks["apply"] = t.lastChecks["apply"]
  BY DEF EnterVerifying, ClearLastCheck, Statuses, Scripts
<1>4. /\ [applied EXCEPT !.state = "Verifying"] \in Statuses
      /\ [applied EXCEPT !.state = "Verifying"].state = "Verifying"
      /\ [applied EXCEPT !.state = "Verifying"].lastChecks = applied.lastChecks
  BY <1>1 DEF Statuses, States
<1>5. SetState(applied, "Verifying", now) = EnterVerifying([applied EXCEPT !.state = "Verifying"], now)
  BY DEF SetState
<1> QED BY <1>1, <1>2, <1>3, <1>4, <1>5

LEMMA ReadPodApplied ==
  ASSUME Typed, CopiesWellFormed, Timely, PlanApplied, NEW p \in plan.todo, ReadPod(p)
  PROVE  PlanApplied'
<1> DEFINE st == plan.status
           r == ResultOf(p)
<1>1. /\ plan \in Plans /\ st \in Statuses /\ WellFormed(st) /\ p \in Pods /\ clock \in Time
      /\ p \in pods /\ plan.now = clock /\ pc = "observe"
  BY DEF Typed, TypeOK, ReconcileTypes, BoundTypes, Plans, CopiesWellFormed, ReadPod, Timely,
     NothingFromTheFuture
<1>2. /\ pc' = pc /\ plan'.consume = plan.consume /\ plan'.now = plan.now
      /\ \/ plan'.status = st
         \/ r.script = CurrentScript(st) /\ plan'.status = Record(st, r)
  BY <1>1 DEF ReadPod, Plans
<1>3. CASE plan'.status = st
  BY <1>2, <1>3 DEF PlanApplied, MovedOn
<1>4. CASE r.script = CurrentScript(st) /\ plan'.status = Record(st, r)
  <2> DEFINE new == Record(st, r)
  <2> SUFFICES ASSUME plan.consume
               PROVE  /\ plan.now # None
                      /\ new.lastChecks["apply"] = [exit |-> NoExit, since |-> plan.now]
                      /\ MovedOn(new)
                      /\ SettleWindow # 0 /\ new.state = "Verifying" => new.verifyingSince = plan.now
    BY <1>2, <1>4 DEF PlanApplied
  <2>1. /\ plan.now # None /\ MovedOn(st)
        /\ st.lastChecks["apply"] = [exit |-> NoExit, since |-> plan.now]
        /\ SettleWindow # 0 /\ st.state = "Verifying" => st.verifyingSince = plan.now
    BY <1>1 DEF PlanApplied
  <2>2. r \in Results /\ (Known(r.exit) => r.at <= clock)
    BY <1>1, ResultType, VerdictInPast DEF Timely, NothingFromTheFuture
  <2>3. new.lastChecks["apply"] = st.lastChecks["apply"]
    BY <1>1, <1>4, <2>2, RecordEntries
  <2>4. /\ st.verifyingSince \in Nat /\ r.at \in Nat /\ plan.now \in Nat /\ SettleWindow \in Nat
    BY <1>1, <2>2, ConfigAssumption DEF Statuses, Results, Plans
  <2> HIDE DEF st, r, new
  <2>5. \/ /\ new.state = st.state /\ new.verifyingSince = st.verifyingSince
           /\ st.state = "Open" => new.lastChecks["verify"] = st.lastChecks["verify"]
        \/ st.state = "Open" /\ new.state = "Verifying"
        \/ /\ st.state = "Verifying" /\ Known(r.exit)
           /\ r.at - st.verifyingSince >= SettleWindow
           /\ new.state = "Open" /\ new.lastChecks["verify"].exit = 1
        \/ new.state = "Resolved"
    BY <1>1, <1>4, <2>2, RecordCases DEF new
  <2>6. CASE /\ new.state = st.state /\ new.verifyingSince = st.verifyingSince
             /\ st.state = "Open" => new.lastChecks["verify"] = st.lastChecks["verify"]
    BY <2>1, <2>3, <2>6 DEF MovedOn
  <2>7. CASE st.state = "Open" /\ new.state = "Verifying"
    BY <2>1, <2>3, <2>7 DEF MovedOn
  <2>8. CASE /\ st.state = "Verifying" /\ Known(r.exit)
             /\ r.at - st.verifyingSince >= SettleWindow
             /\ new.state = "Open" /\ new.lastChecks["verify"].exit = 1
    <3>1. SettleWindow = 0
      BY <1>1, <2>1, <2>2, <2>4, <2>8
    <3> QED BY <2>1, <2>3, <2>8, <3>1 DEF MovedOn
  <2>9. CASE new.state = "Resolved"
    BY <2>1, <2>3, <2>9 DEF MovedOn
  <2> QED BY <2>5, <2>6, <2>7, <2>8, <2>9
<1> QED BY <1>2, <1>3, <1>4

LEMMA AlwaysApplied == Spec => []PlanApplied
<1>1. Init => PlanApplied
  BY DEF Init, PlanApplied
<1>2. Typed /\ CopiesWellFormed /\ Timely /\ PlanApplied /\ [Next]_vars => PlanApplied'
  <2> SUFFICES ASSUME Typed, CopiesWellFormed, Timely, PlanApplied, [Next]_vars
               PROVE  PlanApplied'
    OBVIOUS
  <2>1. plan \in Plans /\ cache \in Copies /\ clock \in Time /\ clock # None
    BY DEF Typed, TypeOK, ReconcileTypes, ObjectTypes, BoundTypes, CopiesWellFormed
  <2>2. CASE Observe
    <3>1. /\ plan'.status = ApplySpec(cache.spec, cache.status, clock) /\ plan'.now = clock
          /\ plan'.consume = AppliesNow(cache.spec, cache.status)
      BY <2>2 DEF Observe, NoPlan
    <3>2. cache.spec \in Specs /\ cache.status \in Statuses
      BY <2>1 DEF Copies
    <3>3. plan'.consume =>
            /\ plan'.status.state = "Verifying" /\ plan'.status.verifyingSince = clock
            /\ plan'.status.lastChecks["apply"] = [exit |-> NoExit, since |-> clock]
      <4> DEFINE new == ApplySpec(cache.spec, cache.status, clock)
      <4>1. AppliesNow(cache.spec, cache.status) =>
              /\ new.state = "Verifying" /\ new.verifyingSince = clock
              /\ new.lastChecks["apply"] = [exit |-> NoExit, since |-> clock]
        BY <2>1, <3>2, ApplySpecApplied
      <4>2. plan'.status = new /\ (plan'.consume => AppliesNow(cache.spec, cache.status))
        BY <3>1
      <4> HIDE DEF new
      <4> QED BY <4>1, <4>2
    <3> QED BY <2>1, <3>1, <3>3 DEF PlanApplied, MovedOn
  <2>3. CASE pc = "observe" /\ plan' = Decided
    <3>1. plan'.status = plan.status /\ plan'.now = plan.now /\ plan'.consume = plan.consume
      BY <2>1, <2>3 DEF Decided, Plans
    <3> QED BY <2>3, <3>1 DEF PlanApplied, MovedOn
  <2>4. CASE UpdateKept
    BY <2>4 DEF UpdateKept, PlanApplied, MovedOn
  <2>5. CASE Reconcile
    BY <2>2, <2>3, <2>4, <2>5, ReconcilePlans, ReadPodApplied DEF PlanApplied
  <2>6. CASE Kubelet \/ Environment \/ People \/ CallFails \/ Restart
    BY <2>6, OthersLeaveCopy DEF PlanApplied, MovedOn
  <2>7. CASE UNCHANGED vars
    BY <2>7 DEF vars, worker, PlanApplied, MovedOn
  <2> QED BY <2>5, <2>6, <2>7 DEF Next
<1> QED BY <1>1, <1>2, AlwaysTyped, AlwaysWellFormed, AlwaysTimely, PTL DEF Spec

(* spec.applied is reset only over a status that records the apply and has *)
(* moved on, whatever failed, was restarted or was written in between.     *)
THEOREM NoApplyLost == Spec => AppliedNotLost
<1>1. ASSUME Typed, CopiesFollow, PlanWritten, PlanApplied, [Next]_vars,
             spec.applied, ~spec'.applied
      PROVE  /\ status.lastChecks["apply"].since # None
             /\ status.lastChecks["apply"].exit = NoExit
             /\ MovedOn(status)
  <2>1. CASE ConsumeApplied
    <3>1. copyCurrent
      BY <1>1, <2>1 DEF ConsumeApplied, object
    <3>2. plan.status = status
      BY <1>1, <2>1, <3>1 DEF ConsumeApplied, PlanWritten, CopiesFollow
    <3> QED BY <1>1, <2>1, <3>2 DEF ConsumeApplied, PlanApplied
  <2>2. spec \in Specs
    BY <1>1 DEF Typed, TypeOK, ObjectTypes
  <2>3. ASSUME \/ Observe \/ (\E p \in plan.todo : ReadPod(p)) \/ Decide \/ UpdateStatus
               \/ (\E n \in plan.stale : DeleteStale(n) \/ DeletePod(n))
               \/ StartCheck \/ CreateConfigMap \/ ObserveDeleted
               \/ (\E n \in plan.cms : DeleteConfigMap(n)) \/ EndDelete \/ RemoveFinalizer
        PROVE  spec' = spec
    BY <2>3 DEF Observe, ReadPod, Decide, UpdateStatus, Write, DeleteStale, DeletePod, StartCheck,
       CreateConfigMap, ObserveDeleted, DeleteConfigMap, EndDelete, RemoveFinalizer, object
  <2>4. ASSUME Kubelet \/ CallFails \/ Restart \/ UNCHANGED vars
        PROVE  spec' = spec
    BY <2>4 DEF Kubelet, PodStarts, ContainerExits, DeadlineStops, PodFails, PodGone, ByKubelet,
       CallFails, Restart, object, vars
  <2>5. ASSUME NEW sp, NEW st, WriteByOther(sp, st), sp.applied
        PROVE  spec'.applied
    BY <2>5 DEF WriteByOther, Write
  <2>6. ~Environment
    <3>1. ~((\E c \in cms : Collect(c)) \/ CacheSync \/ Tick)
      BY <1>1 DEF Collect, CacheSync, Tick, object
    <3>2. [spec EXCEPT !.reanalysis = FALSE].applied = spec.applied
      BY <2>2 DEF Specs
    <3>3. ~(WriterStarts \/ (\E fix \in Fixes \union {NoFix} : WriterFinishes(fix)) \/ WriterReanalyses)
      BY <1>1, <2>5, <3>2 DEF WriterStarts, WriterFinishes, WriterReanalyses, ByWriter
    <3> QED BY <3>1, <3>3 DEF Environment
  <2>7. ~People
    <3>1. /\ [spec EXCEPT !.applied = TRUE].applied
          /\ \A f : [spec EXCEPT !.closed = f].applied = spec.applied
          /\ \A f : [spec EXCEPT !.reanalysis = f].applied = spec.applied
          /\ \A f : [spec EXCEPT !.deleted = f].applied = spec.applied
      BY <2>2 DEF Specs
    <3> QED BY <1>1, <2>5, <3>1 DEF People, HumanApplies, HumanCloses, HumanAsksReanalysis,
         HumanDeletes, ApplyRecorded, Edit
  <2> QED BY <1>1, <2>1, <2>3, <2>4, <2>6, <2>7 DEF Next, Reconcile
<1>2. Typed /\ CopiesFollow /\ PlanWritten /\ PlanApplied /\ [Next]_vars =>
        [ spec.applied /\ ~spec'.applied =>
            /\ status.lastChecks["apply"].since # None
            /\ status.lastChecks["apply"].exit = NoExit
            /\ MovedOn(status) ]_vars
  BY <1>1
<1> QED BY <1>2, AlwaysTyped, AlwaysFollow, AlwaysWritten, AlwaysApplied, PTL
        DEF Spec, AppliedNotLost
=============================================================================
