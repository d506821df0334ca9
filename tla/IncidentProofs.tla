--------------------------- MODULE IncidentProofs ---------------------------
(***************************************************************************)
(* Theorems about the incident controller, for every set of fixes, every   *)
(* configuration and every bound.  Each rests on an inductive invariant:   *)
(* Typed (TypeOK and PlannedHasScript) for the types, CopiesWellFormed for *)
(* the window and the resolution, CopiesFollow for the writes.             *)
(***************************************************************************)
EXTENDS IncidentProperties, MachineProofs

USE DEF None, Time, NoExit

-----------------------------------------------------------------------------
LEMMA NewTypes == NewStatus \in Statuses /\ NewCopy \in Copies /\ NoPlan \in Plans
BY NewStatusType DEF NewCopy, NewSpec, Copies, Specs, NoPlan, Plans

(* A pod's result is a result, and it never has the zero time. *)
LEMMA ResultType ==
  ASSUME NEW p \in Pods
  PROVE  ResultOf(p) \in Results /\ ResultOf(p).at # None
<1>1. ScriptOf(p) \in Checked
  BY DEF ScriptOf, Pods, Names
<1>2. ExitOf(p) \in Exits /\ EndedAt(p, CheckTimeout) \in Time /\ EndedAt(p, CheckTimeout) # None
  BY ConfigAssumption, PodResultType DEF Pods
<1> QED BY <1>1, <1>2 DEF ResultOf, Results

-----------------------------------------------------------------------------
(* Type correctness. *)
Typed == TypeOK /\ PlannedHasScript

LEMMA EndTypes ==
  ASSUME EndReconcile
  PROVE  ReconcileTypes' /\ PlannedHasScript'
BY NewTypes DEF EndReconcile, ReconcileTypes, PlannedHasScript

LEMMA ContinueTypes ==
  ASSUME NEW p \in Plans, NEW c \in Copies, copyCurrent \in BOOLEAN,
         p.due => CurrentScript(p.status) # "",
         Continue(p, c)
  PROVE  ReconcileTypes' /\ PlannedHasScript'
<1>1. CASE p.dirty \/ p.consume \/ p.stale # {} \/ p.due
  BY <1>1 DEF Continue, ReconcileTypes, PlannedHasScript, CurrentScript
<1>2. CASE ~(p.dirty \/ p.consume \/ p.stale # {} \/ p.due)
  BY <1>2, EndTypes DEF Continue
<1> QED BY <1>1, <1>2

LEMMA WriteTypes ==
  ASSUME ObjectTypes, NEW sp \in Specs, NEW st \in Statuses, Write(sp, st)
  PROVE  ObjectTypes'
BY DEF Write, ObjectTypes, Copies

(* The script of a planned check is one that names a pod. *)
LEMMA PlannedNameType ==
  ASSUME plan \in Plans, CurrentScript(plan.status) # ""
  PROVE  PlannedName \in Names
BY DEF PlannedName, CheckName, CurrentScript, Names, Checked, Plans

LEMMA NewPodType ==
  ASSUME NEW n \in Names, NEW now \in Time
  PROVE  NewPod(n, now) \in Pods
BY DEF NewPod, Pods, PodPhases, Codes

LEMMA DeleteTypes ==
  ASSUME ClusterTypes, NEW n \in Names, DeletePodNamed(n)
  PROVE  ClusterTypes'
<1>1. [NewPod(n, None) EXCEPT !.leaving = TRUE] \in Pods
  <2>1. NewPod(n, None) \in Pods
    BY NewPodType
  <2> QED BY <2>1 DEF Pods
<1>2. MarkLeaving(n) \subseteq Pods
  BY <1>1 DEF MarkLeaving, ClusterTypes
<1> QED BY <1>2 DEF DeletePodNamed, ClusterTypes

LEMMA InitTyped == Init => Typed
BY NewTypes, BoundsAssumption DEF Init, Typed, TypeOK, ObjectTypes, ReconcileTypes, ClusterTypes,
   BoundTypes, PlannedHasScript, NewCopy, Copies

(* Observe, its loop, and its end. *)
LEMMA ObserveTyped ==
  ASSUME Typed, Observe \/ (\E p \in plan.todo : ReadPod(p)) \/ Decide
  PROVE  Typed'
<1> USE DEF Typed, TypeOK
<1>1. CASE Observe
  <2>1. cache.spec \in Specs /\ cache.status \in Statuses /\ clock \in Time
    BY DEF ObjectTypes, Copies, BoundTypes
  <2>2. ApplySpec(cache.spec, cache.status, clock) \in Statuses
    BY <2>1, ApplySpecType
  <2>3. AppliesNow(cache.spec, cache.status) \in BOOLEAN
    BY <2>1 DEF AppliesNow, Specs
  <2>4. {p \in pods : ~p.leaving} \in SUBSET Pods
    BY DEF ClusterTypes
  <2>5. plan' \in Plans
    BY <1>1, <2>1, <2>2, <2>3, <2>4, NewTypes DEF Observe, Plans
  <2> QED
    BY <1>1, <2>5 DEF Observe, object, cluster, bounds, ObjectTypes, ReconcileTypes, ClusterTypes,
       BoundTypes, PlannedHasScript
<1>2. ASSUME NEW p \in plan.todo, ReadPod(p)
      PROVE  Typed'
  <2>1. p \in Pods /\ plan \in Plans /\ p.name \in Names
    BY DEF ReconcileTypes, Plans, Pods
  <2>2. ResultOf(p) \in Results /\ Record(plan.status, ResultOf(p)) \in Statuses
    BY <2>1, ResultType, RecordType DEF Plans
  <2>3. plan' \in Plans
    <3> DEFINE read == [plan EXCEPT !.todo = @ \ {p}]
    <3>1. read \in Plans /\ read.status = plan.status /\ read.stale = plan.stale
      BY <2>1 DEF Plans
    <3>2. [read EXCEPT !.live = TRUE] \in Plans
      BY <3>1 DEF Plans
    <3>3. \A st \in Statuses :
            [read EXCEPT !.stale = @ \union {p.name}, !.status = st] \in Plans
      BY <2>1, <3>1 DEF Plans
    <3>4. plan.status \in Statuses
      BY <2>1 DEF Plans
    <3>5. \/ plan' = [read EXCEPT !.live = TRUE]
          \/ plan' = [read EXCEPT !.stale = @ \union {p.name}, !.status = plan.status]
          \/ plan' = [read EXCEPT !.stale = @ \union {p.name},
                                  !.status = Record(plan.status, ResultOf(p))]
      BY <1>2, <3>1 DEF ReadPod
    <3> QED BY <2>2, <3>2, <3>3, <3>4, <3>5
  <2>4. lastRun' \in Time
    BY <1>2, <2>2 DEF ReadPod, Results
  <2> QED
    BY <1>2, <2>3, <2>4 DEF ReadPod, object, cluster, bounds, ObjectTypes, ReconcileTypes,
       ClusterTypes, BoundTypes, PlannedHasScript
<1>3. CASE Decide
  <2> DEFINE due == ~plan.live /\ CheckDue(plan.status, lastRun, plan.now)
             decided == [plan EXCEPT !.dirty = plan.consume \/ plan.status # copy.status,
                                     !.due = due,
                                     !.from = CheckFrom(plan.status, lastRun)]
  <2>1. plan \in Plans /\ copy \in Copies /\ copyCurrent \in BOOLEAN
    BY DEF ReconcileTypes
  <2>2. due \in BOOLEAN /\ (plan.consume \/ plan.status # copy.status) \in BOOLEAN
    BY <2>1 DEF Plans, CheckDue
  <2>3. CheckFrom(plan.status, lastRun) \in Time
    BY <2>1 DEF CheckFrom, Plans, Statuses
  <2>4. decided \in Plans
    <3> HIDE DEF due
    <3> QED BY <2>1, <2>2, <2>3 DEF Plans
  <2>5. decided.due => CurrentScript(decided.status) # ""
    BY <2>1 DEF CheckDue, Plans
  <2>6. Continue(decided, copy)
    BY <1>3 DEF Decide
  <2>7. ReconcileTypes' /\ PlannedHasScript'
    <3> HIDE DEF decided
    <3> QED BY <2>1, <2>4, <2>5, <2>6, ContinueTypes
  <2> QED
    BY <1>3, <2>7 DEF Decide, object, cluster, bounds, ObjectTypes, ClusterTypes, BoundTypes
<1> QED BY <1>1, <1>2, <1>3

(* Update and Delete, call by call. *)
LEMMA UpdateTyped ==
  ASSUME Typed, UpdateStatus \/ ConsumeApplied \/ (\E n \in plan.stale : DeleteStale(n))
  PROVE  Typed'
<1> USE DEF Typed, TypeOK
<1>1. plan \in Plans /\ copy \in Copies /\ copyCurrent \in BOOLEAN
  BY DEF ReconcileTypes
<1>2. plan.due => pc # "update" \/ CurrentScript(plan.status) # ""
  BY DEF PlannedHasScript
<1>3. CASE UpdateStatus
  <2>1. plan.status \in Statuses /\ spec \in Specs
    BY <1>1 DEF Plans, ObjectTypes
  <2>2. ObjectTypes'
    BY <1>3, <2>1, WriteTypes DEF UpdateStatus, object, ObjectTypes
  <2>3. ReconcileTypes' /\ PlannedHasScript'
    <3> DEFINE left == [plan EXCEPT !.dirty = FALSE]
               written == [copy EXCEPT !.status = plan.status]
    <3>1. left \in Plans /\ written \in Copies
      BY <1>1, <2>1 DEF Plans, Copies
    <3>2. left.due => CurrentScript(left.status) # ""
      BY <1>1, <1>2, <1>3 DEF Plans, UpdateStatus
    <3>3. Continue(left, written) \/ EndReconcile
      BY <1>3 DEF UpdateStatus
    <3> HIDE DEF left, written
    <3> QED BY <1>1, <3>1, <3>2, <3>3, ContinueTypes, EndTypes
  <2> QED BY <1>3, <2>2, <2>3 DEF UpdateStatus, cluster, bounds, ClusterTypes, BoundTypes
<1>4. CASE ConsumeApplied
  <2> DEFINE sp == [copy.spec EXCEPT !.applied = FALSE]
  <2>1. sp \in Specs /\ status \in Statuses
    BY <1>1 DEF Copies, Specs, ObjectTypes
  <2>2. ObjectTypes'
    BY <1>4, <2>1, WriteTypes DEF ConsumeApplied, object, ObjectTypes
  <2>3. ReconcileTypes' /\ PlannedHasScript'
    <3> DEFINE left == [plan EXCEPT !.consume = FALSE]
               written == [copy EXCEPT !.spec = sp]
    <3>1. left \in Plans /\ written \in Copies
      <4> HIDE DEF sp
      <4> QED BY <1>1, <2>1 DEF Plans, Copies
    <3>2. left.due => CurrentScript(left.status) # ""
      BY <1>1, <1>2, <1>4 DEF Plans, ConsumeApplied
    <3>3. Continue(left, written) \/ EndReconcile
      BY <1>4 DEF ConsumeApplied
    <3> HIDE DEF left, written
    <3> QED BY <1>1, <3>1, <3>2, <3>3, ContinueTypes, EndTypes
  <2> QED BY <1>4, <2>2, <2>3 DEF ConsumeApplied, cluster, bounds, ClusterTypes, BoundTypes
<1>5. ASSUME NEW n \in plan.stale, DeleteStale(n)
      PROVE  Typed'
  <2> DEFINE left == [plan EXCEPT !.stale = @ \ {n}]
  <2>1. n \in Names /\ left \in Plans
    BY <1>1 DEF Plans
  <2>2. left.due => CurrentScript(left.status) # ""
    BY <1>1, <1>2, <1>5 DEF Plans, DeleteStale
  <2>3. Continue(left, copy)
    BY <1>5 DEF DeleteStale
  <2>4. ReconcileTypes' /\ PlannedHasScript'
    <3> HIDE DEF left
    <3> QED BY <1>1, <2>1, <2>2, <2>3, ContinueTypes
  <2>5. ClusterTypes'
    BY <1>5, <2>1, DeleteTypes DEF DeleteStale
  <2> QED BY <1>5, <2>4, <2>5 DEF DeleteStale, object, bounds, ObjectTypes, BoundTypes
<1> QED BY <1>3, <1>4, <1>5

LEMMA StartCheckTyped ==
  ASSUME Typed, StartCheck \/ CreateConfigMap
  PROVE  Typed'
<1> USE DEF Typed, TypeOK
<1>1. PlannedName \in Names /\ plan \in Plans
  <2>1. CurrentScript(plan.status) # ""
    BY DEF StartCheck, CreateConfigMap, PlannedHasScript
  <2> QED BY <2>1, PlannedNameType DEF ReconcileTypes
<1>2. CASE StartCheck
  <2>1. NewPod(PlannedName, clock) \in Pods
    BY <1>1, NewPodType DEF BoundTypes
  <2>2. ClusterTypes'
    BY <1>2, <2>1 DEF StartCheck, ClusterTypes
  <2>3. PlannedHasScript'
    BY <1>2 DEF StartCheck, PlannedHasScript, CurrentScript, Flagged
  <2> QED
    BY <1>2, <2>2, <2>3 DEF StartCheck, object, bounds, ObjectTypes, BoundTypes, ReconcileTypes
<1>3. CASE CreateConfigMap
  <2>1. [ name  |-> PlannedName,
          body  |-> plan.status.howToFix,
          owned |-> \E p \in pods : p.name = PlannedName ] \in ConfigMaps
    BY <1>1 DEF ConfigMaps, Plans, Statuses
  <2>2. ClusterTypes'
    BY <1>3, <2>1 DEF CreateConfigMap, ClusterTypes
  <2> QED
    BY <1>3, <2>2, EndTypes DEF CreateConfigMap, object, bounds, ObjectTypes, BoundTypes
<1> QED BY <1>2, <1>3

LEMMA DeletionTyped ==
  ASSUME Typed,
         \/ ObserveDeleted \/ EndDelete \/ RemoveFinalizer
         \/ \E n \in plan.stale : DeletePod(n)
         \/ \E n \in plan.cms : DeleteConfigMap(n)
  PROVE  Typed'
<1> USE DEF Typed, TypeOK
<1>1. plan \in Plans /\ copyCurrent \in BOOLEAN
  BY DEF ReconcileTypes
<1>2. CASE ObserveDeleted
  <2>1. {p.name : p \in pods} \in SUBSET Names /\ {c.name : c \in cms} \in SUBSET Names
    BY DEF ClusterTypes, Pods, ConfigMaps
  <2>2. plan' \in Plans
    BY <1>2, <2>1, NewTypes DEF ObserveDeleted, Plans
  <2> QED
    BY <1>2, <2>2 DEF ObserveDeleted, object, cluster, bounds, ObjectTypes, ReconcileTypes,
       ClusterTypes, BoundTypes, PlannedHasScript
<1>3. CASE EndDelete
  BY <1>3, EndTypes DEF EndDelete, object, cluster, bounds, ObjectTypes, ClusterTypes, BoundTypes
<1>4. CASE RemoveFinalizer
  BY <1>1, <1>4, EndTypes DEF RemoveFinalizer, cluster, bounds, ObjectTypes, ClusterTypes, BoundTypes
<1>5. ASSUME NEW n \in plan.stale, DeletePod(n)
      PROVE  Typed'
  <2>1. n \in Names /\ plan' \in Plans
    BY <1>1, <1>5 DEF DeletePod, Plans
  <2>2. ClusterTypes'
    BY <1>5, <2>1, DeleteTypes DEF DeletePod
  <2> QED
    BY <1>5, <2>1, <2>2 DEF DeletePod, object, bounds, ObjectTypes, ReconcileTypes, BoundTypes,
       PlannedHasScript
<1>6. ASSUME NEW n \in plan.cms, DeleteConfigMap(n)
      PROVE  Typed'
  <2>1. plan' \in Plans
    BY <1>1, <1>6 DEF DeleteConfigMap, Plans
  <2> QED
    BY <1>6, <2>1 DEF DeleteConfigMap, object, bounds, ObjectTypes, ReconcileTypes, ClusterTypes,
       BoundTypes, PlannedHasScript
<1> QED BY <1>2, <1>3, <1>4, <1>5, <1>6

LEMMA KubeletTyped ==
  ASSUME Typed, Kubelet
  PROVE  Typed'
<1> USE DEF Typed, TypeOK
<1>1. PICK p \in pods :
        \/ \E c \in cms : PodStarts(p, c)
        \/ \E code \in ExitCodes : ContainerExits(p, code)
        \/ DeadlineStops(p)
        \/ \E start \in {None} \union p.created..clock : PodFails(p, start)
        \/ PodGone(p)
  BY DEF Kubelet
<1>2. p \in Pods /\ clock \in Time
  BY DEF ClusterTypes, BoundTypes
<1>3. ASSUME NEW q \in Pods, Replace(p, q), ByKubelet
      PROVE  Typed'
  BY <1>3 DEF Replace, ByKubelet, object, worker, bounds, ObjectTypes, ReconcileTypes, ClusterTypes,
     BoundTypes, PlannedHasScript, CurrentScript, Flagged
<1>4. ASSUME NEW c \in cms, PodStarts(p, c)
      PROVE  Typed'
  <2>1. c.body \in Fixes \union {NoFix}
    BY DEF ClusterTypes, ConfigMaps
  <2>2. [p EXCEPT !.phase = "Running", !.start = clock, !.body = c.body] \in Pods
    BY <1>2, <2>1 DEF Pods, PodPhases
  <2> QED BY <1>3, <1>4, <2>2 DEF PodStarts, MayStart, StartedPod
<1>5. ASSUME NEW code \in ExitCodes, ContainerExits(p, code)
      PROVE  Typed'
  <2>1. [p EXCEPT !.phase = "Ended", !.finished = clock, !.code = code] \in Pods
    BY <1>2, BoundsAssumption DEF Pods, PodPhases, Codes
  <2> QED BY <1>3, <1>5, <2>1 DEF ContainerExits, MayExit, ExitedPod
<1>6. CASE DeadlineStops(p)
  <2>1. StoppedPod(p, clock) \in Pods
    BY <1>2 DEF StoppedPod, ExitedPod, Pods, PodPhases, Codes
  <2> QED BY <1>3, <1>6, <2>1 DEF DeadlineStops
<1>7. ASSUME NEW start \in {None} \union p.created..clock, PodFails(p, start)
      PROVE  Typed'
  <2>1. start \in Time
    BY <1>2 DEF Pods
  <2>2. [p EXCEPT !.phase = "Ended", !.start = start] \in Pods
    BY <1>2, <2>1 DEF Pods, PodPhases
  <2> QED BY <1>3, <1>7, <2>2 DEF PodFails, MayFail, FailedPod
<1>8. CASE PodGone(p)
  <2>1. \A c \in ConfigMaps : [c EXCEPT !.owned = FALSE] \in ConfigMaps
    BY DEF ConfigMaps
  <2>2. ClusterTypes'
    BY <1>8, <2>1 DEF PodGone, ClusterTypes
  <2> QED
    BY <1>8, <2>2 DEF PodGone, object, worker, bounds, ObjectTypes, ReconcileTypes, BoundTypes,
       PlannedHasScript, CurrentScript, Flagged
<1> QED BY <1>1, <1>4, <1>5, <1>6, <1>7, <1>8

(* Another writer's write leaves the reconcile as it is. *)
LEMMA OtherWriteTyped ==
  ASSUME Typed, NEW sp \in Specs, NEW st \in Statuses, WriteByOther(sp, st), BoundTypes'
  PROVE  Typed'
<1>1. copyCurrent' \in BOOLEAN
  BY DEF WriteByOther, Typed, TypeOK, ReconcileTypes
<1>2. ObjectTypes'
  BY WriteTypes DEF WriteByOther, Typed, TypeOK
<1> QED
  BY <1>1, <1>2 DEF WriteByOther, cluster, Typed, TypeOK, ReconcileTypes, ClusterTypes,
     PlannedHasScript, CurrentScript, Flagged

LEMMA EnvironmentTyped ==
  ASSUME Typed, Environment
  PROVE  Typed'
<1> USE DEF Typed, TypeOK
<1>1. spec \in Specs /\ status \in Statuses
  BY DEF ObjectTypes
<1>2. ASSUME NEW c \in cms, Collect(c)
      PROVE  Typed'
  BY <1>2 DEF Collect, object, worker, bounds, ObjectTypes, ReconcileTypes, ClusterTypes, BoundTypes,
     PlannedHasScript, CurrentScript, Flagged
<1>3. CASE CacheSync
  BY <1>3 DEF CacheSync, worker, cluster, bounds, ObjectTypes, ReconcileTypes, ClusterTypes,
     BoundTypes, PlannedHasScript, CurrentScript, Flagged, Copies
<1>4. CASE Tick
  BY <1>4 DEF Tick, object, worker, cluster, ObjectTypes, ReconcileTypes, ClusterTypes, BoundTypes,
     PlannedHasScript, CurrentScript, Flagged
<1>5. ASSUME NEW sp \in Specs, NEW st \in Statuses, ByWriter(sp, st)
      PROVE  Typed'
  <2>1. BoundTypes'
    BY <1>5 DEF ByWriter, bounds, BoundTypes
  <2> QED BY <1>5, <2>1, OtherWriteTyped DEF ByWriter
<1>6. CASE WriterStarts
  <2>1. [status EXCEPT !.state = "Analyzing"] \in Statuses
    BY <1>1 DEF Statuses, States
  <2> QED BY <1>1, <1>5, <1>6, <2>1 DEF WriterStarts
<1>7. ASSUME NEW fix \in Fixes \union {NoFix}, WriterFinishes(fix)
      PROVE  Typed'
  <2>1. [status EXCEPT !.state = "Open", !.howToFix = fix] \in Statuses
    BY <1>1 DEF Statuses, States
  <2> QED BY <1>1, <1>5, <1>7, <2>1 DEF WriterFinishes
<1>8. CASE WriterReanalyses
  <2>1. [spec EXCEPT !.reanalysis = FALSE] \in Specs
    BY <1>1 DEF Specs
  <2>2. [NewStatus EXCEPT !.state = "Analyzing"] \in Statuses
    BY NewTypes DEF Statuses, States
  <2> QED BY <1>1, <1>5, <1>8, <2>1, <2>2 DEF WriterReanalyses
<1> QED BY <1>2, <1>3, <1>4, <1>6, <1>7, <1>8 DEF Environment

LEMMA PeopleTyped ==
  ASSUME Typed, People
  PROVE  Typed'
<1> USE DEF Typed, TypeOK
<1>1. spec \in Specs /\ status \in Statuses
  BY DEF ObjectTypes
<1>2. ASSUME NEW kind, NEW sp \in Specs, NEW st \in Statuses, Edit(kind, sp, st)
      PROVE  Typed'
  <2>1. BoundTypes'
    BY <1>2 DEF Edit, BoundTypes
  <2> QED BY <1>2, <2>1, OtherWriteTyped DEF Edit
<1>3. CASE HumanApplies
  <2>1. [spec EXCEPT !.applied = TRUE] \in Specs
    BY <1>1 DEF Specs
  <2> QED BY <1>1, <1>2, <1>3, <2>1 DEF HumanApplies
<1>4. CASE HumanCloses
  <2>1. [spec EXCEPT !.closed = TRUE] \in Specs
    BY <1>1 DEF Specs
  <2> QED BY <1>1, <1>2, <1>4, <2>1 DEF HumanCloses
<1>5. CASE HumanAsksReanalysis
  <2>1. [spec EXCEPT !.reanalysis = TRUE] \in Specs
    BY <1>1 DEF Specs
  <2> QED BY <1>1, <1>2, <1>5, <2>1 DEF HumanAsksReanalysis
<1>6. CASE HumanDeletes
  <2>1. [spec EXCEPT !.deleted = TRUE] \in Specs
    BY <1>1 DEF Specs
  <2> QED BY <1>1, <1>2, <1>6, <2>1 DEF HumanDeletes
<1>7. ASSUME NEW exit \in RunExits, NEW at \in 1..clock, ApplyRecorded(exit, at)
      PROVE  Typed'
  <2>1. exit \in Exits /\ at \in Time
    BY BoundsAssumption DEF BoundTypes
  <2>2. RecordApply(status, exit, at) \in Statuses
    BY <1>1, <2>1, RecordApplyType
  <2> QED BY <1>1, <1>2, <1>7, <2>2 DEF ApplyRecorded
<1> QED BY <1>3, <1>4, <1>5, <1>6, <1>7 DEF People

LEMMA FaultTyped ==
  ASSUME Typed, CallFails \/ Restart
  PROVE  Typed'
<1> USE DEF Typed, TypeOK
<1>1. ReconcileTypes' /\ PlannedHasScript'
  BY EndTypes DEF CallFails, Restart
<1>2. BoundTypes' /\ lastRun' \in Time
  BY DEF CallFails, Restart, BoundTypes
<1> QED BY <1>1, <1>2 DEF CallFails, Restart, object, cluster, ObjectTypes, ClusterTypes

LEMMA NextTyped == Typed /\ [Next]_vars => Typed'
<1> SUFFICES ASSUME Typed, [Next]_vars
             PROVE  Typed'
  OBVIOUS
<1>1. CASE Reconcile
  BY <1>1, ObserveTyped, UpdateTyped, StartCheckTyped, DeletionTyped DEF Reconcile
<1>2. CASE Kubelet
  BY <1>2, KubeletTyped
<1>3. CASE Environment
  BY <1>3, EnvironmentTyped
<1>4. CASE People
  BY <1>4, PeopleTyped
<1>5. CASE CallFails \/ Restart
  BY <1>5, FaultTyped
<1>6. CASE UNCHANGED vars
  BY <1>6 DEF vars, object, worker, cluster, bounds, Typed, TypeOK, ObjectTypes, ReconcileTypes,
     ClusterTypes, BoundTypes, PlannedHasScript, CurrentScript, Flagged
<1> QED BY <1>1, <1>2, <1>3, <1>4, <1>5, <1>6 DEF Next

LEMMA AlwaysTyped == Spec => []Typed
BY InitTyped, NextTyped, PTL DEF Spec

(* Every reachable state is type correct: no result, window or copy of the *)
(* status ever holds a value the Go type and the CRD do not allow.         *)
THEOREM TypeCorrect == Spec => []TypeOK
<1>1. Typed => TypeOK
  BY DEF Typed
<1> QED BY <1>1, AlwaysTyped, PTL

-----------------------------------------------------------------------------
(* The settle window and the resolution.  Each function of the machine     *)
(* keeps a status well formed, given a time that is not zero.              *)
LEMMA WellFormedNew == WellFormed(NewStatus)
BY DEF WellFormed, ValidStatus, NewStatus, Ended

LEMMA WellFormedApplySpec ==
  ASSUME NEW sp \in Specs, NEW st \in Statuses, WellFormed(st),
         NEW now \in Time, now # None
  PROVE  WellFormed(ApplySpec(sp, st, now))
<1> DEFINE applied == SetLastCheck(st, "apply", NoExit, now)
<1>1. /\ applied \in Statuses /\ applied.state = st.state
      /\ applied.resolution = st.resolution
  <2>1. applied \in Statuses
    BY CheckTypes DEF Scripts, Exits
  <2> QED BY <2>1 DEF SetLastCheck, Statuses
<1> HIDE DEF applied
<1>2. WellFormed(Resolve(st, "Closed", "user", now))
  BY DEF WellFormed, ValidStatus, Ended, Resolve, SetState, Statuses
<1>3. CASE AppliesNow(sp, st)
  <2>1. st.resolution = "none"
    BY <1>3 DEF AppliesNow, WellFormed, ValidStatus, Ended
  <2>2. WellFormed(SetState(applied, "Verifying", now))
    BY <1>1, <2>1 DEF WellFormed, ValidStatus, Ended, SetState, EnterVerifying, ClearLastCheck, Statuses
  <2>3. st.state = "Verifying" => WellFormed(EnterVerifying(applied, now))
    BY <1>1, <2>1 DEF WellFormed, ValidStatus, Ended, EnterVerifying, ClearLastCheck, Statuses
  <2> QED BY <1>2, <1>3, <2>2, <2>3 DEF ApplySpec, applied
<1>4. CASE ~AppliesNow(sp, st)
  BY <1>2, <1>4 DEF ApplySpec
<1> QED BY <1>3, <1>4

LEMMA WellFormedRecord ==
  ASSUME NEW st \in Statuses, WellFormed(st),
         NEW r \in Results, r.at # None, r.script = CurrentScript(st)
  PROVE  WellFormed(Record(st, r))
<1> DEFINE noted == SetLastCheck(st, r.script, r.exit, r.at)
<1>1. /\ noted \in Statuses /\ noted.state = st.state
      /\ noted.resolution = st.resolution /\ noted.verifyingSince = st.verifyingSince
      /\ WellFormed(noted)
  <2>1. noted \in Statuses
    BY CheckTypes DEF Results, Checked, Scripts
  <2> QED BY <2>1 DEF SetLastCheck, Statuses, WellFormed, ValidStatus
<1>2. noted.resolution = "none" /\ st.state \in {"Open", "Verifying"}
  BY <1>1 DEF CurrentScript, Results, Checked, WellFormed, ValidStatus, Ended
<1> HIDE DEF noted
<1>3. /\ WellFormed(SetState(noted, "Verifying", r.at))
      /\ WellFormed(SetState(noted, "Open", r.at))
      /\ WellFormed(Resolve(noted, "Resolved", "verify", r.at))
  BY <1>1, <1>2 DEF WellFormed, ValidStatus, Ended, Resolve, SetState, EnterVerifying,
     ClearLastCheck, Statuses, Results
<1>4. CASE r.script = "precondition"
  <2>1. WellFormed([noted EXCEPT !.reproduced = IF r.exit = 1 THEN "True" ELSE "False"])
    BY <1>1 DEF WellFormed, ValidStatus, Statuses
  <2>2. WellFormed(RecordPrecondition(noted, r))
    BY <1>1, <1>3, <2>1 DEF RecordPrecondition
  <2> QED BY <1>1, <1>4, <2>2 DEF Record, noted
<1>5. CASE r.script = "verify"
  <2>1. st.state = "Verifying"
    BY <1>5 DEF CurrentScript
  <2>2. noted.verifyingSince # None
    BY <1>1, <2>1 DEF WellFormed
  <2>3. WellFormed(RecordVerify(noted, r))
    BY <1>1, <1>3, <2>2 DEF RecordVerify
  <2> QED BY <1>1, <1>5, <2>3 DEF Record, noted
<1> QED BY <1>4, <1>5 DEF Results, Checked

LEMMA WellFormedRecordApply ==
  ASSUME NEW st \in Statuses, WellFormed(st),
         NEW exit \in Exits, NEW at \in Time, at # None
  PROVE  WellFormed(RecordApply(st, exit, at))
<1> DEFINE noted == SetLastCheck(st, "apply", exit, at)
<1>1. noted \in Statuses
  BY CheckTypes DEF Scripts
<1>2. /\ noted.state = st.state /\ noted.resolution = st.resolution
      /\ noted.verifyingSince = st.verifyingSince /\ WellFormed(noted)
  BY DEF SetLastCheck, Statuses, WellFormed, ValidStatus
<1> HIDE DEF noted
<1>3. CASE st.state \in {"Open", "Verifying"}
  <2>1. noted.resolution = "none"
    BY <1>2, <1>3 DEF WellFormed, ValidStatus, Ended
  <2>2. WellFormed(SetState(noted, "Verifying", at))
    BY <1>1, <2>1 DEF WellFormed, ValidStatus, Ended, SetState, EnterVerifying, ClearLastCheck, Statuses
  <2>3. st.state = "Verifying" => WellFormed(EnterVerifying(noted, at))
    BY <1>1, <1>2, <2>1 DEF WellFormed, ValidStatus, Ended, EnterVerifying, ClearLastCheck, Statuses
  <2> QED BY <1>2, <1>3, <2>2, <2>3 DEF RecordApply, noted
<1>4. CASE st.state \notin {"Open", "Verifying"}
  BY <1>4 DEF RecordApply
<1> QED BY <1>3, <1>4

LEMMA InitWellFormed == Init => CopiesWellFormed
BY WellFormedNew DEF Init, CopiesWellFormed, NewCopy, NoPlan

LEMMA WriteWellFormed ==
  ASSUME NEW sp, NEW st, Write(sp, st),
         CopiesWellFormed, WellFormed(st)
  PROVE  WellFormed(status') /\ WellFormed(cache'.status)
BY DEF Write, CopiesWellFormed

(* A plan that is kept or dropped stays well formed. *)
LEMMA PlanWellFormed ==
  ASSUME NEW p, NEW c, WellFormed(p.status), Continue(p, c) \/ EndReconcile
  PROVE  WellFormed(plan'.status)
BY WellFormedNew DEF Continue, EndReconcile, NoPlan

LEMMA ReconcileWellFormed ==
  ASSUME Typed, CopiesWellFormed, Reconcile
  PROVE  CopiesWellFormed'
<1> USE DEF CopiesWellFormed
<1>1. plan \in Plans /\ plan.status \in Statuses
  BY DEF Typed, TypeOK, ReconcileTypes, Plans
<1>2. CASE Observe
  <2>1. cache.spec \in Specs /\ cache.status \in Statuses /\ clock \in Time
    BY DEF Typed, TypeOK, ObjectTypes, Copies, BoundTypes
  <2>2. WellFormed(ApplySpec(cache.spec, cache.status, clock))
    BY <2>1, WellFormedApplySpec
  <2>3. plan'.status = ApplySpec(cache.spec, cache.status, clock)
    BY <1>2 DEF Observe, NoPlan
  <2> QED BY <1>2, <2>2, <2>3 DEF Observe, object, bounds, WellFormed, ValidStatus
<1>3. ASSUME NEW p \in plan.todo, ReadPod(p)
      PROVE  CopiesWellFormed'
  <2>1. p \in Pods
    BY <1>1 DEF Plans
  <2>2. ResultOf(p) \in Results /\ ResultOf(p).at # None
    BY <2>1, ResultType
  <2>3. \/ plan'.status = plan.status
        \/ /\ ResultOf(p).script = CurrentScript(plan.status)
           /\ plan'.status = Record(plan.status, ResultOf(p))
    BY <1>1, <1>3 DEF ReadPod, Plans
  <2>4. WellFormed(plan'.status)
    BY <1>1, <2>2, <2>3, WellFormedRecord
  <2> QED BY <1>3, <2>4 DEF ReadPod, object, bounds, WellFormed, ValidStatus
<1>4. CASE Decide
  <2> DEFINE decided == [plan EXCEPT !.dirty = plan.consume \/ plan.status # copy.status,
                                     !.due = ~plan.live /\ CheckDue(plan.status, lastRun, plan.now),
                                     !.from = CheckFrom(plan.status, lastRun)]
  <2>1. decided.status = plan.status
    BY <1>1 DEF Plans
  <2>2. Continue(decided, copy)
    BY <1>4 DEF Decide
  <2> HIDE DEF decided
  <2>3. WellFormed(plan'.status)
    BY <2>1, <2>2, PlanWellFormed
  <2> QED BY <1>4, <2>3 DEF Decide, object, bounds, WellFormed, ValidStatus
<1>5. CASE UpdateStatus
  <2> DEFINE left == [plan EXCEPT !.dirty = FALSE]
             written == [copy EXCEPT !.status = plan.status]
  <2>1. left.status = plan.status
    BY <1>1 DEF Plans
  <2>2. Continue(left, written) \/ EndReconcile
    BY <1>5 DEF UpdateStatus
  <2> HIDE DEF left, written
  <2>3. WellFormed(plan'.status)
    BY <2>1, <2>2, PlanWellFormed
  <2>4. Write(spec, plan.status) \/ UNCHANGED object
    BY <1>5 DEF UpdateStatus
  <2>5. WellFormed(status') /\ WellFormed(cache'.status)
    BY <2>4, WriteWellFormed DEF object
  <2> QED BY <1>5, <2>3, <2>5 DEF UpdateStatus, bounds
<1>6. CASE ConsumeApplied
  <2> DEFINE sp == [copy.spec EXCEPT !.applied = FALSE]
             left == [plan EXCEPT !.consume = FALSE]
             written == [copy EXCEPT !.spec = sp]
  <2>1. left.status = plan.status
    BY <1>1 DEF Plans
  <2>2. Continue(left, written) \/ EndReconcile
    BY <1>6 DEF ConsumeApplied
  <2>3. Write(sp, status) \/ UNCHANGED object
    BY <1>6 DEF ConsumeApplied
  <2> HIDE DEF left, written, sp
  <2>4. WellFormed(plan'.status)
    BY <2>1, <2>2, PlanWellFormed
  <2>5. WellFormed(status') /\ WellFormed(cache'.status)
    BY <2>3, WriteWellFormed DEF object
  <2> QED BY <1>6, <2>4, <2>5 DEF ConsumeApplied, bounds
<1>7. ASSUME NEW n \in plan.stale, DeleteStale(n)
      PROVE  CopiesWellFormed'
  <2> DEFINE left == [plan EXCEPT !.stale = @ \ {n}]
  <2>1. left.status = plan.status
    BY <1>1 DEF Plans
  <2>2. Continue(left, copy)
    BY <1>7 DEF DeleteStale
  <2> HIDE DEF left
  <2>3. WellFormed(plan'.status)
    BY <2>1, <2>2, PlanWellFormed
  <2> QED BY <1>7, <2>3 DEF DeleteStale, object, bounds, WellFormed, ValidStatus
<1>8. CASE StartCheck
  BY <1>8 DEF StartCheck, object, bounds, WellFormed, ValidStatus
<1>9. CASE CreateConfigMap \/ EndDelete \/ RemoveFinalizer
  <2>1. WellFormed(plan'.status)
    BY <1>9, WellFormedNew DEF CreateConfigMap, EndDelete, RemoveFinalizer, EndReconcile, NoPlan
  <2> QED
    BY <1>9, <2>1 DEF CreateConfigMap, EndDelete, RemoveFinalizer, object, bounds, WellFormed, ValidStatus
<1>10. CASE ObserveDeleted
  <2>1. plan'.status = NewStatus
    BY <1>10 DEF ObserveDeleted, NoPlan
  <2> QED BY <1>10, <2>1, WellFormedNew DEF ObserveDeleted, object, bounds, WellFormed, ValidStatus
<1>11. ASSUME (\E n \in plan.stale : DeletePod(n)) \/ (\E n \in plan.cms : DeleteConfigMap(n))
       PROVE  CopiesWellFormed'
  <2>1. plan'.status = plan.status
    BY <1>1, <1>11 DEF DeletePod, DeleteConfigMap, Plans
  <2> QED BY <1>11, <2>1 DEF DeletePod, DeleteConfigMap, object, bounds, WellFormed, ValidStatus
<1> QED BY <1>2, <1>3, <1>4, <1>5, <1>6, <1>7, <1>8, <1>9, <1>10, <1>11 DEF Reconcile

LEMMA OthersWellFormed ==
  ASSUME Typed, CopiesWellFormed, Kubelet \/ Environment \/ People \/ CallFails \/ Restart
  PROVE  CopiesWellFormed'
<1> USE DEF CopiesWellFormed
<1>1. spec \in Specs /\ status \in Statuses /\ clock \in Time
  BY DEF Typed, TypeOK, ObjectTypes, BoundTypes
<1>2. CASE Kubelet
  BY <1>2 DEF Kubelet, PodStarts, ContainerExits, DeadlineStops, PodFails, PodGone, ByKubelet, object,
     worker, bounds, WellFormed, ValidStatus
<1>3. ASSUME (\E c \in cms : Collect(c)) \/ CacheSync
      PROVE  CopiesWellFormed'
  BY <1>3 DEF Collect, CacheSync, object, worker, bounds, WellFormed, ValidStatus
<1>4. CASE Tick
  <2>1. clock' # None
    BY <1>1, <1>4 DEF Tick
  <2> QED BY <1>4, <2>1 DEF Tick, object, worker, WellFormed, ValidStatus
<1>5. ASSUME NEW sp, NEW st, WriteByOther(sp, st), WellFormed(st), clock' = clock
      PROVE  CopiesWellFormed'
  <2>1. WellFormed(status') /\ WellFormed(cache'.status)
    BY <1>5, WriteWellFormed DEF WriteByOther
  <2> QED BY <1>5, <2>1 DEF WriteByOther, WellFormed, ValidStatus
<1>6. CASE WriterStarts
  <2>1. WellFormed([status EXCEPT !.state = "Analyzing"])
    BY <1>1, <1>6 DEF WriterStarts, WellFormed, ValidStatus, Ended, Statuses
  <2> QED BY <1>5, <1>6, <2>1 DEF WriterStarts, ByWriter, bounds
<1>7. ASSUME NEW fix \in Fixes \union {NoFix}, WriterFinishes(fix)
      PROVE  CopiesWellFormed'
  <2>1. WellFormed([status EXCEPT !.state = "Open", !.howToFix = fix])
    BY <1>1, <1>7 DEF WriterFinishes, WellFormed, ValidStatus, Ended, Statuses
  <2> QED BY <1>5, <1>7, <2>1 DEF WriterFinishes, ByWriter, bounds
<1>8. CASE WriterReanalyses
  <2>1. WellFormed([NewStatus EXCEPT !.state = "Analyzing"])
    BY DEF WellFormed, ValidStatus, Ended, NewStatus
  <2> QED BY <1>5, <1>8, <2>1 DEF WriterReanalyses, ByWriter, bounds
<1>9. CASE People
  <2>1. ASSUME NEW exit \in RunExits, NEW at \in 1..clock, ApplyRecorded(exit, at)
        PROVE  CopiesWellFormed'
    <3>1. exit \in Exits /\ at \in Time /\ at # None
      BY <1>1, BoundsAssumption
    <3>2. WellFormed(RecordApply(status, exit, at))
      BY <1>1, <3>1, WellFormedRecordApply
    <3> QED BY <1>5, <2>1, <3>2 DEF ApplyRecorded, Edit
  <2>2. CASE HumanApplies \/ HumanCloses \/ HumanAsksReanalysis \/ HumanDeletes
    BY <1>5, <2>2 DEF HumanApplies, HumanCloses, HumanAsksReanalysis, HumanDeletes, Edit
  <2> QED BY <1>9, <2>1, <2>2 DEF People
<1>10. CASE CallFails \/ Restart
  <2>1. WellFormed(plan'.status)
    BY <1>10, WellFormedNew DEF CallFails, Restart, EndReconcile, NoPlan
  <2> QED BY <1>10, <2>1 DEF CallFails, Restart, object, WellFormed, ValidStatus
<1> QED BY <1>2, <1>3, <1>4, <1>6, <1>7, <1>8, <1>9, <1>10 DEF Environment

LEMMA NextWellFormed == Typed /\ CopiesWellFormed /\ [Next]_vars => CopiesWellFormed'
<1> SUFFICES ASSUME Typed, CopiesWellFormed, [Next]_vars
             PROVE  CopiesWellFormed'
  OBVIOUS
<1>1. CASE Next
  BY <1>1, ReconcileWellFormed, OthersWellFormed DEF Next
<1>2. CASE UNCHANGED vars
  BY <1>2 DEF vars, object, worker, bounds, CopiesWellFormed, WellFormed, ValidStatus
<1> QED BY <1>1, <1>2

LEMMA AlwaysWellFormed == Spec => []CopiesWellFormed
BY InitWellFormed, NextWellFormed, AlwaysTyped, PTL DEF Spec

(* In every reachable state the settle window is there exactly while the   *)
(* incident is Verifying and the resolution exactly when it has ended.     *)
THEOREM WindowAndResolutionHold == Spec => []WindowAndResolution
<1>1. CopiesWellFormed => WindowAndResolution
  BY DEF CopiesWellFormed, WindowAndResolution
<1> QED BY <1>1, AlwaysWellFormed, PTL

-----------------------------------------------------------------------------
(* Recording a run twice.  With the window of a Verifying incident always  *)
(* there, the second time finds the same entry and takes no transition.    *)
LEMMA RecordIdempotent ==
  ASSUME NEW st \in Statuses, WellFormed(st),
         NEW r \in Results, r.script = CurrentScript(st),
         r.script = CurrentScript(Record(st, r))
  PROVE  Record(Record(st, r), r) = Record(st, r)
<1> DEFINE noted == SetLastCheck(st, r.script, r.exit, r.at)
<1>1. /\ noted \in Statuses /\ noted.state = st.state /\ noted.howToFix = st.howToFix
      /\ noted.reproduced = st.reproduced /\ noted.verifyingSince = st.verifyingSince
  <2>1. noted \in Statuses
    BY CheckTypes DEF Results, Checked, Scripts
  <2> QED BY <2>1 DEF SetLastCheck, Statuses
<1>2. \A t \in Statuses : t.lastChecks = noted.lastChecks => SetLastCheck(t, r.script, r.exit, r.at) = t
  <2> SUFFICES ASSUME NEW t \in Statuses, t.lastChecks = noted.lastChecks
               PROVE  SetLastCheck(t, r.script, r.exit, r.at) = t
    OBVIOUS
  <2>1. r.script \in {"precondition", "verify"} /\ r.script \in Scripts
    BY DEF Results, Checked, Scripts
  <2>2. \/ t.lastChecks[r.script] # NoCheck /\ t.lastChecks[r.script].exit = r.exit
        \/ t.lastChecks[r.script] = [exit |-> r.exit, since |-> r.at]
    BY <1>1, <2>1 DEF SetLastCheck, Statuses
  <2>3. CASE t.lastChecks[r.script] # NoCheck /\ t.lastChecks[r.script].exit = r.exit
    BY <2>1, <2>3 DEF SetLastCheck
  <2>4. CASE t.lastChecks[r.script] = [exit |-> r.exit, since |-> r.at]
    <3>1. [t EXCEPT !.lastChecks[r.script] = [exit |-> r.exit, since |-> r.at]] = t
      BY <2>1, <2>4 DEF Statuses
    <3> QED BY <3>1 DEF SetLastCheck
  <2> QED BY <2>2, <2>3, <2>4
<1> HIDE DEF noted
<1>3. SetLastCheck(noted, r.script, r.exit, r.at) = noted
  BY <1>1, <1>2
<1>4. CASE ~Known(r.exit)
  BY <1>3, <1>4 DEF Record, noted
<1>5. CASE Known(r.exit) /\ r.script = "precondition"
  <2>1. Record(st, r) = RecordPrecondition(noted, r)
    BY <1>5 DEF Record, noted
  <2>2. CASE ~Reproduced(noted)
    <3> DEFINE once == [noted EXCEPT !.reproduced = IF r.exit = 1 THEN "True" ELSE "False"]
    <3>1. Record(st, r) = once
      BY <2>1, <2>2 DEF RecordPrecondition
    <3>2. once \in Statuses /\ once.lastChecks = noted.lastChecks
      BY <1>1 DEF Statuses
    <3>3. SetLastCheck(once, r.script, r.exit, r.at) = once
      BY <1>2, <3>2
    <3>4. once.reproduced # "False"
      BY <1>5, <3>1, <3>2 DEF CurrentScript, Flagged
    <3>5. r.exit = 1 /\ Reproduced(once)
      BY <1>1, <1>5, <3>4 DEF Known, Statuses, Reproduced
    <3> HIDE DEF once
    <3>6. RecordPrecondition(once, r) = once
      BY <3>5 DEF RecordPrecondition
    <3> QED BY <1>5, <3>1, <3>3, <3>6 DEF Record
  <2>3. CASE Reproduced(noted)
    <3>1. r.exit # 0
      <4>1. SUFFICES ASSUME r.exit = 0
                     PROVE  FALSE
        OBVIOUS
      <4>2. Record(st, r) = SetState(noted, "Verifying", r.at)
        BY <2>1, <2>3, <4>1 DEF RecordPrecondition
      <4>3. SetState(noted, "Verifying", r.at).state = "Verifying"
        BY <1>1 DEF SetState, EnterVerifying, ClearLastCheck, Statuses
      <4> QED BY <1>5, <4>2, <4>3 DEF CurrentScript
    <3>2. RecordPrecondition(noted, r) = noted
      BY <2>3, <3>1 DEF RecordPrecondition
    <3> QED BY <1>3, <1>5, <2>1, <3>2 DEF Record
  <2> QED BY <2>2, <2>3
<1>6. CASE Known(r.exit) /\ r.script = "verify"
  <2>1. Record(st, r) = RecordVerify(noted, r)
    BY <1>6 DEF Record, noted
  <2>2. st.state = "Verifying" /\ noted.verifyingSince # None
    BY <1>1, <1>6 DEF CurrentScript, WellFormed
  <2>3. RecordVerify(noted, r) \in
          {noted, Resolve(noted, "Resolved", "verify", r.at), SetState(noted, "Open", r.at)}
    BY <2>2 DEF RecordVerify
  <2>4. Resolve(noted, "Resolved", "verify", r.at).state = "Resolved"
    BY <1>1 DEF Resolve, SetState, Statuses
  <2>5. SetState(noted, "Open", r.at).state = "Open"
    BY <1>1 DEF SetState, ClearLastCheck, Statuses
  <2>6. Record(st, r) = noted
    BY <1>6, <2>1, <2>3, <2>4, <2>5 DEF CurrentScript
  <2>7. Record(noted, r) = RecordVerify(noted, r)
    BY <1>3, <1>6 DEF Record
  <2> QED BY <2>1, <2>6, <2>7
<1> QED BY <1>4, <1>5, <1>6 DEF Results, Checked

(* In every reachable state, recording a run of the current script again   *)
(* changes nothing while that script is still current: the pod that        *)
(* outlived a failed delete is harmless.                                   *)
THEOREM RecordingTwice == Spec => []RecordingTwiceChangesNothing
<1>1. Typed /\ CopiesWellFormed => RecordingTwiceChangesNothing
  <2> SUFFICES ASSUME Typed, CopiesWellFormed,
                      NEW r \in RunsOf(status),
                      r.script = CurrentScript(Record(status, r))
               PROVE  Record(Record(status, r), r) = Record(status, r)
    BY DEF RecordingTwiceChangesNothing
  <2>1. status \in Statuses /\ WellFormed(status)
    BY DEF Typed, TypeOK, ObjectTypes, CopiesWellFormed
  <2>2. r \in Results /\ r.script = CurrentScript(status)
    BY BoundsAssumption DEF RunsOf, Results
  <2> QED BY <2>1, <2>2, RecordIdempotent
<1> QED BY <1>1, AlwaysTyped, AlwaysWellFormed, PTL

-----------------------------------------------------------------------------
(* The writes of Update and the validation rules of the CRD. *)
LEMMA ApplySpecFollows ==
  ASSUME NEW sp \in Specs, NEW st \in Statuses, NEW now \in Time, st.state \in Ended
  PROVE  ApplySpec(sp, st, now).state \in {st.state, "Closed"}
<1>1. ~AppliesNow(sp, st)
  BY DEF AppliesNow, Ended
<1>2. Resolve(st, "Closed", "user", now).state = "Closed"
  BY DEF Resolve, SetState, Statuses
<1> QED BY <1>1, <1>2 DEF ApplySpec

(* A write over the latest version leaves the writer with the latest      *)
(* version.                                                                *)
LEMMA WriteFollows ==
  ASSUME CopiesFollow, pc = "update", NEW sp, NEW st, NEW p, NEW c,
         Write(sp, st), Continue(p, c) \/ EndReconcile,
         c = [spec |-> sp, status |-> st],
         st.state \in Ended => p.status.state \in {st.state, "Closed"}
  PROVE  CopiesFollow'
<1>1. cacheCurrent' => cache' = [spec |-> spec', status |-> status']
  BY DEF CopiesFollow, Write
<1>2. CASE pc' = "update" /\ plan' = p /\ copy' = c /\ copyCurrent' = copyCurrent
  <2>1. copy' = [spec |-> spec', status |-> status']
    BY <1>2 DEF Write
  <2>2. copy'.status = st
    BY <1>2
  <2>3. copy'.status.state \in Ended => plan'.status.state \in {copy'.status.state, "Closed"}
    BY <1>2, <2>2
  <2> QED BY <1>1, <1>2, <2>1, <2>3 DEF CopiesFollow
<1>3. CASE EndReconcile
  BY <1>1, <1>3 DEF CopiesFollow, EndReconcile
<1> QED BY <1>2, <1>3 DEF Continue

(* The reconcile's own steps keep its copy of the object up to date. *)
LEMMA ReconcileFollows ==
  ASSUME Typed, CopiesFollow, Reconcile
  PROVE  CopiesFollow'
<1> USE DEF CopiesFollow
<1>1. plan \in Plans /\ copy \in Copies /\ copyCurrent \in BOOLEAN
  BY DEF Typed, TypeOK, ReconcileTypes
<1>2. CASE Observe
  <2>1. cache.spec \in Specs /\ cache.status \in Statuses /\ clock \in Time
    BY DEF Typed, TypeOK, ObjectTypes, Copies, BoundTypes
  <2>2. plan'.status = ApplySpec(cache.spec, cache.status, clock)
    BY <1>2 DEF Observe, NoPlan
  <2>3. cache.status.state \in Ended => plan'.status.state \in {cache.status.state, "Closed"}
    BY <2>1, <2>2, ApplySpecFollows
  <2> QED BY <1>2, <2>3 DEF Observe, object
<1>3. ASSUME NEW p \in plan.todo, ReadPod(p)
      PROVE  CopiesFollow'
  <2>1. p \in Pods
    BY <1>1 DEF Plans
  <2>2. ResultOf(p).script \in Checked
    BY <2>1, ResultType DEF Results
  <2>3. plan.status.state \in Ended => CurrentScript(plan.status) = ""
    BY DEF CurrentScript, Ended
  <2>4. plan.status.state \in Ended => plan'.status = plan.status
    BY <1>1, <1>3, <2>2, <2>3 DEF ReadPod, Plans, Checked
  <2> QED BY <1>3, <2>4 DEF ReadPod, object, Ended
<1>4. CASE Decide
  <2> DEFINE decided == [plan EXCEPT !.dirty = plan.consume \/ plan.status # copy.status,
                                     !.due = ~plan.live /\ CheckDue(plan.status, lastRun, plan.now),
                                     !.from = CheckFrom(plan.status, lastRun)]
  <2>1. decided.status = plan.status /\ Continue(decided, copy)
    BY <1>1, <1>4 DEF Plans, Decide
  <2> HIDE DEF decided
  <2> QED BY <1>4, <2>1 DEF Decide, Continue, EndReconcile, object
<1>5. CASE UpdateStatus
  <2> DEFINE left == [plan EXCEPT !.dirty = FALSE]
             written == [copy EXCEPT !.status = plan.status]
  <2>1. CASE copyCurrent /\ Write(spec, plan.status) /\ Continue(left, written)
    <3>1. copy.spec = spec
      BY <1>5, <2>1 DEF UpdateStatus
    <3>2. written = [spec |-> spec, status |-> plan.status]
      BY <1>1, <3>1 DEF Copies
    <3>3. left.status = plan.status
      BY <1>1 DEF Plans
    <3>4. pc = "update"
      BY <1>5 DEF UpdateStatus
    <3> HIDE DEF left, written, CopiesFollow
    <3> QED BY <2>1, <3>2, <3>3, <3>4, WriteFollows
  <2>2. CASE EndReconcile /\ UNCHANGED object
    BY <2>2 DEF EndReconcile, object
  <2> QED BY <1>5, <2>1, <2>2 DEF UpdateStatus
<1>6. CASE ConsumeApplied
  <2> DEFINE sp == [copy.spec EXCEPT !.applied = FALSE]
             left == [plan EXCEPT !.consume = FALSE]
             written == [copy EXCEPT !.spec = sp]
  <2>1. CASE copyCurrent /\ Write(sp, status) /\ Continue(left, written)
    <3>1. copy.status = status
      BY <1>6, <2>1 DEF ConsumeApplied
    <3>2. left.status = plan.status
      BY <1>1 DEF Plans
    <3>3. pc = "update"
      BY <1>6 DEF ConsumeApplied
    <3>4. status.state \in Ended => left.status.state \in {status.state, "Closed"}
      BY <3>1, <3>2, <3>3
    <3>5. written = [spec |-> sp, status |-> status]
      <4> HIDE DEF sp
      <4> QED BY <1>1, <3>1 DEF Copies
    <3> HIDE DEF left, written, sp, CopiesFollow
    <3> QED BY <2>1, <3>3, <3>4, <3>5, WriteFollows
  <2>2. CASE EndReconcile /\ UNCHANGED object
    BY <2>2 DEF EndReconcile, object
  <2> QED BY <1>6, <2>1, <2>2 DEF ConsumeApplied
<1>7. ASSUME NEW n \in plan.stale, DeleteStale(n)
      PROVE  CopiesFollow'
  <2> DEFINE left == [plan EXCEPT !.stale = @ \ {n}]
  <2>1. left.status = plan.status /\ Continue(left, copy)
    BY <1>1, <1>7 DEF Plans, DeleteStale
  <2> HIDE DEF left
  <2> QED BY <1>7, <2>1 DEF DeleteStale, Continue, EndReconcile, object
<1>8. CASE StartCheck
  BY <1>8 DEF StartCheck, object
<1>9. CASE CreateConfigMap \/ EndDelete \/ RemoveFinalizer
  BY <1>9 DEF CreateConfigMap, EndDelete, RemoveFinalizer, EndReconcile, object
<1>10. CASE ObserveDeleted
  BY <1>10 DEF ObserveDeleted, object
<1>11. ASSUME (\E n \in plan.stale : DeletePod(n)) \/ (\E n \in plan.cms : DeleteConfigMap(n))
       PROVE  CopiesFollow'
  BY <1>11 DEF DeletePod, DeleteConfigMap, object
<1> QED BY <1>2, <1>3, <1>4, <1>5, <1>6, <1>7, <1>8, <1>9, <1>10, <1>11 DEF Reconcile

(* A write by anyone else makes the copy old, unless it changes nothing. *)
LEMMA OtherWriteFollows ==
  ASSUME CopiesFollow, NEW sp, NEW st, WriteByOther(sp, st)
  PROVE  CopiesFollow'
BY DEF CopiesFollow, WriteByOther, Write

LEMMA OthersFollow ==
  ASSUME CopiesFollow, Kubelet \/ Environment \/ People \/ CallFails \/ Restart
  PROVE  CopiesFollow'
<1>1. CASE Kubelet
  <2>1. UNCHANGED <<object, worker>>
    BY <1>1 DEF Kubelet, PodStarts, ContainerExits, DeadlineStops, PodFails, PodGone, ByKubelet
  <2> QED BY <2>1 DEF CopiesFollow, object, worker
<1>2. ASSUME (\E c \in cms : Collect(c)) \/ CacheSync \/ Tick
      PROVE  CopiesFollow'
  BY <1>2 DEF CopiesFollow, Collect, CacheSync, Tick, object, worker
<1>3. CASE WriterStarts \/ (\E fix \in Fixes \union {NoFix} : WriterFinishes(fix)) \/ WriterReanalyses
  BY <1>3, OtherWriteFollows DEF WriterStarts, WriterFinishes, WriterReanalyses, ByWriter
<1>4. CASE People
  BY <1>4, OtherWriteFollows DEF People, HumanApplies, HumanCloses, HumanAsksReanalysis,
     HumanDeletes, ApplyRecorded, Edit
<1>5. CASE CallFails \/ Restart
  BY <1>5 DEF CopiesFollow, CallFails, Restart, EndReconcile, object
<1> QED BY <1>1, <1>2, <1>3, <1>4, <1>5 DEF Environment

LEMMA AlwaysFollow == Spec => []CopiesFollow
<1>1. Init => CopiesFollow
  BY DEF Init, CopiesFollow, NewCopy
<1>2. Typed /\ CopiesFollow /\ [Next]_vars => CopiesFollow'
  <2> SUFFICES ASSUME Typed, CopiesFollow, [Next]_vars
               PROVE  CopiesFollow'
    OBVIOUS
  <2>1. CASE Next
    BY <2>1, ReconcileFollows, OthersFollow DEF Next
  <2>2. CASE UNCHANGED vars
    BY <2>2 DEF vars, object, worker, CopiesFollow
  <2> QED BY <2>1, <2>2
<1> QED BY <1>1, <1>2, AlwaysTyped, PTL DEF Spec

(* A status Update writes over the version it read is never refused by the *)
(* CRD's validation rules.                                                 *)
THEOREM WritesAreAccepted == Spec => []WritesAccepted
<1>1. CopiesWellFormed /\ CopiesFollow => WritesAccepted
  BY DEF CopiesWellFormed, CopiesFollow, WritesAccepted, CRDAccepts, WellFormed
<1> QED BY <1>1, AlwaysWellFormed, AlwaysFollow, PTL
=============================================================================
