------------------------ MODULE IncidentApplyProofs ------------------------
(***************************************************************************)
(* Type correctness of IncidentApplies and their controller, for every set *)
(* of requests and fixes, every configuration and every bound, whatever    *)
(* the informers lag behind.  IncidentApplySafety builds on it.            *)
(***************************************************************************)
EXTENDS IncidentApplyProperties, MachineProofs

USE DEF None, Time, NoExit

-----------------------------------------------------------------------------
(* The values the variables start from. *)
LEMMA NewValues ==
  /\ NoStatus \in ApplyStatuses /\ NoObject \in Objects /\ NoRun \in Runs /\ NoPlan \in Plans
  /\ NoPod \in ApplyPods /\ NoConfigMap \in ConfigMaps
<1>1. NoStatus \in ApplyStatuses
  BY DEF NoStatus, ApplyStatuses, Phases, Exits
<1>2. NoRun \in Runs
  BY DEF NoRun, Runs, Exits
<1> QED
  BY <1>1, <1>2 DEF NoObject, Objects, NoPlan, Plans, NoPod, ApplyPods, PodPhases, Codes,
     NoConfigMap, ConfigMaps, Ownership

LEMMA InitTyped == Init => TypeOK
<1> SUFFICES ASSUME Init PROVE TypeOK
  OBVIOUS
<1>1. ObjectTypes
  <2>1. PICK fix \in Fixes :
          incident = [ there |-> TRUE, version |-> 0, analysis |-> 0,
                       status |-> [NewStatus EXCEPT !.state = "Open", !.howToFix = fix] ]
    BY DEF Init
  <2>2. [NewStatus EXCEPT !.state = "Open", !.howToFix = fix] \in Statuses
    BY NewStatusType DEF Statuses, States
  <2>3. incident \in Incidents
    BY <2>1, <2>2 DEF Incidents
  <2> QED BY <2>3, NewValues DEF Init, ObjectTypes
<1>2. WorkerTypes /\ ClusterTypes
  BY NewValues DEF Init, WorkerTypes, Places, ClusterTypes, Ownership
<1>3. HistoryTypes /\ BoundTypes
  BY ApplyAssumption DEF Init, HistoryTypes, BoundTypes
<1> QED BY <1>1, <1>2, <1>3 DEF TypeOK

-----------------------------------------------------------------------------
(* What the actions are made of keeps the types. *)
LEMMA WorkerStepTypes ==
  ASSUME WorkerTypes, NEW r \in Requests, NEW to \in Places, NEW o \in Objects, NEW p \in Plans,
         EndReconcile(r) \/ GoOn(r, to, o, p) \/ Continue(r, o, p)
  PROVE  WorkerTypes'
<1>1. CASE EndReconcile(r)
  BY <1>1, NewValues DEF EndReconcile, WorkerTypes, Places
<1>2. ASSUME NEW at \in Places, GoOn(r, at, o, p)
      PROVE  WorkerTypes'
  BY <1>2 DEF GoOn, WorkerTypes
<1> QED BY <1>1, <1>2 DEF Continue, Places

LEMMA SetRequestTypes ==
  ASSUME ObjectTypes, NEW r \in Requests, NEW o \in Objects, SetRequest(r, o)
  PROVE  requests' \in [Requests -> Objects] /\ cache' \in [Requests -> Objects]
<1>1. [o EXCEPT !.version = @ + 1] \in Objects
  BY DEF Objects
<1> QED BY <1>1 DEF SetRequest, ObjectTypes

LEMMA RuntimeWriteTypes ==
  ASSUME TypeOK, NEW r \in Requests, NEW o, NEW st \in ApplyStatuses, RuntimeWrites(r, o, st)
  PROVE  requests' \in [Requests -> Objects] /\ cache' \in [Requests -> Objects]
<1>1. /\ requests[r] \in Objects
      /\ requests \in [Requests -> Objects] /\ cache \in [Requests -> Objects]
  BY DEF TypeOK, ObjectTypes
<1>2. [requests[r] EXCEPT !.status = st] \in Objects
  BY <1>1 DEF Objects
<1> QED BY <1>1, <1>2, SetRequestTypes DEF RuntimeWrites, KeepRequests, TypeOK

LEMMA SetIncidentTypes ==
  ASSUME ObjectTypes, NEW i \in Incidents, SetIncident(i)
  PROVE  incident' \in Incidents /\ incidentCache' \in Incidents
<1>1. [i EXCEPT !.version = @ + 1] \in Incidents
  BY DEF Incidents
<1> QED BY <1>1 DEF SetIncident, ObjectTypes

LEMMA EndingTypes ==
  ASSUME NEW st \in ApplyStatuses, NEW phase \in Phases, NEW exit \in Exits, NEW at \in Time
  PROVE  Ending(st, phase, exit, at) \in ApplyStatuses
BY DEF Ending, ApplyStatuses

LEMMA ConcludeTypes ==
  ASSUME TypeOK, NEW r \in Requests, NEW st \in ApplyStatuses, NEW run \in Runs,
         Conclude(r, st, run)
  PROVE  WorkerTypes'
<1> DEFINE old == cache[r].status
           dirty == st # old
           announce == Terminal(st) /\ ~Terminal(old)
           pod == Terminal(st) /\ ~Absent(pods[r]) /\ ~pods[r].leaving
           expired == Terminal(st) /\ clock >= st.finishedAt + TTL
           p == [NoPlan EXCEPT !.status = st, !.run = run, !.dirty = dirty,
                               !.announce = announce, !.pod = pod, !.expired = expired]
<1>1. dirty \in BOOLEAN /\ announce \in BOOLEAN /\ pod \in BOOLEAN /\ expired \in BOOLEAN
  BY DEF Terminal
<1>2. p \in Plans
  <2> HIDE DEF dirty, announce, pod, expired
  <2> QED BY <1>1, NewValues DEF Plans
<1>3. Continue(r, cache[r], p)
  BY DEF Conclude
<1>4. cache[r] \in Objects /\ WorkerTypes
  BY DEF TypeOK, ObjectTypes
<1> HIDE DEF p
<1> QED BY <1>2, <1>3, <1>4, WorkerStepTypes DEF Places

LEMMA PodGoesTypes ==
  ASSUME ClusterTypes, NEW r \in Requests, PodGoes(r) \/ DeletePod(r)
  PROVE  ClusterTypes'
<1>1. CASE PodGoes(r)
  <2>1. [configs EXCEPT ![r].owner = Orphaned(@)] \in [Requests -> ConfigMaps]
    BY DEF ClusterTypes, ConfigMaps, Ownership, Orphaned
  <2>2. [secrets EXCEPT ![r] = Orphaned(@)] \in [Requests -> Ownership]
    BY DEF ClusterTypes, Ownership, Orphaned
  <2> QED BY <1>1, <2>1, <2>2, NewValues DEF PodGoes, ClusterTypes
<1>2. CASE UNCHANGED cluster
  BY <1>2 DEF cluster, ClusterTypes
<1>3. CASE pods' = [pods EXCEPT ![r].leaving = TRUE] /\ UNCHANGED <<secrets, configs>>
  BY <1>3 DEF ClusterTypes, ApplyPods
<1> QED BY <1>1, <1>2, <1>3 DEF DeletePod

LEMMA RunTypes ==
  ASSUME NEW p \in ApplyPods
  PROVE  ExitOf(p) \in Exits /\ EndedAt(p, ApplyTimeout) \in Time
BY ApplyAssumption, PodResultType DEF ApplyPods

-----------------------------------------------------------------------------
(* Every action keeps the types. *)
LEMMA ObserveTyped ==
  ASSUME TypeOK, NEW r \in Requests,
         (\E allowed \in Answers : ObserveNew(r, allowed)) \/ ObserveRun(r) \/ ObserveDeleted(r)
  PROVE  TypeOK'
<1> USE DEF TypeOK
<1>1. /\ cache[r] \in Objects /\ cache[r].status \in ApplyStatuses
      /\ pods[r] \in ApplyPods /\ clock \in Time
      /\ incidentCache \in Incidents /\ incidentCache.status.howToFix \in Fixes \union {NoFix}
  BY DEF ObjectTypes, Objects, ClusterTypes, BoundTypes, Incidents, Statuses
<1>2. ASSUME NEW allowed \in Answers, ObserveNew(r, allowed)
      PROVE  TypeOK'
  <2> DEFINE admitting == [NoPlan EXCEPT !.script = incidentCache.status.howToFix]
             rejected == Ending(cache[r].status, "Rejected", NoExit, clock)
  <2>1. admitting \in Plans
    BY <1>1, NewValues DEF Plans
  <2>2. rejected \in ApplyStatuses
    BY <1>1, EndingTypes DEF Phases, Exits
  <2>3. GoOn(r, "pending", cache[r], admitting) \/ Conclude(r, rejected, NoRun)
    BY <1>2 DEF ObserveNew
  <2>4. WorkerTypes'
    <3> HIDE DEF admitting, rejected
    <3> QED BY <1>1, <2>1, <2>2, <2>3, NewValues, WorkerStepTypes, ConcludeTypes DEF Places
  <2>5. admittedFor' \in [Requests -> Nat]
    BY <1>1, <1>2 DEF ObserveNew, HistoryTypes, Incidents
  <2> QED
    BY <1>2, <2>4, <2>5 DEF ObserveNew, objects, cluster, bounds, ObjectTypes, ClusterTypes,
       HistoryTypes, BoundTypes
<1>3. CASE ObserveRun(r)
  <2> DEFINE st == IF cache[r].status.phase = NoPhase THEN Started(r) ELSE cache[r].status
             run == [exit |-> ExitOf(pods[r]), at |-> EndedAt(pods[r], ApplyTimeout)]
  <2>1. Started(r) \in ApplyStatuses
    BY <1>1 DEF Started, ApplyStatuses, Phases, ClusterTypes, ConfigMaps
  <2>2. st \in ApplyStatuses
    BY <1>1, <2>1
  <2>3. run \in Runs
    BY <1>1, RunTypes DEF Runs
  <2>4. /\ Ending(st, "Failed", NoExit, clock) \in ApplyStatuses
        /\ FinishedRun(r, st) \in ApplyStatuses
    <3> HIDE DEF st
    <3> QED BY <1>1, <2>2, EndingTypes, RunTypes DEF FinishedRun, Phases, Exits
  <2>5. \/ Conclude(r, Ending(st, "Failed", NoExit, clock), NoRun)
        \/ Conclude(r, FinishedRun(r, st), run)
        \/ Conclude(r, st, NoRun)
    BY <1>3 DEF ObserveRun
  <2>6. WorkerTypes'
    <3> HIDE DEF st, run
    <3> QED BY <2>2, <2>3, <2>4, <2>5, NewValues, ConcludeTypes
  <2> QED
    BY <1>3, <2>6 DEF ObserveRun, objects, cluster, history, bounds, ObjectTypes, ClusterTypes,
       HistoryTypes, BoundTypes
<1>4. CASE ObserveDeleted(r)
  <2>1. WorkerTypes'
    BY <1>1, <1>4, NewValues, WorkerStepTypes DEF ObserveDeleted, Places
  <2> QED
    BY <1>4, <2>1 DEF ObserveDeleted, objects, cluster, history, bounds, ObjectTypes, ClusterTypes,
       HistoryTypes, BoundTypes
<1> QED BY <1>2, <1>3, <1>4

LEMMA CreateTyped ==
  ASSUME TypeOK, NEW r \in Requests,
         WritePending(r) \/ CreatePod(r) \/ CreateSecret(r) \/ CreateConfigMap(r) \/ Annotate(r)
  PROVE  TypeOK'
<1> USE DEF TypeOK
<1>1. /\ copy[r] \in Objects /\ requests[r] \in Objects /\ plan[r] \in Plans /\ clock \in Time
      /\ plan[r].script \in Fixes \union {NoFix}
  BY DEF ObjectTypes, WorkerTypes, BoundTypes, Plans
<1>2. CASE WritePending(r)
  <2>1. [copy[r] EXCEPT !.incomplete = TRUE] \in Objects
    BY <1>1 DEF Objects
  <2>2. requests' \in [Requests -> Objects] /\ cache' \in [Requests -> Objects]
    BY <1>2, <2>1, SetRequestTypes DEF WritePending, KeepRequests, ObjectTypes
  <2>3. WorkerTypes'
    BY <1>1, <1>2, <2>2, WorkerStepTypes DEF WritePending, Places
  <2> QED
    BY <1>2, <2>2, <2>3 DEF WritePending, KeepIncident, cluster, history, bounds, ObjectTypes,
       ClusterTypes, HistoryTypes, BoundTypes
<1>3. CASE CreatePod(r)
  <2>1. ApplyPod(clock) \in ApplyPods
    BY <1>1, NewValues DEF ApplyPod, ApplyPods, PodPhases
  <2>2. ClusterTypes'
    BY <1>3, <2>1 DEF CreatePod, ClusterTypes
  <2>3. WorkerTypes'
    BY <1>1, <1>3, WorkerStepTypes DEF CreatePod, Places
  <2> QED
    BY <1>3, <2>2, <2>3 DEF CreatePod, objects, history, bounds, ObjectTypes, HistoryTypes, BoundTypes
<1>4. CASE CreateSecret(r)
  <2>1. ClusterTypes'
    BY <1>4 DEF CreateSecret, OwnerOf, ClusterTypes, Ownership
  <2>2. WorkerTypes'
    BY <1>1, <1>4, WorkerStepTypes DEF CreateSecret, Places
  <2> QED
    BY <1>4, <2>1, <2>2 DEF CreateSecret, objects, history, bounds, ObjectTypes, HistoryTypes,
       BoundTypes
<1>5. CASE CreateConfigMap(r)
  <2>1. ClusterTypes'
    BY <1>1, <1>5 DEF CreateConfigMap, OwnerOf, ClusterTypes, ConfigMaps, Ownership
  <2>2. WorkerTypes'
    BY <1>1, <1>5, WorkerStepTypes DEF CreateConfigMap, Places
  <2> QED
    BY <1>5, <2>1, <2>2 DEF CreateConfigMap, objects, history, bounds, ObjectTypes, HistoryTypes,
       BoundTypes
<1>6. CASE Annotate(r)
  <2>1. [requests[r] EXCEPT !.incomplete = FALSE] \in Objects
    BY <1>1 DEF Objects
  <2>2. requests' \in [Requests -> Objects] /\ cache' \in [Requests -> Objects]
    BY <1>6, <2>1, SetRequestTypes DEF Annotate, KeepRequests, ObjectTypes
  <2>3. WorkerTypes'
    BY <1>1, <1>6, WorkerStepTypes DEF Annotate, Places
  <2> QED
    BY <1>6, <2>2, <2>3 DEF Annotate, KeepIncident, cluster, history, bounds, ObjectTypes,
       ClusterTypes, HistoryTypes, BoundTypes
<1> QED BY <1>2, <1>3, <1>4, <1>5, <1>6

LEMMA PatchedType ==
  ASSUME NEW st \in ApplyStatuses, NEW from \in ApplyStatuses, NEW to \in ApplyStatuses
  PROVE  Patched(st, from, to) \in ApplyStatuses
BY DEF Patched, ApplyStatuses

LEMMA UpdateTyped ==
  ASSUME TypeOK, NEW r \in Requests,
         RecordOnIncident(r) \/ PatchStatus(r) \/ Announce(r) \/ DeleteApplyPod(r) \/ DeleteExpired(r)
  PROVE  TypeOK'
<1> USE DEF TypeOK
<1>1. /\ copy[r] \in Objects /\ requests[r] \in Objects /\ plan[r] \in Plans
      /\ copy[r].status \in ApplyStatuses /\ requests[r].status \in ApplyStatuses
      /\ plan[r].status \in ApplyStatuses /\ plan[r].run \in Runs
  BY DEF ObjectTypes, WorkerTypes, Objects, Plans
<1>2. CASE RecordOnIncident(r)
  <2> DEFINE st == RecordApply(incidentCache.status, plan[r].run.exit, plan[r].run.at)
             done == [plan[r] EXCEPT !.run = NoRun]
  <2>1. st \in Statuses
    BY <1>1, RecordApplyType DEF Runs, ObjectTypes, Incidents
  <2>2. done \in Plans
    BY <1>1, NewValues DEF Plans
  <2>3. [incident EXCEPT !.status = st] \in Incidents
    <3> HIDE DEF st
    <3> QED BY <2>1 DEF ObjectTypes, Incidents
  <2>4. incident' \in Incidents /\ incidentCache' \in Incidents
    <3>1. UNCHANGED <<incident, incidentCache>> \/ SetIncident([incident EXCEPT !.status = st])
      BY <1>2 DEF RecordOnIncident
    <3> HIDE DEF st
    <3> QED BY <2>3, <3>1, SetIncidentTypes DEF ObjectTypes
  <2>5. Continue(r, copy[r], done) \/ EndReconcile(r)
    BY <1>2 DEF RecordOnIncident
  <2>6. WorkerTypes'
    <3> HIDE DEF done
    <3> QED BY <1>1, <2>2, <2>5, WorkerStepTypes DEF Places
  <2>7. recorded' \in [Requests -> 0..2]
    BY <1>2 DEF RecordOnIncident, HistoryTypes
  <2>8. requests' \in [Requests -> Objects] /\ cache' \in [Requests -> Objects]
    <3>1. KeepRequests \/ RuntimeWrites(r, copy[r], plan[r].status)
      BY <1>2 DEF RecordOnIncident
    <3> QED BY <1>1, <3>1, RuntimeWriteTypes DEF KeepRequests, ObjectTypes
  <2> QED
    BY <1>2, <2>4, <2>6, <2>7, <2>8 DEF RecordOnIncident, cluster, bounds, ObjectTypes,
       ClusterTypes, HistoryTypes, BoundTypes
<1>3. CASE PatchStatus(r)
  <2> DEFINE st == Patched(requests[r].status, copy[r].status, plan[r].status)
  <2>1. [requests[r] EXCEPT !.status = st] \in Objects
    <3>1. st \in ApplyStatuses
      BY <1>1, PatchedType
    <3> HIDE DEF st
    <3> QED BY <1>1, <3>1 DEF Objects
  <2>2. requests' \in [Requests -> Objects] /\ cache' \in [Requests -> Objects]
    BY <1>3, <2>1, SetRequestTypes DEF PatchStatus, KeepRequests, ObjectTypes
  <2>3. [plan[r] EXCEPT !.dirty = FALSE] \in Plans
    BY <1>1 DEF Plans
  <2>4. WorkerTypes'
    BY <1>1, <1>3, <2>2, <2>3, WorkerStepTypes DEF PatchStatus, Places
  <2> QED
    BY <1>3, <2>2, <2>4 DEF PatchStatus, KeepIncident, cluster, history, bounds, ObjectTypes,
       ClusterTypes, HistoryTypes, BoundTypes
<1>4. CASE Announce(r)
  <2>1. [plan[r] EXCEPT !.announce = FALSE] \in Plans
    BY <1>1 DEF Plans
  <2>2. WorkerTypes'
    BY <1>1, <1>4, <2>1, WorkerStepTypes DEF Announce, Places
  <2>3. announced' \in [Requests -> 0..2]
    BY <1>4 DEF Announce, HistoryTypes
  <2> QED
    BY <1>4, <2>2, <2>3 DEF Announce, objects, cluster, bounds, ObjectTypes, ClusterTypes,
       HistoryTypes, BoundTypes
<1>5. CASE DeleteApplyPod(r)
  <2>1. [plan[r] EXCEPT !.pod = FALSE] \in Plans
    BY <1>1 DEF Plans
  <2>2. WorkerTypes'
    BY <1>1, <1>5, <2>1, WorkerStepTypes DEF DeleteApplyPod, Places
  <2>3. ClusterTypes'
    BY <1>5, PodGoesTypes DEF DeleteApplyPod
  <2> QED
    BY <1>5, <2>2, <2>3 DEF DeleteApplyPod, objects, history, bounds, ObjectTypes, HistoryTypes,
       BoundTypes
<1>6. CASE DeleteExpired(r)
  <2>1. [requests[r] EXCEPT !.deleted = TRUE] \in Objects
    BY <1>1 DEF Objects
  <2>2. requests' \in [Requests -> Objects] /\ cache' \in [Requests -> Objects]
    BY <1>6, <2>1, SetRequestTypes DEF DeleteExpired, MarkDeleted, KeepRequests, ObjectTypes
  <2>3. WorkerTypes'
    BY <1>1, <1>6, WorkerStepTypes DEF DeleteExpired, Places
  <2> QED
    BY <1>6, <2>2, <2>3 DEF DeleteExpired, KeepIncident, cluster, history, bounds, ObjectTypes,
       ClusterTypes, HistoryTypes, BoundTypes
<1> QED BY <1>2, <1>3, <1>4, <1>5, <1>6

LEMMA DeleteTyped ==
  ASSUME TypeOK, NEW r \in Requests, DeleteRun(r) \/ RemoveFinalizer(r)
  PROVE  TypeOK'
<1> USE DEF TypeOK
<1>1. copy[r] \in Objects /\ plan[r] \in Plans
  BY DEF WorkerTypes
<1>2. WorkerTypes'
  BY <1>1, WorkerStepTypes DEF DeleteRun, RemoveFinalizer, Places
<1>3. CASE DeleteRun(r)
  <2>1. ClusterTypes'
    BY <1>3, PodGoesTypes DEF DeleteRun
  <2> QED
    BY <1>2, <1>3, <2>1 DEF DeleteRun, objects, history, bounds, ObjectTypes, HistoryTypes, BoundTypes
<1>4. CASE RemoveFinalizer(r)
  <2>1. [copy[r] EXCEPT !.there = FALSE] \in Objects
    BY <1>1 DEF Objects
  <2>2. requests' \in [Requests -> Objects] /\ cache' \in [Requests -> Objects]
    BY <1>4, <2>1, SetRequestTypes DEF RemoveFinalizer, KeepRequests, ObjectTypes
  <2> QED
    BY <1>2, <1>4, <2>2 DEF RemoveFinalizer, KeepIncident, cluster, history, bounds, ObjectTypes,
       ClusterTypes, HistoryTypes, BoundTypes
<1> QED BY <1>3, <1>4

LEMMA FaultTyped ==
  ASSUME TypeOK,
         \/ \E r \in Requests : ObserveFails(r) \/ CallFails(r)
         \/ Restart \/ CacheSync \/ IncidentSync \/ Tick
  PROVE  TypeOK'
<1> USE DEF TypeOK
<1>0. MaxFaults \in Nat
  BY ApplyAssumption
<1>1. ASSUME NEW r \in Requests, CallFails(r)
      PROVE  TypeOK'
  <2>1. copy[r] \in Objects /\ plan[r] \in Plans /\ plan[r].status \in ApplyStatuses
    BY DEF WorkerTypes, Plans
  <2>2. WorkerTypes'
    BY <1>1, <2>1, WorkerStepTypes DEF CallFails, Places
  <2>3. requests' \in [Requests -> Objects] /\ cache' \in [Requests -> Objects]
    <3>1. KeepRequests \/ RuntimeWrites(r, copy[r], plan[r].status)
      BY <1>1 DEF CallFails
    <3> QED BY <2>1, <3>1, RuntimeWriteTypes DEF KeepRequests, ObjectTypes
  <2>4. faults' \in 0..MaxFaults
    BY <1>0, <1>1 DEF CallFails, BoundTypes
  <2> QED
    BY <1>1, <2>2, <2>3, <2>4 DEF CallFails, KeepIncident, cluster, history, ObjectTypes,
       ClusterTypes, HistoryTypes, BoundTypes
<1>2. CASE Restart
  BY <1>0, <1>2, NewValues DEF Restart, objects, cluster, history, ObjectTypes, WorkerTypes, Places,
     ClusterTypes, HistoryTypes, BoundTypes
<1>3. CASE CacheSync \/ IncidentSync
  BY <1>3 DEF CacheSync, IncidentSync, workers, cluster, history, bounds, ObjectTypes, WorkerTypes,
     ClusterTypes, HistoryTypes, BoundTypes
<1>4. CASE Tick
  BY <1>4 DEF Tick, objects, workers, cluster, history, ObjectTypes, WorkerTypes, ClusterTypes,
     HistoryTypes, BoundTypes
<1>5. ASSUME NEW r \in Requests, ObserveFails(r)
      PROVE  TypeOK'
  <2> DEFINE st == [cache[r].status EXCEPT !.phase = "Running"]
  <2>1. st \in ApplyStatuses
    <3>1. cache[r].status \in ApplyStatuses
      BY DEF ObjectTypes, Objects
    <3>2. "Running" \in Phases
      BY DEF Phases
    <3> QED BY <3>1, <3>2 DEF ApplyStatuses
  <2>2. RuntimeWrites(r, cache[r], st)
    BY <1>5 DEF ObserveFails
  <2> HIDE DEF st
  <2>3. requests' \in [Requests -> Objects] /\ cache' \in [Requests -> Objects]
    BY <2>1, <2>2, RuntimeWriteTypes
  <2>4. faults' \in 0..MaxFaults
    BY <1>0, <1>5 DEF ObserveFails, BoundTypes
  <2> QED
    BY <1>5, <2>3, <2>4 DEF ObserveFails, KeepIncident, workers, cluster, history, ObjectTypes,
       WorkerTypes, ClusterTypes, HistoryTypes, BoundTypes
<1> QED BY <1>1, <1>2, <1>3, <1>4, <1>5

LEMMA KubeletTyped ==
  ASSUME TypeOK, NEW r \in Requests, Kubelet(r) \/ Collect(r)
  PROVE  TypeOK'
<1> USE DEF TypeOK
<1>1. pods[r] \in ApplyPods /\ clock \in Time /\ configs[r].body \in Fixes \union {NoFix}
  BY DEF ClusterTypes, BoundTypes, ConfigMaps
<1>2. ASSUME NEW p \in ApplyPods, SetPod(r, p),
             starts' \in [Requests -> Nat], ran' \in [Requests -> Fixes \union {NoFix}]
      PROVE  TypeOK'
  BY <1>2 DEF SetPod, objects, workers, bounds, ObjectTypes, WorkerTypes, ClusterTypes,
     HistoryTypes, BoundTypes
<1>3. CASE PodStarts(r)
  <2>1. StartedPod(pods[r], configs[r].body, clock) \in ApplyPods
    BY <1>1 DEF StartedPod, ApplyPods, PodPhases
  <2>2. starts' \in [Requests -> Nat] /\ ran' \in [Requests -> Fixes \union {NoFix}]
    BY <1>1, <1>3 DEF PodStarts, HistoryTypes
  <2> QED BY <1>2, <1>3, <2>1, <2>2 DEF PodStarts
<1>4. ASSUME NEW code \in ExitCodes, ContainerExits(r, code)
      PROVE  TypeOK'
  <2>1. code \in Codes
    BY ApplyAssumption DEF Codes
  <2>2. ExitedPod(pods[r], code, clock) \in ApplyPods
    BY <1>1, <2>1 DEF ExitedPod, ApplyPods, PodPhases
  <2> QED BY <1>2, <1>4, <2>2 DEF ContainerExits, HistoryTypes
<1>5. CASE DeadlineStops(r)
  <2>1. ExitedPod(pods[r], 0, clock) \in ApplyPods
    BY <1>1 DEF ExitedPod, ApplyPods, PodPhases, Codes
  <2>2. StoppedPod(pods[r], clock) \in ApplyPods
    BY <2>1 DEF StoppedPod, ApplyPods
  <2> QED BY <1>2, <1>5, <2>2 DEF DeadlineStops, HistoryTypes
<1>6. ASSUME NEW start \in {None} \union pods[r].created..clock, PodFails(r, start)
      PROVE  TypeOK'
  <2>1. pods[r].created \in Nat /\ start \in Time
    BY <1>1 DEF ApplyPods
  <2>2. FailedPod(pods[r], start) \in ApplyPods
    BY <1>1, <2>1 DEF FailedPod, ApplyPods, PodPhases
  <2> QED BY <1>2, <1>6, <2>2 DEF PodFails, HistoryTypes
<1>7. CASE PodGone(r)
  <2>1. ClusterTypes'
    BY <1>7, PodGoesTypes DEF PodGone
  <2> QED
    BY <1>7, <2>1 DEF PodGone, objects, workers, history, bounds, ObjectTypes, WorkerTypes,
       HistoryTypes, BoundTypes
<1>8. CASE Collect(r)
  <2>1. ClusterTypes'
    BY <1>8, NewValues DEF Collect, ClusterTypes, Ownership
  <2> QED
    BY <1>8, <2>1 DEF Collect, objects, workers, history, bounds, ObjectTypes, WorkerTypes,
       HistoryTypes, BoundTypes
<1> QED BY <1>3, <1>4, <1>5, <1>6, <1>7, <1>8 DEF Kubelet

LEMMA UserTyped ==
  ASSUME TypeOK, NEW r \in Requests, Users(r) \/ PodRemoved(r)
  PROVE  TypeOK'
<1> USE DEF TypeOK
<1>1. requests[r] \in Objects /\ clock \in Time
  BY DEF ObjectTypes, BoundTypes
<1>2. ASSUME NEW login \in LoginEnds, RequestCreated(r, login)
      PROVE  TypeOK'
  <2> DEFINE o == [NoObject EXCEPT !.there = TRUE, !.created = clock, !.login = login]
  <2>1. o \in Objects
    BY <1>1, NewValues, ApplyAssumption DEF Objects
  <2>2. requests' \in [Requests -> Objects] /\ cache' \in [Requests -> Objects]
    BY <1>2, <2>1, SetRequestTypes DEF RequestCreated
  <2>3. vouchedFor' \in [Requests -> BOOLEAN]
    BY <1>2 DEF RequestCreated, HistoryTypes
  <2> QED
    BY <1>2, <2>2, <2>3 DEF RequestCreated, KeepIncident, workers, cluster, bounds, ObjectTypes,
       WorkerTypes, ClusterTypes, HistoryTypes, BoundTypes
<1>3. CASE RequestDeleted(r)
  <2>1. [requests[r] EXCEPT !.deleted = TRUE] \in Objects
    BY <1>1 DEF Objects
  <2>2. requests' \in [Requests -> Objects] /\ cache' \in [Requests -> Objects]
    BY <1>3, <2>1, SetRequestTypes DEF RequestDeleted, MarkDeleted, KeepRequests, ObjectTypes
  <2> QED
    BY <1>3, <2>2 DEF RequestDeleted, Happening, KeepIncident, workers, cluster, history,
       ObjectTypes, WorkerTypes, ClusterTypes, HistoryTypes, BoundTypes
<1>4. CASE PodRemoved(r)
  <2>1. ClusterTypes'
    BY <1>4, PodGoesTypes DEF PodRemoved
  <2>2. Happening("remove") /\ UNCHANGED objects
    BY <1>4 DEF PodRemoved
  <2> QED
    BY <2>1, <2>2 DEF Happening, objects, workers, history, ObjectTypes, WorkerTypes, HistoryTypes,
       BoundTypes
<1> QED BY <1>2, <1>3, <1>4 DEF Users

LEMMA IncidentTyped ==
  ASSUME TypeOK, (\E x \in DOMAIN policies : PolicyChanges(x)) \/ IncidentChanges
  PROVE  TypeOK'
<1> USE DEF TypeOK
<1>1. incident \in Incidents /\ incident.status \in Statuses /\ clock \in Time
  BY DEF ObjectTypes, Incidents, BoundTypes
<1>0. ASSUME NEW i \in Incidents, SetIncidentAlone(i), moves' \in Nat,
             UNCHANGED <<workers, history, clock, faults>>
      PROVE  TypeOK'
  BY <1>0, SetIncidentTypes DEF SetIncidentAlone, KeepRequests, workers, cluster, history,
     ObjectTypes, WorkerTypes, ClusterTypes, HistoryTypes, BoundTypes
<1>2. ASSUME NEW kind, NEW i \in Incidents, IncidentMoves(kind, i)
      PROVE  TypeOK'
  BY <1>0, <1>2 DEF IncidentMoves, Happening, BoundTypes
<1>3. ASSUME NEW kind, NEW st \in Statuses, StatusMoves(kind, st)
      PROVE  TypeOK'
  <2>1. [incident EXCEPT !.status = st] \in Incidents
    BY <1>1 DEF Incidents
  <2> QED BY <1>2, <1>3, <2>1 DEF StatusMoves
<1>4. ASSUME NEW x \in DOMAIN policies, PolicyChanges(x)
      PROVE  TypeOK'
  BY <1>1, <1>4 DEF PolicyChanges, Happening, KeepRequests, workers, cluster, history, ObjectTypes,
     WorkerTypes, ClusterTypes, HistoryTypes, BoundTypes
<1>5. ASSUME NEW sp \in Decisions, HumanDecides(sp)
      PROVE  TypeOK'
  BY <1>1, <1>3, <1>5, ApplySpecType DEF HumanDecides, Decisions
<1>6. ASSUME NEW exit \in {0, 1}, CheckEnds(exit)
      PROVE  TypeOK'
  <2>1. [script |-> CurrentScript(incident.status), exit |-> exit, at |-> clock] \in Results
    BY <1>1, <1>6 DEF CheckEnds, CurrentScript, Results, Checked, Exits
  <2> QED BY <1>1, <1>3, <1>6, <2>1, RecordType DEF CheckEnds
<1>7. CASE WriterReanalyses
  <2> DEFINE st == [NewStatus EXCEPT !.state = "Analyzing"]
  <2>1. st \in Statuses
    BY NewStatusType DEF Statuses, States
  <2>2. [incident EXCEPT !.analysis = @ + 1] \in Incidents
    BY <1>1 DEF Incidents
  <2>3. [incident EXCEPT !.analysis = @ + 1, !.status = st] \in Incidents
    <3> HIDE DEF st
    <3> QED BY <2>1, <2>2 DEF Incidents
  <2> QED BY <1>2, <1>7, <2>3 DEF WriterReanalyses
<1>8. ASSUME NEW fix \in Fixes, WriterFinishes(fix)
      PROVE  TypeOK'
  <2>1. [incident EXCEPT !.status.state = "Open", !.status.howToFix = fix] \in Incidents
    BY <1>1 DEF Incidents, Statuses, States
  <2> QED BY <1>0, <1>8, <2>1 DEF WriterFinishes, bounds, BoundTypes
<1>9. CASE IncidentGone
  <2>1. [incident EXCEPT !.there = FALSE] \in Incidents
    BY <1>1 DEF Incidents
  <2> QED BY <1>2, <1>9, <2>1 DEF IncidentGone
<1> QED BY <1>4, <1>5, <1>6, <1>7, <1>8, <1>9 DEF IncidentChanges

LEMMA NextTyped == TypeOK /\ [Next]_vars => TypeOK'
<1> SUFFICES ASSUME TypeOK, [Next]_vars
             PROVE  TypeOK'
  OBVIOUS
<1>1. CASE UNCHANGED vars
  BY <1>1 DEF vars, objects, workers, cluster, history, bounds, TypeOK, ObjectTypes, WorkerTypes,
     ClusterTypes, HistoryTypes, BoundTypes
<1>2. ASSUME NEW r \in Requests, Reconcile(r)
      PROVE  TypeOK'
  BY <1>2, ObserveTyped, CreateTyped, UpdateTyped, DeleteTyped DEF Reconcile
<1>3. ASSUME NEW r \in Requests,
             \/ ObserveFails(r) \/ CallFails(r)
             \/ Kubelet(r) \/ Collect(r) \/ Users(r) \/ PodRemoved(r)
      PROVE  TypeOK'
  BY <1>3, FaultTyped, KubeletTyped, UserTyped
<1>4. CASE Restart \/ CacheSync \/ IncidentSync \/ Tick
  BY <1>4, FaultTyped
<1>5. CASE (\E x \in DOMAIN policies : PolicyChanges(x)) \/ IncidentChanges
  BY <1>5, IncidentTyped
<1> QED BY <1>1, <1>2, <1>3, <1>4, <1>5 DEF Next

(* Type correctness: whatever is read from an old copy, recorded, patched  *)
(* or read from a pod, every value is one the CRDs allow.                  *)
THEOREM RequestsTyped == Spec => []TypeOK
<1>1. Init => TypeOK
  BY InitTyped
<1>2. TypeOK /\ [Next]_vars => TypeOK'
  BY NextTyped
<1> QED BY <1>1, <1>2, PTL DEF Spec
=============================================================================
