------------------------- MODULE ApplyPromiseProofs -------------------------
(***************************************************************************)
(* While the informer does not lag behind the requests, IncidentApply      *)
(* implements ApplyPhases: each step of the controller, the kubelet and    *)
(* the users is a step of what a request promises, or leaves it as it is.  *)
(* (With an informer that lags the code does not: see PhaseIsFinal.)       *)
(***************************************************************************)
EXTENDS IncidentApplySafety

USE DEF None, Time, NoExit

-----------------------------------------------------------------------------
Prompt == "requests" \notin Lags

PromiseStep == [Promise!Next]_(Promise!vars)

RunStays(x) == pods'[x] = pods[x] /\ starts'[x] = starts[x]

LEMMA SamePhase == Promise!NoPhase = NoPhase
BY DEF Promise!NoPhase, NoPhase

LEMMA PromiseStutters ==
  ASSUME \A r \in Requests : requests'[r].status.phase = requests[r].status.phase,
         starts' = starts
  PROVE  PromiseStep
BY DEF PromiseStep, Promise!vars

(* A request nothing happens to stays truthful. *)
LEMMA StaysTruthful ==
  ASSUME NEW r \in Requests, Truthful(r), WorkersStay(r), RunStays(r),
         requests'[r].status = requests[r].status
  PROVE  Truthful(r)'
BY DEF Truthful, MayFollow, WorkersStay, RunStays, Absent

LEMMA FocusInStep ==
  ASSUME InStep, NEW r \in Requests, Truthful(r)', cache' = requests',
         \A x \in Requests \ {r} : requests'[x] = requests[x] /\ WorkersStay(x) /\ RunStays(x)
  PROVE  InStep'
<1>1. ASSUME NEW x \in Requests \ {r}
      PROVE  Truthful(x)'
  BY StaysTruthful DEF InStep
<1> QED BY <1>1 DEF InStep

(* A step of the worker alone. *)
LEMMA WorkerInStep ==
  ASSUME InStep, NEW r \in Requests, WorkerStep,
         \A x \in Requests \ {r} : WorkersStay(x),
         pc'[r] # "idle" => copy'[r].status = requests[r].status,
         pc'[r] \in {"pending", "pod"} => requests[r].status.phase = NoPhase,
         pc'[r] = "update" => MayFollow(r, requests[r].status, plan'[r].status)
  PROVE  InStep' /\ PromiseStep
<1>1. Truthful(r)'
  BY DEF InStep, Truthful, MayFollow, WorkerStep, Absent
<1>2. InStep'
  BY <1>1, FocusInStep DEF WorkerStep, RunStays, InStep
<1> QED BY <1>2, PromiseStutters DEF WorkerStep

LEMMA IdleInStep ==
  ASSUME TypeOK, InStep, NEW r \in Requests, WorkerStep, EndReconcile(r)
  PROVE  InStep' /\ PromiseStep
BY WorkerEnds, WorkerInStep

(* A write that leaves the status as it is. *)
LEMMA WriteInStep ==
  ASSUME Prompt, TypeOK, InStep, NEW r \in Requests, NEW o, SetRequest(r, o),
         [o EXCEPT !.version = @ + 1].status = requests[r].status,
         UNCHANGED <<pods, starts>>,
         \A x \in Requests \ {r} : WorkersStay(x),
         pc'[r] # "idle" => copy'[r].status = requests[r].status,
         pc'[r] \in {"pending", "pod"} => requests[r].status.phase = NoPhase,
         pc'[r] = "update" => MayFollow(r, requests[r].status, plan'[r].status)
  PROVE  InStep' /\ PromiseStep
<1> DEFINE new == [o EXCEPT !.version = @ + 1]
<1>1. new.status = requests[r].status
  OBVIOUS
<1>2. requests' = requests \/ requests' = [requests EXCEPT ![r] = new]
  BY DEF SetRequest
<1> HIDE DEF new
<1>3. /\ requests'[r].status = requests[r].status
      /\ \A x \in Requests \ {r} : requests'[x] = requests[x]
  BY <1>1, <1>2 DEF TypeOK, ObjectTypes
<1>4. cache' = requests'
  BY DEF SetRequest, Prompt
<1>5. Truthful(r)'
  BY <1>3 DEF InStep, Truthful, MayFollow, Absent
<1>6. InStep'
  BY <1>3, <1>4, <1>5, FocusInStep DEF RunStays
<1> QED BY <1>3, <1>6, PromiseStutters

(* A step of a pod that starts no run. *)
LEMMA PodInStep ==
  ASSUME InStep, NEW r \in Requests, UNCHANGED <<requests, cache, starts>>,
         \A x \in Requests \ {r} : WorkersStay(x) /\ pods'[x] = pods[x],
         pc'[r] # "idle" => copy'[r].status = requests[r].status,
         pc'[r] \in {"pending", "pod"} => requests[r].status.phase = NoPhase,
         pc'[r] = "update" => pc[r] = "update" /\ plan'[r].status = plan[r].status,
         pods'[r].phase = "Running" \/ pods'[r].code # NoExit => starts[r] = 1,
         \/ Absent(pods[r]) => Absent(pods'[r])
         \/ requests[r].status.phase # "Rejected" /\ pc'[r] # "update"
  PROVE  InStep' /\ PromiseStep
<1>1. Truthful(r)'
  BY DEF InStep, Truthful, MayFollow, Absent
<1>2. InStep'
  BY <1>1, FocusInStep DEF RunStays, InStep
<1> QED BY <1>2, PromiseStutters

-----------------------------------------------------------------------------
(* Every action is a step of the promise. *)
LEMMA ConcludeInStep ==
  ASSUME TypeOK, InStep, NEW r \in Requests, WorkerStep, NEW st, NEW run, Conclude(r, st, run),
         MayFollow(r, requests[r].status, st)
  PROVE  InStep' /\ PromiseStep
<1> DEFINE dirty == st # cache[r].status
           announce == Terminal(st) /\ ~Terminal(cache[r].status)
           pod == Terminal(st) /\ ~Absent(pods[r]) /\ ~pods[r].leaving
           expired == Terminal(st) /\ clock >= st.finishedAt + TTL
           p == [NoPlan EXCEPT !.status = st, !.run = run, !.dirty = dirty,
                               !.announce = announce, !.pod = pod, !.expired = expired]
<1>1. p.status = st
  <2> HIDE DEF dirty, announce, pod, expired
  <2> QED BY DEF NoPlan
<1>2. Continue(r, cache[r], p)
  BY DEF Conclude
<1> HIDE DEF p
<1>3. /\ pc'[r] = "idle" \/ (pc'[r] = "update" /\ copy'[r] = cache[r] /\ plan'[r] = p)
      /\ \A x \in Requests \ {r} : WorkersStay(x)
  BY <1>2, WorkerContinues
<1> QED BY <1>1, <1>3, WorkerInStep DEF InStep

LEMMA ObserveInStep ==
  ASSUME TypeOK, Safe, InStep, NEW r \in Requests,
         (\E allowed \in Answers : ObserveNew(r, allowed)) \/ ObserveRun(r) \/ ObserveDeleted(r)
  PROVE  InStep' /\ PromiseStep
<1>1. /\ WorkerStep /\ cache[r] = requests[r] /\ PodRunsOnce(r)
      /\ requests[r].status \in ApplyStatuses /\ pods[r] \in ApplyPods
  BY RequestTypes DEF ObserveNew, ObserveRun, ObserveDeleted, WorkerStep, objects, cluster,
     history, bounds, InStep, Safe, Objects
<1>2. ASSUME NEW phase, NEW exit, NEW at
      PROVE  Ending(requests[r].status, phase, exit, at).phase = phase
  BY <1>1 DEF Ending, ApplyStatuses
<1>3. ASSUME NEW allowed \in Answers, ObserveNew(r, allowed)
      PROVE  InStep' /\ PromiseStep
  <2>1. /\ requests[r].status.phase = NoPhase /\ Absent(pods[r]) /\ ~requests[r].deleted
        /\ starts[r] = 0
    BY <1>1, <1>3, RequestTypes DEF ObserveNew, PodRunsOnce, Settled
  <2>2. CASE GoOn(r, "pending", cache[r], [NoPlan EXCEPT !.script = incidentCache.status.howToFix])
    <3>1. /\ pc'[r] = "pending" /\ copy'[r] = cache[r]
          /\ \A x \in Requests \ {r} : WorkersStay(x)
      BY <2>2, WorkerGoesOn
    <3> QED BY <1>1, <2>1, <3>1, WorkerInStep
  <2>3. CASE Conclude(r, Ending(cache[r].status, "Rejected", NoExit, clock), NoRun)
    <3>1. MayFollow(r, requests[r].status, Ending(cache[r].status, "Rejected", NoExit, clock))
      BY <1>1, <1>2, <2>1 DEF MayFollow
    <3> QED BY <1>1, <2>3, <3>1, ConcludeInStep
  <2> QED BY <1>3, <2>2, <2>3 DEF ObserveNew
<1>4. CASE ObserveRun(r)
  <2> DEFINE old == requests[r].status
             st == IF old.phase = NoPhase THEN Started(r) ELSE old
             run == [exit |-> ExitOf(pods[r]), at |-> EndedAt(pods[r], ApplyTimeout)]
  <2>1. Started(r).phase = "Running"
    BY <1>1 DEF Started, ApplyStatuses
  <2>2. st \in ApplyStatuses
    BY <1>1, <2>1 DEF Started, ApplyStatuses, Phases, TypeOK, ClusterTypes, ConfigMaps
  <2>3. /\ st.phase = "Running" => old.phase \in {NoPhase, "Running"}
        /\ old.phase = NoPhase => st.phase = "Running"
        /\ old.phase # NoPhase => st = old
    BY <2>1
  <2>4. \/ st.phase = "Running" /\ Conclude(r, Ending(st, "Failed", NoExit, clock), NoRun)
        \/ st.phase = "Running" /\ Conclude(r, FinishedRun(r, st), run)
        \/ Conclude(r, st, NoRun)
    BY <1>1, <1>4 DEF ObserveRun
  <2> HIDE DEF st, run
  <2>5. MayFollow(r, old, st)
    BY <2>3 DEF MayFollow
  <2>6. ASSUME NEW phase, NEW exit, NEW at
        PROVE  Ending(st, phase, exit, at).phase = phase
    BY <2>2 DEF Ending, ApplyStatuses
  <2>7. st.phase = "Running" => MayFollow(r, old, Ending(st, "Failed", NoExit, clock))
    BY <2>3, <2>6 DEF MayFollow
  <2>8. st.phase = "Running" => MayFollow(r, old, FinishedRun(r, st))
    <3>1. CASE ExitOf(pods[r]) = 0
      <4>1. starts[r] = 1
        BY <3>1 DEF ExitOf, InStep, Truthful
      <4>2. FinishedRun(r, st).phase = "Succeeded"
        BY <2>6, <3>1 DEF FinishedRun
      <4> QED BY <2>3, <4>1, <4>2 DEF MayFollow
    <3>2. CASE ExitOf(pods[r]) # 0
      <4>1. FinishedRun(r, st).phase = "Failed"
        BY <2>6, <3>2 DEF FinishedRun
      <4> QED BY <2>3, <4>1 DEF MayFollow
    <3> QED BY <3>1, <3>2
  <2> HIDE DEF old
  <2>9. old = requests[r].status
    BY DEF old
  <2> QED BY <1>1, <2>4, <2>5, <2>7, <2>8, <2>9, ConcludeInStep
<1>5. CASE ObserveDeleted(r)
  <2>1. /\ pc'[r] \in {"finalize", "delete"} /\ copy'[r] = cache[r]
        /\ \A x \in Requests \ {r} : WorkersStay(x)
    BY <1>5, WorkerGoesOn DEF ObserveDeleted
  <2> QED BY <1>1, <2>1, WorkerInStep
<1> QED BY <1>3, <1>4, <1>5

LEMMA CreateInStep ==
  ASSUME Prompt, TypeOK, Safe, InStep, NEW r \in Requests,
         WritePending(r) \/ CreatePod(r) \/ CreateSecret(r) \/ CreateConfigMap(r) \/ Annotate(r)
  PROVE  InStep' /\ PromiseStep
<1>1. /\ copy[r].status = requests[r].status /\ WorkerKnows(r) /\ Truthful(r)
      /\ requests[r] \in Objects /\ copy[r] \in Objects
  BY RequestTypes DEF InStep, Truthful, Safe, WritePending, CreatePod, CreateSecret,
     CreateConfigMap, Annotate
<1>2. CASE WritePending(r)
  <2> DEFINE o == [copy[r] EXCEPT !.incomplete = TRUE]
  <2>1. CASE KeepRequests /\ EndReconcile(r)
    BY <1>2, <2>1, IdleInStep DEF WorkerStep, WritePending, KeepRequests, KeepIncident,
       cluster, history, bounds
  <2>2. CASE SetRequest(r, o) /\ GoOn(r, "pod", requests'[r], plan[r])
    <3>1. o.status = requests[r].status /\ o \in Objects
      BY <1>1 DEF Objects
    <3> HIDE DEF o
    <3>2. [o EXCEPT !.version = @ + 1].status = requests[r].status
      BY <3>1 DEF Objects
    <3>3. requests'[r].status = requests[r].status
      <4>1. requests' \in {requests, [requests EXCEPT ![r] = [o EXCEPT !.version = @ + 1]]}
        BY <2>2 DEF SetRequest
      <4> QED BY <3>2, <4>1 DEF TypeOK, ObjectTypes
    <3>4. /\ pc'[r] = "pod" /\ copy'[r] = requests'[r]
          /\ \A x \in Requests \ {r} : WorkersStay(x)
      BY <2>2, WorkerGoesOn
    <3>5. requests[r].status.phase = NoPhase /\ UNCHANGED <<pods, starts>>
      BY <1>1, <1>2 DEF WritePending, Truthful, cluster, history
    <3> QED BY <2>2, <3>2, <3>3, <3>4, <3>5, WriteInStep
  <2> QED BY <1>2, <2>1, <2>2 DEF WritePending
<1>3. CASE CreatePod(r)
  <2>1. Absent(pods[r]) /\ requests[r].status.phase = NoPhase
    BY <1>1, <1>3 DEF CreatePod, WorkerKnows, Truthful
  <2>2. pods' = [pods EXCEPT ![r] = ApplyPod(clock)]
    BY <1>3, <2>1 DEF CreatePod
  <2>3. pods'[r] = ApplyPod(clock) /\ \A x \in Requests \ {r} : pods'[x] = pods[x]
    BY <2>2 DEF TypeOK, ClusterTypes
  <2>4. ApplyPod(clock).phase = "Pending" /\ ApplyPod(clock).code = NoExit
    BY DEF ApplyPod, NoPod
  <2>5. /\ pc'[r] = "secret" /\ copy'[r] = copy[r]
        /\ \A x \in Requests \ {r} : WorkersStay(x)
    BY <1>3, WorkerGoesOn DEF CreatePod
  <2>6. UNCHANGED <<requests, cache, starts>>
    BY <1>3 DEF CreatePod, objects, history
  <2> QED BY <1>1, <2>1, <2>3, <2>4, <2>5, <2>6, PhasesDiffer, PodInStep
<1>4. CASE CreateSecret(r) \/ CreateConfigMap(r)
  <2>1. WorkerStep
    BY <1>4 DEF CreateSecret, CreateConfigMap, WorkerStep, objects, history, bounds
  <2>2. /\ pc'[r] \in {"configmap", "annotate"} /\ copy'[r] = copy[r]
        /\ \A x \in Requests \ {r} : WorkersStay(x)
    BY <1>4, WorkerGoesOn DEF CreateSecret, CreateConfigMap
  <2> QED BY <1>1, <2>1, <2>2, WorkerInStep
<1>5. CASE Annotate(r)
  <2>1. CASE KeepRequests
    BY <1>5, <2>1, IdleInStep DEF WorkerStep, Annotate, KeepRequests, KeepIncident,
       cluster, history, bounds
  <2>2. CASE SetRequest(r, [requests[r] EXCEPT !.incomplete = FALSE])
    <3> DEFINE o == [requests[r] EXCEPT !.incomplete = FALSE]
    <3>1. o.status = requests[r].status /\ o \in Objects /\ SetRequest(r, o)
      BY <1>1, <2>2 DEF Objects
    <3> HIDE DEF o
    <3>2. [o EXCEPT !.version = @ + 1].status = requests[r].status
      BY <3>1 DEF Objects
    <3>3. pc'[r] = "idle" /\ \A x \in Requests \ {r} : WorkersStay(x)
      BY <1>5, WorkerEnds DEF Annotate
    <3>4. UNCHANGED <<pods, starts>>
      BY <1>5 DEF Annotate, cluster, history
    <3> QED BY <3>1, <3>2, <3>3, <3>4, WriteInStep
  <2> QED BY <1>5, <2>1, <2>2 DEF Annotate
<1> QED BY <1>2, <1>3, <1>4, <1>5

LEMMA PodLeavesInStep ==
  ASSUME TypeOK, InStep, NEW r \in Requests, DeletePod(r) \/ PodGoes(r)
  PROVE  /\ pods'[r].phase = "Running" \/ pods'[r].code # NoExit => starts[r] = 1
         /\ Absent(pods[r]) => Absent(pods'[r])
         /\ \A x \in Requests \ {r} : pods'[x] = pods[x]
<1>1. /\ pods[r].phase = "Running" \/ pods[r].code # NoExit => starts[r] = 1
      /\ pods[r] \in ApplyPods
  BY RequestTypes DEF InStep, Truthful
<1>2. CASE PodGoes(r)
  <2>1. pods'[r] = NoPod /\ \A x \in Requests \ {r} : pods'[x] = pods[x]
    BY <1>2 DEF PodGoes, TypeOK, ClusterTypes
  <2>2. NoPod.phase = "None" /\ NoPod.code = NoExit
    BY DEF NoPod
  <2> QED BY <2>1, <2>2 DEF Absent
<1>3. CASE pods' = [pods EXCEPT ![r].leaving = TRUE]
  <2>1. /\ pods'[r].phase = pods[r].phase /\ pods'[r].code = pods[r].code
        /\ \A x \in Requests \ {r} : pods'[x] = pods[x]
    BY <1>1, <1>3 DEF TypeOK, ClusterTypes, ApplyPods
  <2> QED BY <1>1, <2>1 DEF Absent
<1>4. CASE UNCHANGED cluster
  BY <1>1, <1>4 DEF Absent, cluster
<1> QED BY <1>2, <1>3, <1>4 DEF DeletePod

LEMMA MarkDeletedInStep ==
  ASSUME Prompt, TypeOK, InStep, NEW r \in Requests, MarkDeleted(r), UNCHANGED <<pods, starts>>,
         \A x \in Requests \ {r} : WorkersStay(x),
         pc'[r] = "idle" \/ UNCHANGED <<pc, copy, plan>>
  PROVE  InStep' /\ PromiseStep
<1>1. Truthful(r) /\ requests[r] \in Objects /\ cache = requests
  BY RequestTypes DEF InStep
<1>2. CASE KeepRequests
  <2>1. Truthful(r)' /\ cache' = requests'
    BY <1>1, <1>2 DEF KeepRequests, Truthful, MayFollow, Absent
  <2>2. InStep'
    BY <1>2, <2>1, FocusInStep DEF KeepRequests, RunStays
  <2> QED BY <1>2, <2>2, PromiseStutters DEF KeepRequests
<1>3. CASE SetRequest(r, [requests[r] EXCEPT !.deleted = TRUE])
  <2> DEFINE o == [requests[r] EXCEPT !.deleted = TRUE]
  <2>1. o.status = requests[r].status /\ o \in Objects /\ SetRequest(r, o)
    BY <1>1, <1>3 DEF Objects
  <2> HIDE DEF o
  <2>2. [o EXCEPT !.version = @ + 1].status = requests[r].status
    BY <2>1 DEF Objects
  <2>3. /\ pc'[r] # "idle" => copy'[r].status = requests[r].status
        /\ pc'[r] \in {"pending", "pod"} => requests[r].status.phase = NoPhase
        /\ pc'[r] = "update" => MayFollow(r, requests[r].status, plan'[r].status)
    BY <1>1 DEF Truthful
  <2> QED BY <2>1, <2>2, <2>3, WriteInStep
<1> QED BY <1>2, <1>3 DEF MarkDeleted

(* A write of a status that may follow the request's: its phase moves as   *)
(* promised.                                                               *)
LEMMA StatusInStep ==
  ASSUME Prompt, TypeOK, InStep, NEW r \in Requests, NEW st \in ApplyStatuses,
         MayFollow(r, requests[r].status, st),
         SetRequest(r, [requests[r] EXCEPT !.status = st]), UNCHANGED <<pods, starts>>,
         \/ pc'[r] = "idle"
         \/ pc'[r] = "update" /\ copy'[r] = requests'[r] /\ plan'[r].status = st,
         \A x \in Requests \ {r} : WorkersStay(x)
  PROVE  InStep' /\ PromiseStep
<1> DEFINE o == [requests[r] EXCEPT !.status = st]
<1>1. Truthful(r) /\ requests[r] \in Objects
  BY RequestTypes DEF InStep
<1>2. o.status = st /\ o \in Objects /\ o.version = requests[r].version /\ SetRequest(r, o)
  BY <1>1 DEF Objects
<1> HIDE DEF o
<1>3. [o EXCEPT !.version = @ + 1].status = st
  BY <1>2 DEF Objects
<1>4. /\ requests'[r].status = st
      /\ \A x \in Requests \ {r} : requests'[x] = requests[x]
      /\ cache' = requests'
  <2>1. requests' \in {requests, [requests EXCEPT ![r] = [o EXCEPT !.version = @ + 1]]}
    BY <1>2 DEF SetRequest
  <2>2. requests' = requests => o = requests[r]
    <3>1. CASE o # requests[r]
      <4> DEFINE new == [o EXCEPT !.version = @ + 1]
      <4>1. requests' = [requests EXCEPT ![r] = new] /\ new.version = o.version + 1
        BY <1>2, <3>1 DEF SetRequest, Objects
      <4>2. o.version = requests[r].version /\ o.version \in Nat
        BY <1>1, <1>2 DEF Objects
      <4> HIDE DEF new
      <4>3. requests'[r].version = requests[r].version + 1
        BY <4>1, <4>2 DEF TypeOK, ObjectTypes
      <4> QED BY <4>2, <4>3
    <3> QED BY <3>1
  <2> QED BY <1>2, <1>3, <2>1, <2>2 DEF SetRequest, Prompt, TypeOK, ObjectTypes
<1>5. Truthful(r)'
  <2>1. /\ st.phase = "Rejected" => Absent(pods[r]) /\ starts[r] = 0
        /\ st.phase = "Succeeded" => starts[r] = 1
    BY <1>1 DEF MayFollow, Truthful
  <2> QED BY <1>1, <1>4, <2>1 DEF Truthful, MayFollow, Absent
<1>6. InStep'
  BY <1>4, <1>5, FocusInStep DEF RunStays
<1>7. PromiseStep
  <2> DEFINE phase == [x \in Requests |-> requests[x].status.phase]
             phaseNext == [x \in Requests |-> requests'[x].status.phase]
  <2>1. phaseNext = [phase EXCEPT ![r] = st.phase]
    BY <1>4
  <2>2. phase[r] = requests[r].status.phase
    OBVIOUS
  <2>3. CASE st = requests[r].status
    BY <1>4, <2>3, PromiseStutters
  <2>4. CASE st.phase = "Running" /\ phase[r] = NoPhase
    <3>1. Promise!Accept(r)
      BY <2>1, <2>4, SamePhase DEF Promise!Accept, Promise!Move
    <3> QED BY <3>1 DEF PromiseStep, Promise!Next
  <2>5. CASE st.phase = "Rejected" /\ phase[r] = NoPhase /\ starts[r] = 0
    <3>1. Promise!Reject(r)
      BY <2>1, <2>5, SamePhase DEF Promise!Reject, Promise!Move
    <3> QED BY <3>1 DEF PromiseStep, Promise!Next
  <2>6. CASE st.phase = "Succeeded" /\ phase[r] \in {NoPhase, "Running"} /\ starts[r] = 1
    <3>1. Promise!Succeed(r)
      BY <2>1, <2>6, SamePhase DEF Promise!Succeed, Promise!Move
    <3> QED BY <3>1 DEF PromiseStep, Promise!Next
  <2>7. CASE st.phase = "Failed" /\ phase[r] \in {NoPhase, "Running"}
    <3>1. Promise!Fail(r)
      BY <2>1, <2>7, SamePhase DEF Promise!Fail, Promise!Move
    <3> QED BY <3>1 DEF PromiseStep, Promise!Next
  <2> QED BY <2>2, <2>3, <2>4, <2>5, <2>6, <2>7 DEF MayFollow
<1> QED BY <1>6, <1>7

LEMMA PatchInStep ==
  ASSUME Prompt, TypeOK, Safe, InStep, NEW r \in Requests, PatchStatus(r)
  PROVE  InStep' /\ PromiseStep
<1> DEFINE st == Patched(requests[r].status, copy[r].status, plan[r].status)
           clean == [plan[r] EXCEPT !.dirty = FALSE]
<1>1. /\ Truthful(r) /\ pc[r] = "update" /\ copy[r].status = requests[r].status
      /\ plan[r] \in Plans
      /\ requests[r].status \in ApplyStatuses /\ plan[r].status \in ApplyStatuses
  BY RequestTypes DEF InStep, Truthful, PatchStatus, Objects, Plans
<1>2. MayFollow(r, requests[r].status, plan[r].status)
  BY <1>1 DEF Truthful
<1>3. UNCHANGED <<pods, starts>>
  BY DEF PatchStatus, cluster, history
<1>4. CASE KeepRequests /\ EndReconcile(r)
  BY <1>4, IdleInStep DEF WorkerStep, PatchStatus, KeepRequests, KeepIncident, cluster, history, bounds
<1>5. CASE SetRequest(r, [requests[r] EXCEPT !.status = st]) /\ Continue(r, requests'[r], clean)
  <2>1. st = plan[r].status
    BY <1>1 DEF Patched, ApplyStatuses
  <2> HIDE DEF st
  <2>2. clean.status = plan[r].status
    BY <1>1 DEF Plans
  <2> HIDE DEF clean
  <2>3. /\ pc'[r] = "idle" \/ (pc'[r] = "update" /\ copy'[r] = requests'[r] /\ plan'[r] = clean)
        /\ \A x \in Requests \ {r} : WorkersStay(x)
    BY <1>5, WorkerContinues
  <2> QED BY <1>1, <1>2, <1>3, <1>5, <2>1, <2>2, <2>3, StatusInStep
<1> QED BY <1>4, <1>5 DEF PatchStatus

(* What the runtime writes after a failure may follow as well. *)
LEMMA RuntimeInStep ==
  ASSUME Prompt, TypeOK, InStep, NEW r \in Requests, NEW o, NEW st \in ApplyStatuses,
         MayFollow(r, requests[r].status, st),
         KeepRequests \/ RuntimeWrites(r, o, st), UNCHANGED <<pods, starts>>,
         pc'[r] = "idle", \A x \in Requests \ {r} : WorkersStay(x)
  PROVE  InStep' /\ PromiseStep
<1>1. CASE KeepRequests
  <2>1. Truthful(r)'
    BY <1>1 DEF KeepRequests, InStep, Truthful, MayFollow, Absent
  <2>2. InStep'
    BY <1>1, <2>1, FocusInStep DEF KeepRequests, RunStays, InStep
  <2> QED BY <1>1, <2>2, PromiseStutters DEF KeepRequests
<1>2. CASE SetRequest(r, [requests[r] EXCEPT !.status = st])
  BY <1>2, StatusInStep
<1> QED BY <1>1, <1>2 DEF RuntimeWrites

LEMMA UpdateInStep ==
  ASSUME Prompt, TypeOK, Safe, InStep, NEW r \in Requests,
         RecordOnIncident(r) \/ Announce(r) \/ DeleteApplyPod(r) \/ DeleteExpired(r)
  PROVE  InStep' /\ PromiseStep
<1>1. /\ Truthful(r) /\ pc[r] = "update" /\ copy[r].status = requests[r].status
      /\ plan[r] \in Plans /\ MayFollow(r, requests[r].status, plan[r].status)
  BY RequestTypes DEF InStep, Truthful, RecordOnIncident, Announce, DeleteApplyPod, DeleteExpired,
     Persisted
<1>2. ASSUME NEW p, p.status = plan[r].status, Continue(r, copy[r], p)
      PROVE  /\ pc'[r] \in {"idle", "update"}
             /\ pc'[r] # "idle" => copy'[r] = copy[r] /\ plan'[r].status = plan[r].status
             /\ \A x \in Requests \ {r} : WorkersStay(x)
  BY <1>2, WorkerContinues
<1>3. ASSUME NEW p, p.status = plan[r].status, Continue(r, copy[r], p), WorkerStep
      PROVE  InStep' /\ PromiseStep
  BY <1>1, <1>2, <1>3, WorkerInStep
<1>4. CASE RecordOnIncident(r)
  <2>1. [plan[r] EXCEPT !.run = NoRun].status = plan[r].status
    BY <1>1 DEF Plans
  <2>2. UNCHANGED <<pods, starts, policies, vouchedFor, clock>>
    BY <1>4 DEF RecordOnIncident, cluster, bounds
  <2>3. CASE KeepRequests /\ Continue(r, copy[r], [plan[r] EXCEPT !.run = NoRun])
    BY <1>3, <2>1, <2>2, <2>3 DEF KeepRequests, WorkerStep
  <2>4. CASE RuntimeWrites(r, copy[r], plan[r].status) /\ EndReconcile(r)
    <3>1. plan[r].status \in ApplyStatuses
      BY <1>1 DEF Plans
    <3>2. pc'[r] = "idle" /\ \A x \in Requests \ {r} : WorkersStay(x)
      BY <2>4, WorkerEnds
    <3> QED BY <1>1, <2>2, <2>4, <3>1, <3>2, RuntimeInStep
  <2> QED BY <1>4, <2>3, <2>4 DEF RecordOnIncident
<1>5. CASE Announce(r)
  <2>1. [plan[r] EXCEPT !.announce = FALSE].status = plan[r].status
    BY <1>1 DEF Plans
  <2>2. WorkerStep
    BY <1>5 DEF Announce, WorkerStep, objects, cluster, bounds
  <2> QED BY <1>3, <1>5, <2>1, <2>2 DEF Announce
<1>6. CASE DeleteApplyPod(r)
  <2>1. [plan[r] EXCEPT !.pod = FALSE].status = plan[r].status
    BY <1>1 DEF Plans
  <2>2. UNCHANGED <<requests, cache, starts>>
    BY <1>6 DEF DeleteApplyPod, objects, history
  <2>3. /\ pc'[r] \in {"idle", "update"}
        /\ pc'[r] # "idle" => copy'[r] = copy[r] /\ plan'[r].status = plan[r].status
        /\ \A x \in Requests \ {r} : WorkersStay(x)
    BY <1>2, <1>6, <2>1 DEF DeleteApplyPod
  <2>4. /\ pods'[r].phase = "Running" \/ pods'[r].code # NoExit => starts[r] = 1
        /\ Absent(pods[r]) => Absent(pods'[r])
        /\ \A x \in Requests \ {r} : pods'[x] = pods[x]
    BY <1>6, PodLeavesInStep DEF DeleteApplyPod
  <2>5. /\ pc'[r] # "idle" => copy'[r].status = requests[r].status
        /\ pc'[r] \notin {"pending", "pod"}
        /\ pc'[r] = "update" => pc[r] = "update" /\ plan'[r].status = plan[r].status
    BY <1>1, <2>3
  <2>6. \A x \in Requests \ {r} : WorkersStay(x) /\ pods'[x] = pods[x]
    BY <2>3, <2>4
  <2> QED BY <2>2, <2>4, <2>5, <2>6, PodInStep
<1>7. CASE DeleteExpired(r)
  <2>1. pc'[r] = "idle" /\ \A x \in Requests \ {r} : WorkersStay(x)
    BY <1>7, WorkerEnds DEF DeleteExpired
  <2> QED BY <1>7, <2>1, MarkDeletedInStep DEF DeleteExpired, cluster, history
<1> QED BY <1>4, <1>5, <1>6, <1>7

LEMMA DeleteInStep ==
  ASSUME Prompt, TypeOK, Safe, InStep, NEW r \in Requests, DeleteRun(r) \/ RemoveFinalizer(r)
  PROVE  InStep' /\ PromiseStep
<1>1. /\ Truthful(r) /\ copy[r].status = requests[r].status /\ copy[r] \in Objects
  BY RequestTypes DEF InStep, Truthful, DeleteRun, RemoveFinalizer
<1>2. /\ pc'[r] = "idle" /\ \A x \in Requests \ {r} : WorkersStay(x)
  BY WorkerEnds DEF DeleteRun, RemoveFinalizer
<1>3. CASE DeleteRun(r)
  <2>1. UNCHANGED <<requests, cache, starts>>
    BY <1>3 DEF DeleteRun, objects, history
  <2>2. /\ pods'[r].phase = "Running" \/ pods'[r].code # NoExit => starts[r] = 1
        /\ Absent(pods[r]) => Absent(pods'[r])
        /\ \A x \in Requests \ {r} : pods'[x] = pods[x]
    BY <1>3, PodLeavesInStep DEF DeleteRun
  <2> QED BY <1>2, <2>1, <2>2, PodInStep
<1>4. CASE RemoveFinalizer(r)
  <2>1. CASE KeepRequests
    BY <1>4, <2>1, IdleInStep DEF RemoveFinalizer, WorkerStep, KeepRequests, KeepIncident,
       cluster, history, bounds
  <2>2. CASE SetRequest(r, [copy[r] EXCEPT !.there = FALSE])
    <3> DEFINE o == [copy[r] EXCEPT !.there = FALSE]
    <3>1. o.status = requests[r].status /\ o \in Objects /\ SetRequest(r, o)
      BY <1>1, <2>2 DEF Objects
    <3> HIDE DEF o
    <3>2. [o EXCEPT !.version = @ + 1].status = requests[r].status
      BY <3>1 DEF Objects
    <3>3. UNCHANGED <<pods, starts>>
      BY <1>4 DEF RemoveFinalizer, cluster, history
    <3> QED BY <1>2, <3>1, <3>2, <3>3, WriteInStep
  <2> QED BY <1>4, <2>1, <2>2 DEF RemoveFinalizer
<1> QED BY <1>3, <1>4

LEMMA FaultInStep ==
  ASSUME Prompt, TypeOK, Safe, InStep,
         (\E r \in Requests : ObserveFails(r) \/ CallFails(r)) \/ Restart
  PROVE  InStep' /\ PromiseStep
<1>1. ASSUME NEW r \in Requests, CallFails(r)
      PROVE  InStep' /\ PromiseStep
  <2>1. pc[r] # "idle" /\ UNCHANGED <<policies, pods, starts, vouchedFor, clock>>
    BY <1>1 DEF CallFails, KeepIncident, cluster, history
  <2>2. CASE KeepRequests /\ GoOn(r, "annotate", copy[r], plan[r])
    <3>1. /\ pc'[r] = "annotate" /\ copy'[r] = copy[r]
          /\ \A x \in Requests \ {r} : WorkersStay(x)
      BY <2>2, WorkerGoesOn
    <3>2. copy[r].status = requests[r].status
      BY <2>1 DEF InStep, Truthful
    <3> QED BY <2>1, <2>2, <3>1, <3>2, WorkerInStep DEF KeepRequests, WorkerStep
  <2>3. CASE KeepRequests /\ EndReconcile(r)
    BY <2>1, <2>3, IdleInStep DEF KeepRequests, WorkerStep
  <2>4. CASE /\ pc[r] = "update" /\ RuntimeWrites(r, copy[r], plan[r].status)
             /\ EndReconcile(r)
    <3>1. plan[r].status \in ApplyStatuses /\ MayFollow(r, requests[r].status, plan[r].status)
      BY <2>4, RequestTypes DEF Plans, InStep, Truthful
    <3>2. pc'[r] = "idle" /\ \A x \in Requests \ {r} : WorkersStay(x)
      BY <2>4, WorkerEnds
    <3> QED BY <2>1, <2>4, <3>1, <3>2, RuntimeInStep
  <2> QED BY <1>1, <2>2, <2>3, <2>4 DEF CallFails
<1>2. CASE Restart
  <2>1. WorkerStep /\ \A x \in Requests : pc'[x] = "idle"
    BY <1>2 DEF Restart, WorkerStep, objects, cluster, history
  <2>2. ASSUME NEW x \in Requests
        PROVE  Truthful(x)'
    BY <2>1 DEF InStep, Truthful, WorkerStep, Absent
  <2> QED BY <2>1, <2>2, PromiseStutters DEF InStep, WorkerStep
<1>3. ASSUME NEW r \in Requests, ObserveFails(r)
      PROVE  InStep' /\ PromiseStep
  <2> DEFINE st == [cache[r].status EXCEPT !.phase = "Running"]
  <2>1. cache[r].status \in ApplyStatuses /\ cache[r].status = requests[r].status
    BY RequestTypes DEF Objects, InStep
  <2>2. st \in ApplyStatuses /\ st.phase = "Running"
    BY <2>1 DEF ApplyStatuses, Phases
  <2>3. RuntimeWrites(r, cache[r], st) /\ requests[r].status.phase = NoPhase
    BY <1>3, <2>1 DEF ObserveFails
  <2> HIDE DEF st
  <2>4. MayFollow(r, requests[r].status, st)
    BY <2>2, <2>3 DEF MayFollow
  <2>5. /\ pc'[r] = "idle" /\ \A x \in Requests : WorkersStay(x)
        /\ UNCHANGED <<pods, starts>>
    BY <1>3 DEF ObserveFails, Observing, workers, cluster, history, WorkersStay
  <2> QED BY <2>2, <2>3, <2>4, <2>5, RuntimeInStep
<1> QED BY <1>1, <1>2, <1>3

LEMMA KubeletInStep ==
  ASSUME TypeOK, Safe, InStep, NEW r \in Requests, Kubelet(r)
  PROVE  InStep' /\ PromiseStep
<1>1. /\ Truthful(r) /\ PodRunsOnce(r) /\ pods[r] \in ApplyPods /\ starts[r] \in Nat
      /\ requests[r].status.phase \in Phases
  BY RequestTypes DEF InStep, Safe, Objects, ApplyStatuses
<1>2. ASSUME NEW p, SetPod(r, p)
      PROVE  /\ pods'[r] = p /\ \A x \in Requests \ {r} : pods'[x] = pods[x] /\ WorkersStay(x)
             /\ UNCHANGED <<requests, cache, pc, copy, plan>>
  BY <1>2 DEF SetPod, objects, workers, WorkersStay, TypeOK, ClusterTypes
<1>3. CASE PodStarts(r)
  <2> DEFINE p == StartedPod(pods[r], configs[r].body, clock)
  <2>1. ~Absent(pods[r]) /\ starts[r] = 0 /\ p.phase = "Running"
    BY <1>1, <1>3 DEF PodStarts, MayStart, StartedPod, PodRunsOnce, ApplyPods, Absent
  <2>2. SetPod(r, p) /\ starts' = [starts EXCEPT ![r] = 1]
    BY <1>3, <2>1 DEF PodStarts
  <2> HIDE DEF p
  <2>3. /\ starts'[r] = 1 /\ \A x \in Requests \ {r} : starts'[x] = starts[x]
    BY <2>2 DEF TypeOK, HistoryTypes
  <2>4. requests[r].status.phase \in {NoPhase, "Running", "Failed"}
    BY <1>1, <2>1 DEF Truthful, Phases
  <2>5. Truthful(r)'
    BY <1>1, <1>2, <2>1, <2>2, <2>3, <2>4, PhasesDiffer DEF Truthful, MayFollow, Absent
  <2>6. InStep'
    BY <1>2, <2>2, <2>3, <2>5, FocusInStep DEF RunStays, InStep
  <2>7. Promise!Start(r)
    BY <1>2, <2>1, <2>2, <2>4, SamePhase DEF Promise!Start
  <2> QED BY <2>6, <2>7 DEF PromiseStep, Promise!Next
<1>4. ASSUME NEW p, SetPod(r, p), ~Absent(pods[r]), UNCHANGED starts,
             p.phase = "Running" \/ p.code # NoExit => starts[r] = 1
      PROVE  InStep' /\ PromiseStep
  <2>1. /\ pc'[r] # "idle" => copy'[r].status = requests[r].status
        /\ pc'[r] \in {"pending", "pod"} => requests[r].status.phase = NoPhase
        /\ pc'[r] = "update" => pc[r] = "update" /\ plan'[r].status = plan[r].status
    BY <1>1, <1>2, <1>4 DEF Truthful
  <2> QED BY <1>2, <1>4, <2>1, PodInStep
<1>5. ASSUME NEW code \in ExitCodes, ContainerExits(r, code)
      PROVE  InStep' /\ PromiseStep
  <2>1. ~Absent(pods[r]) /\ starts[r] = 1
    BY <1>1, <1>5 DEF ContainerExits, MayExit, Truthful, Absent
  <2> QED BY <1>4, <1>5, <2>1 DEF ContainerExits
<1>6. CASE DeadlineStops(r)
  <2>1. ~Absent(pods[r]) /\ starts[r] = 1
    BY <1>1, <1>6 DEF DeadlineStops, MayStop, MayExit, Truthful, Absent
  <2> QED BY <1>4, <1>6, <2>1 DEF DeadlineStops
<1>7. ASSUME NEW start, PodFails(r, start)
      PROVE  InStep' /\ PromiseStep
  <2>1. /\ ~Absent(pods[r])
        /\ FailedPod(pods[r], start).phase = "Ended"
        /\ FailedPod(pods[r], start).code = pods[r].code
    BY <1>1, <1>7 DEF PodFails, MayFail, FailedPod, ApplyPods, Absent
  <2> QED BY <1>1, <1>4, <1>7, <2>1 DEF PodFails, Truthful
<1>8. CASE PodGone(r)
  <2>1. PodGoes(r) /\ UNCHANGED <<requests, cache, pc, copy, plan, starts>>
    BY <1>8 DEF PodGone, objects, workers, history
  <2>2. /\ pods'[r].phase = "Running" \/ pods'[r].code # NoExit => starts[r] = 1
        /\ Absent(pods[r]) => Absent(pods'[r])
        /\ \A x \in Requests \ {r} : pods'[x] = pods[x]
    BY <2>1, PodLeavesInStep
  <2>3. /\ pc'[r] # "idle" => copy'[r].status = requests[r].status
        /\ pc'[r] \in {"pending", "pod"} => requests[r].status.phase = NoPhase
        /\ pc'[r] = "update" => pc[r] = "update" /\ plan'[r].status = plan[r].status
        /\ \A x \in Requests \ {r} : WorkersStay(x) /\ pods'[x] = pods[x]
    BY <1>1, <2>1, <2>2 DEF Truthful, WorkersStay
  <2> QED BY <2>1, <2>2, <2>3, PodInStep
<1> QED BY <1>3, <1>5, <1>6, <1>7, <1>8 DEF Kubelet

LEMMA UserInStep ==
  ASSUME Prompt, TypeOK, Safe, InStep, NEW r \in Requests, Users(r) \/ PodRemoved(r)
  PROVE  InStep' /\ PromiseStep
<1>1. ASSUME NEW login \in LoginEnds, RequestCreated(r, login)
      PROVE  InStep' /\ PromiseStep
  <2> DEFINE o == [NoObject EXCEPT !.there = TRUE, !.created = clock, !.login = login]
  <2>1. requests[r] = NoObject /\ pc[r] = "idle"
    BY <1>1 DEF RequestCreated, Safe, CopiesFollow, Untouched
  <2>2. o \in Objects /\ o.status = NoStatus /\ SetRequest(r, o)
    BY <1>1, NewValues, ApplyAssumption, RequestTypes DEF RequestCreated, Objects, NoObject
  <2> HIDE DEF o
  <2>3. [o EXCEPT !.version = @ + 1].status = requests[r].status
    BY <2>1, <2>2 DEF Objects, NoObject
  <2>4. UNCHANGED <<pods, starts, pc, copy, plan>>
    BY <1>1 DEF RequestCreated, workers, cluster
  <2> QED BY <2>1, <2>2, <2>3, <2>4, WriteInStep DEF WorkersStay
<1>2. CASE RequestDeleted(r)
  <2>1. MarkDeleted(r) /\ UNCHANGED <<pods, starts, pc, copy, plan>>
    BY <1>2 DEF RequestDeleted, Happening, cluster, workers, history
  <2> QED BY <2>1, MarkDeletedInStep DEF WorkersStay
<1>3. CASE PodRemoved(r)
  <2>1. DeletePod(r) /\ UNCHANGED <<requests, cache, pc, copy, plan, starts>>
    BY <1>3 DEF PodRemoved, Happening, objects, workers, history
  <2>2. /\ pods'[r].phase = "Running" \/ pods'[r].code # NoExit => starts[r] = 1
        /\ Absent(pods[r]) => Absent(pods'[r])
        /\ \A x \in Requests \ {r} : pods'[x] = pods[x]
    BY <2>1, PodLeavesInStep
  <2>3. /\ pc'[r] # "idle" => copy'[r].status = requests[r].status
        /\ pc'[r] \in {"pending", "pod"} => requests[r].status.phase = NoPhase
        /\ pc'[r] = "update" => pc[r] = "update" /\ plan'[r].status = plan[r].status
        /\ \A x \in Requests \ {r} : WorkersStay(x) /\ pods'[x] = pods[x]
    BY <2>1, <2>2 DEF InStep, Truthful, WorkersStay
  <2> QED BY <2>1, <2>2, <2>3, PodInStep
<1> QED BY <1>1, <1>2, <1>3 DEF Users

LEMMA OutsideInStep ==
  ASSUME InStep,
         \/ CacheSync \/ IncidentSync \/ Tick \/ UNCHANGED vars
         \/ (\E r \in Requests : Collect(r)) \/ IncidentChanges
         \/ (\E x \in DOMAIN policies : PolicyChanges(x))
  PROVE  InStep' /\ PromiseStep
<1>1. UNCHANGED <<requests, cache, pods, starts, pc, copy, plan>>
  <2>0. ASSUME NEW fix \in Fixes, WriterFinishes(fix)
        PROVE  UNCHANGED <<requests, cache, pods, starts, pc, copy, plan>>
    BY <2>0 DEF WriterFinishes, SetIncidentAlone, KeepRequests, workers, cluster, history
  <2>1. ASSUME NEW kind, NEW i, IncidentMoves(kind, i)
        PROVE  UNCHANGED <<requests, cache, pods, starts, pc, copy, plan>>
    BY <2>1 DEF IncidentMoves, SetIncidentAlone, Happening, KeepRequests, workers, cluster, history
  <2>2. CASE IncidentChanges
    BY <2>0, <2>1, <2>2 DEF IncidentChanges, HumanDecides, CheckEnds, WriterReanalyses,
       IncidentGone, StatusMoves
  <2>3. CASE (\E r \in Requests : Collect(r)) \/ CacheSync \/ IncidentSync \/ Tick
    BY <2>3 DEF Collect, CacheSync, IncidentSync, Tick, objects, workers, cluster, history, InStep
  <2>4. CASE \E x \in DOMAIN policies : PolicyChanges(x)
    BY <2>4 DEF PolicyChanges, Happening, KeepRequests, workers, cluster, history
  <2>5. CASE UNCHANGED vars
    BY <2>5 DEF vars, objects, workers, cluster, history
  <2> QED BY <2>2, <2>3, <2>4, <2>5
<1>2. ASSUME NEW x \in Requests
      PROVE  Truthful(x)'
  BY <1>1, StaysTruthful DEF InStep, WorkersStay, RunStays
<1> QED BY <1>1, <1>2, PromiseStutters DEF InStep

LEMMA InitInStep == Init => InStep /\ Promise!Init
<1> SUFFICES ASSUME Init PROVE InStep /\ Promise!Init
  OBVIOUS
<1>1. /\ NoObject.status.phase = NoPhase /\ NoPod.phase = "None" /\ NoPod.code = NoExit
  BY DEF NoObject, NoStatus, NoPod
<1>2. InStep
  BY <1>1, PhasesDiffer DEF Init, InStep, Truthful
<1>3. Promise!Init
  BY <1>1, SamePhase DEF Init, Promise!Init
<1> QED BY <1>2, <1>3

LEMMA NextInStep ==
  ASSUME Prompt, TypeOK, Safe, InStep, [Next]_vars
  PROVE  InStep' /\ PromiseStep
<1>1. ASSUME NEW r \in Requests, Reconcile(r)
      PROVE  InStep' /\ PromiseStep
  BY <1>1, ObserveInStep, CreateInStep, PatchInStep, UpdateInStep, DeleteInStep DEF Reconcile
<1>2. ASSUME NEW r \in Requests,
             \/ ObserveFails(r) \/ CallFails(r)
             \/ Kubelet(r) \/ Collect(r) \/ Users(r) \/ PodRemoved(r)
      PROVE  InStep' /\ PromiseStep
  BY <1>2, FaultInStep, KubeletInStep, OutsideInStep, UserInStep
<1>3. CASE \/ Restart \/ CacheSync \/ IncidentSync \/ Tick \/ IncidentChanges
           \/ (\E x \in DOMAIN policies : PolicyChanges(x)) \/ UNCHANGED vars
  BY <1>3, FaultInStep, OutsideInStep
<1> QED BY <1>1, <1>2, <1>3 DEF Next

-----------------------------------------------------------------------------
(* Requests keep their promise while the informer does not lag behind      *)
(* them: the controller implements ApplyPhases, so a rejected request      *)
(* never runs, one that succeeded ran, and a terminal phase stays.         *)
THEOREM PromiseKept ==
  ASSUME "requests" \notin Lags
  PROVE  Spec => KeepsPromise
<1>1. Prompt
  BY DEF Prompt
<1>2. Init => InStep /\ Promise!Init
  BY InitInStep
<1>3. TypeOK /\ Safe /\ InStep /\ [Next]_vars => InStep' /\ [Promise!Next]_(Promise!vars)
  BY <1>1, NextInStep DEF PromiseStep
<1> QED BY <1>2, <1>3, AlwaysSafe, PTL DEF Spec, KeepsPromise, Promise!Spec
=============================================================================
