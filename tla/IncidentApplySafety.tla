------------------------- MODULE IncidentApplySafety -------------------------
(***************************************************************************)
(* Three safety theorems about IncidentApplies: a request's script starts  *)
(* at most once, never for a requester nobody vouches for, and no pod      *)
(* outlives its request.  Safe is inductive beside TypeOK, whatever the    *)
(* informers lag behind and whichever calls fail.                          *)
(***************************************************************************)
EXTENDS IncidentApplyProofs

USE DEF None, Time, NoExit

-----------------------------------------------------------------------------
(* What the theorems need of one request, and what a step on one request   *)
(* leaves to the others.                                                   *)
SafeRequest(r) == CopiesFollow(r) /\ WorkerKnows(r) /\ PodRunsOnce(r) /\ Vouching(r)

WorkersStay(x) == pc'[x] = pc[x] /\ copy'[x] = copy[x] /\ plan'[x] = plan[x]

ObjectsStay(x) == requests'[x] = requests[x] /\ cache'[x] \in {cache[x], requests[x]}

RunsStay(x) == pods'[x] = pods[x] /\ starts'[x] = starts[x] /\ vouchedFor'[x] = vouchedFor[x]

TimeGoesOn == policies' = policies /\ clock' \in Time /\ clock <= clock'

LEMMA RequestTypes ==
  ASSUME TypeOK, NEW r \in Requests
  PROVE  /\ requests[r] \in Objects /\ cache[r] \in Objects /\ copy[r] \in Objects
         /\ plan[r] \in Plans /\ pods[r] \in ApplyPods /\ starts[r] \in Nat /\ clock \in Nat
         /\ requests[r].version \in Nat /\ requests[r].created \in Nat
BY DEF TypeOK, ObjectTypes, WorkerTypes, ClusterTypes, HistoryTypes, BoundTypes, Objects

LEMMA FollowsItself == \A o \in Objects : Follows(o, o)
<1> SUFFICES ASSUME NEW o \in Objects PROVE Follows(o, o)
  OBVIOUS
<1>1. o.version \in Nat
  BY DEF Objects
<1> QED BY <1>1 DEF Follows

(* A request nothing happens to stays safe. *)
LEMMA StaysSafe ==
  ASSUME TypeOK, Safe, NEW r \in Requests, ObjectsStay(r), WorkersStay(r), RunsStay(r), TimeGoesOn
  PROVE  SafeRequest(r)'
<1>1. SafeRequest(r) /\ Follows(requests[r], requests[r])
  BY RequestTypes, FollowsItself DEF Safe, SafeRequest
<1>2. CopiesFollow(r)'
  BY <1>1 DEF SafeRequest, CopiesFollow, Follows, Untouched, ObjectsStay, WorkersStay, RunsStay
<1>3. WorkerKnows(r)'
  BY <1>1 DEF SafeRequest, WorkerKnows, ObjectsStay, WorkersStay, RunsStay
<1>4. PodRunsOnce(r)'
  BY <1>1 DEF SafeRequest, PodRunsOnce, ObjectsStay, RunsStay
<1>5. Vouching(r)'
  BY <1>1, RequestTypes DEF SafeRequest, Vouching, Vouched, ObjectsStay, WorkersStay, RunsStay,
     TimeGoesOn
<1> QED BY <1>2, <1>3, <1>4, <1>5 DEF SafeRequest

LEMMA Focus ==
  ASSUME TypeOK, Safe, NEW r \in Requests, SafeRequest(r)', TimeGoesOn,
         \A x \in Requests \ {r} : ObjectsStay(x) /\ WorkersStay(x) /\ RunsStay(x)
  PROVE  Safe'
<1>1. \A x \in Requests \ {r} : SafeRequest(x)'
  BY StaysSafe
<1>2. clock' # None
  BY RequestTypes DEF Safe, TimeGoesOn
<1> QED BY <1>1, <1>2 DEF Safe, SafeRequest

-----------------------------------------------------------------------------
(* The steps of a worker, and the writes of a request. *)
LEMMA WorkerEnds ==
  ASSUME TypeOK, NEW r \in Requests, EndReconcile(r)
  PROVE  pc'[r] = "idle" /\ \A x \in Requests \ {r} : WorkersStay(x)
BY DEF TypeOK, WorkerTypes, EndReconcile, WorkersStay

LEMMA WorkerGoesOn ==
  ASSUME TypeOK, NEW r \in Requests, NEW to, NEW o, NEW p, GoOn(r, to, o, p)
  PROVE  /\ pc'[r] = to /\ copy'[r] = o /\ plan'[r] = p
         /\ \A x \in Requests \ {r} : WorkersStay(x)
BY DEF TypeOK, WorkerTypes, GoOn, WorkersStay

LEMMA WorkerContinues ==
  ASSUME TypeOK, NEW r \in Requests, NEW o, NEW p, Continue(r, o, p)
  PROVE  /\ pc'[r] = "idle" \/ (pc'[r] = "update" /\ copy'[r] = o /\ plan'[r] = p)
         /\ \A x \in Requests \ {r} : WorkersStay(x)
BY WorkerEnds, WorkerGoesOn DEF Continue

(* A write that only goes forward leaves every copy behind it. *)
LEMMA WriteGoesForward ==
  ASSUME TypeOK, NEW r \in Requests, NEW o \in Objects, SetRequest(r, o),
         o.version = requests[r].version, o.created = requests[r].created,
         requests[r].deleted => o.deleted,
         requests[r].status.phase # NoPhase => o.status.phase # NoPhase
  PROVE  /\ requests'[r] \in Objects
         /\ requests'[r].there = o.there /\ requests'[r].deleted = o.deleted
         /\ requests'[r].created = o.created /\ requests'[r].status = o.status
         /\ \A c \in Objects : Follows(c, requests[r]) => Follows(c, requests'[r])
         /\ cache'[r] \in {cache[r], requests'[r]}
         /\ \A x \in Requests \ {r} : ObjectsStay(x)
<1> DEFINE new == [o EXCEPT !.version = @ + 1]
<1>1. /\ new \in Objects /\ new.version = requests[r].version + 1
      /\ new.there = o.there /\ new.deleted = o.deleted
      /\ new.created = o.created /\ new.status = o.status
  BY RequestTypes DEF Objects
<1>2. ASSUME NEW c \in Objects, Follows(c, requests[r])
      PROVE  Follows(c, new)
  <2> HIDE DEF new
  <2>1. requests[r].version \in Nat /\ c.version \in Nat
    BY RequestTypes DEF Objects
  <2> QED BY <1>1, <1>2, <2>1 DEF Follows
<1>3. (requests'[r] = requests[r] /\ o = requests[r]) \/ requests'[r] = new
  BY DEF SetRequest, TypeOK, ObjectTypes
<1>4. cache'[r] \in {cache[r], requests'[r]} /\ \A x \in Requests \ {r} : ObjectsStay(x)
  BY DEF SetRequest, ObjectsStay, TypeOK, ObjectTypes
<1> HIDE DEF new
<1> QED BY <1>1, <1>2, <1>3, <1>4, RequestTypes

(* A request something is done about was created. *)
LEMMA Touched ==
  ASSUME Safe, NEW r \in Requests,
         \/ pc[r] # "idle" \/ cache[r].there \/ requests[r].there
         \/ ~Absent(pods[r]) \/ pods[r].leaving
  PROVE  requests[r].created # None
<1>1. CopiesFollow(r) /\ PodRunsOnce(r)
  BY DEF Safe
<1>2. ~NoObject.there /\ ~Settled(NoObject)
  BY DEF NoObject, NoStatus, Settled
<1> QED BY <1>1, <1>2 DEF CopiesFollow, PodRunsOnce, Untouched

(* A step of the worker alone. *)
WorkerStep ==
  UNCHANGED <<requests, cache, policies, pods, starts, vouchedFor, clock>>

LEMMA WorkerSafe ==
  ASSUME TypeOK, Safe, NEW r \in Requests, WorkerStep,
         \A x \in Requests \ {r} : WorkersStay(x),
         requests[r].created # None,
         WorkerKnows(r)',
         pc'[r] # "idle" => Follows(copy'[r], requests[r]),
         pc'[r] \in {"pending", "pod"} => vouchedFor[r]
  PROVE  Safe'
<1>1. CopiesFollow(r)'
  BY DEF Safe, CopiesFollow, Follows, WorkerStep
<1>2. PodRunsOnce(r)'
  BY DEF Safe, PodRunsOnce, WorkerStep
<1>3. Vouching(r)'
  BY DEF Safe, Vouching, Vouched, WorkerStep
<1>4. TimeGoesOn /\ \A x \in Requests \ {r} : ObjectsStay(x) /\ WorkersStay(x) /\ RunsStay(x)
  BY RequestTypes DEF TimeGoesOn, ObjectsStay, RunsStay, WorkerStep
<1> QED BY <1>1, <1>2, <1>3, <1>4, Focus DEF SafeRequest

LEMMA IdleSafe ==
  ASSUME TypeOK, Safe, NEW r \in Requests, WorkerStep, pc[r] # "idle", EndReconcile(r)
  PROVE  Safe'
<1>1. pc'[r] = "idle" /\ \A x \in Requests \ {r} : WorkersStay(x)
  BY WorkerEnds
<1>2. WorkerKnows(r)'
  BY <1>1 DEF WorkerKnows
<1> QED BY <1>1, <1>2, Touched, WorkerSafe

LEMMA ConcludeSafe ==
  ASSUME TypeOK, Safe, NEW r \in Requests, WorkerStep, Observing(r),
         NEW st \in ApplyStatuses, NEW run \in Runs, st.phase # NoPhase, Conclude(r, st, run)
  PROVE  Safe'
<1> DEFINE announce == Terminal(st) /\ ~Terminal(cache[r].status)
           pod == Terminal(st) /\ ~Absent(pods[r]) /\ ~pods[r].leaving
           expired == Terminal(st) /\ clock >= st.finishedAt + TTL
           p == [NoPlan EXCEPT !.status = st, !.run = run, !.dirty = st # cache[r].status,
                               !.announce = announce, !.pod = pod, !.expired = expired]
<1>1. p.status = st /\ (~p.dirty => st = cache[r].status)
  <2> HIDE DEF announce, pod, expired
  <2> QED BY DEF NoPlan
<1>2. Continue(r, cache[r], p)
  BY DEF Conclude
<1> HIDE DEF p
<1>3. /\ pc'[r] = "idle" \/ (pc'[r] = "update" /\ copy'[r] = cache[r] /\ plan'[r] = p)
      /\ \A x \in Requests \ {r} : WorkersStay(x)
  BY <1>2, WorkerContinues
<1>4. Follows(cache[r], requests[r]) /\ requests[r].created # None
  BY Touched DEF Safe, CopiesFollow, Observing
<1>5. WorkerKnows(r)'
  BY <1>1, <1>3, <1>4 DEF WorkerKnows, WorkerStep, Follows
<1> QED BY <1>3, <1>4, <1>5, WorkerSafe

LEMMA PhasesDiffer == NoPhase \notin {"Running", "Succeeded", "Failed", "Rejected"}
BY DEF NoPhase

LEMMA EndingSettles ==
  ASSUME NEW st \in ApplyStatuses, NEW phase \in {"Succeeded", "Failed", "Rejected"},
         NEW exit \in Exits, NEW at \in Time
  PROVE  /\ Ending(st, phase, exit, at) \in ApplyStatuses
         /\ Ending(st, phase, exit, at).phase # NoPhase
<1>1. phase \in Phases
  BY DEF Phases
<1>2. Ending(st, phase, exit, at).phase = phase
  BY DEF Ending, ApplyStatuses
<1> QED BY <1>1, <1>2, EndingTypes, PhasesDiffer

(* A step that writes the request, and one that changes its pod. *)
LEMMA WriteSafe ==
  ASSUME TypeOK, Safe, NEW r \in Requests, NEW o \in Objects, SetRequest(r, o),
         o.version = requests[r].version, o.created = requests[r].created,
         requests[r].created # None,
         requests[r].deleted => o.deleted,
         requests[r].status.phase # NoPhase => o.status.phase # NoPhase,
         o.there \/ Absent(pods[r]),
         UNCHANGED <<policies, pods, starts, vouchedFor, clock>>,
         \A x \in Requests \ {r} : WorkersStay(x),
         WorkerKnows(r)',
         pc'[r] # "idle" => Follows(copy'[r], requests'[r]),
         pc'[r] \in {"pending", "pod"} => vouchedFor[r]
  PROVE  Safe'
<1>1. /\ requests'[r] \in Objects
      /\ requests'[r].there = o.there /\ requests'[r].deleted = o.deleted
      /\ requests'[r].created = o.created /\ requests'[r].status = o.status
      /\ \A c \in Objects : Follows(c, requests[r]) => Follows(c, requests'[r])
      /\ cache'[r] \in {cache[r], requests'[r]}
      /\ \A x \in Requests \ {r} : ObjectsStay(x)
  BY WriteGoesForward
<1>2. CopiesFollow(r) /\ PodRunsOnce(r) /\ Vouching(r) /\ cache[r] \in Objects
  BY RequestTypes DEF Safe
<1>3. CopiesFollow(r)'
  BY <1>1, <1>2, FollowsItself DEF CopiesFollow
<1>4. PodRunsOnce(r)'
  BY <1>1, <1>2 DEF PodRunsOnce, Settled, Absent
<1>5. Vouching(r)'
  BY <1>1, <1>2 DEF Vouching, Vouched
<1>6. TimeGoesOn /\ \A x \in Requests \ {r} : RunsStay(x)
  BY RequestTypes DEF TimeGoesOn, RunsStay
<1> QED BY <1>1, <1>3, <1>4, <1>5, <1>6, Focus DEF SafeRequest

(* The runtime's write, over what was read, of a status with a phase. *)
LEMMA RuntimeSafe ==
  ASSUME TypeOK, Safe, NEW r \in Requests, NEW o, NEW st \in ApplyStatuses, st.phase # NoPhase,
         KeepRequests \/ RuntimeWrites(r, o, st), requests[r].created # None,
         UNCHANGED <<policies, pods, starts, vouchedFor, clock>>,
         pc'[r] = "idle", \A x \in Requests \ {r} : WorkersStay(x)
  PROVE  Safe'
<1>1. WorkerKnows(r)'
  BY DEF WorkerKnows
<1>2. CASE KeepRequests
  BY <1>1, <1>2, WorkerSafe DEF KeepRequests, WorkerStep
<1>3. CASE requests[r].there /\ SetRequest(r, [requests[r] EXCEPT !.status = st])
  <2> DEFINE new == [requests[r] EXCEPT !.status = st]
  <2>1. /\ new \in Objects /\ new.version = requests[r].version
        /\ new.created = requests[r].created /\ new.deleted = requests[r].deleted
        /\ new.status = st /\ new.there
    BY <1>3, RequestTypes DEF Objects
  <2>2. SetRequest(r, new)
    BY <1>3
  <2> HIDE DEF new
  <2> QED BY <1>1, <2>1, <2>2, WriteSafe
<1> QED BY <1>2, <1>3 DEF RuntimeWrites

LEMMA PodSafe ==
  ASSUME TypeOK, Safe, NEW r \in Requests, requests[r].created # None,
         UNCHANGED <<requests, cache, policies, vouchedFor, clock>>,
         \A x \in Requests \ {r} :
           WorkersStay(x) /\ pods'[x] = pods[x] /\ starts'[x] = starts[x],
         WorkerKnows(r)',
         PodRunsOnce(r)',
         pc'[r] # "idle" => Follows(copy'[r], requests[r]),
         pc'[r] \in {"pending", "pod"} \/ ~Absent(pods'[r]) \/ starts'[r] > 0 => vouchedFor[r]
  PROVE  Safe'
<1>1. CopiesFollow(r)'
  BY DEF Safe, CopiesFollow
<1>2. Vouching(r)'
  BY DEF Safe, Vouching, Vouched, Absent
<1>3. TimeGoesOn /\ \A x \in Requests \ {r} : ObjectsStay(x) /\ WorkersStay(x) /\ RunsStay(x)
  BY RequestTypes DEF TimeGoesOn, ObjectsStay, RunsStay
<1> QED BY <1>1, <1>2, <1>3, Focus DEF SafeRequest

(* The pod of a settled request may go. *)
LEMMA PodLeaves ==
  ASSUME TypeOK, Safe, NEW r \in Requests, DeletePod(r) \/ PodGoes(r),
         ~Absent(pods[r]) => Settled(requests[r]), UNCHANGED <<requests, starts>>
  PROVE  /\ Absent(pods[r]) => Absent(pods'[r])
         /\ PodRunsOnce(r)'
         /\ \A x \in Requests \ {r} : pods'[x] = pods[x]
<1>1. PodRunsOnce(r) /\ pods[r] \in ApplyPods
  BY RequestTypes DEF Safe
<1>2. CASE PodGoes(r)
  <2>1. pods'[r] = NoPod /\ \A x \in Requests \ {r} : pods'[x] = pods[x]
    BY <1>2 DEF PodGoes, TypeOK, ClusterTypes
  <2>2. NoPod.phase = "None" /\ NoPod.leaving = FALSE
    BY DEF NoPod
  <2> QED BY <1>1, <2>1, <2>2 DEF PodRunsOnce, Absent
<1>3. CASE ~Absent(pods[r]) /\ pods' = [pods EXCEPT ![r].leaving = TRUE]
  <2>1. /\ pods'[r].phase = pods[r].phase /\ pods'[r].leaving = TRUE
        /\ \A x \in Requests \ {r} : pods'[x] = pods[x]
    BY <1>1, <1>3 DEF TypeOK, ClusterTypes, ApplyPods
  <2> QED BY <1>1, <1>3, <2>1 DEF PodRunsOnce, Absent
<1>4. CASE Absent(pods[r]) /\ UNCHANGED cluster
  BY <1>1, <1>4 DEF PodRunsOnce, Absent, cluster
<1> QED BY <1>2, <1>3, <1>4 DEF DeletePod

-----------------------------------------------------------------------------
(* Every action keeps requests safe. *)
LEMMA ObserveSafe ==
  ASSUME TypeOK, Safe, NEW r \in Requests,
         (\E allowed \in Answers : ObserveNew(r, allowed)) \/ ObserveRun(r) \/ ObserveDeleted(r)
  PROVE  Safe'
<1>1. /\ Observing(r) /\ WorkerStep
  BY DEF ObserveNew, ObserveRun, ObserveDeleted, WorkerStep, objects, cluster, history, bounds
<1>2. /\ Follows(cache[r], requests[r]) /\ requests[r].created # None /\ cache[r].there
      /\ Vouching(r) /\ cache[r] \in Objects /\ cache[r].status \in ApplyStatuses
      /\ clock \in Time /\ pods[r] \in ApplyPods /\ cache[r].created \in Nat
  BY <1>1, Touched, RequestTypes DEF Safe, CopiesFollow, Observing, Objects
<1>3. ASSUME NEW allowed \in Answers, ObserveNew(r, allowed)
      PROVE  Safe'
  <2>1. CASE Admissible(r) /\ GoOn(r, "pending", cache[r],
                                   [NoPlan EXCEPT !.script = incidentCache.status.howToFix])
    <3>1. /\ pc'[r] = "pending" /\ copy'[r] = cache[r]
          /\ \A x \in Requests \ {r} : WorkersStay(x)
      BY <2>1, WorkerGoesOn
    <3>2. WorkerKnows(r)'
      BY <1>1, <1>2, <1>3, <3>1 DEF WorkerKnows, ObserveNew, WorkerStep
    <3>3. Vouched(requests[r])
      <4>1. Vouched(cache[r]) /\ policies["policy"] < cache[r].created
            /\ policies["policy"] \in Nat
        BY <2>1 DEF Admissible, Vouched, TypeOK, ObjectTypes
      <4>2. cache[r].created = requests[r].created
        BY <1>2, <4>1 DEF Follows
      <4> QED BY <4>1, <4>2 DEF Vouched
    <3> QED BY <1>1, <1>2, <3>1, <3>2, <3>3, WorkerSafe DEF Vouching
  <2>2. CASE Conclude(r, Ending(cache[r].status, "Rejected", NoExit, clock), NoRun)
    <3>1. /\ Ending(cache[r].status, "Rejected", NoExit, clock) \in ApplyStatuses
          /\ Ending(cache[r].status, "Rejected", NoExit, clock).phase # NoPhase
      BY <1>2, EndingSettles DEF Exits
    <3> QED BY <1>1, <2>2, <3>1, NewValues, ConcludeSafe
  <2> QED BY <1>3, <2>1, <2>2 DEF ObserveNew
<1>4. CASE ObserveRun(r)
  <2> DEFINE st == IF cache[r].status.phase = NoPhase THEN Started(r) ELSE cache[r].status
             run == [exit |-> ExitOf(pods[r]), at |-> EndedAt(pods[r], ApplyTimeout)]
  <2>1. Started(r) \in ApplyStatuses /\ Started(r).phase = "Running"
    BY <1>2 DEF Started, ApplyStatuses, Phases, TypeOK, ClusterTypes, ConfigMaps
  <2>2. st \in ApplyStatuses /\ st.phase # NoPhase
    BY <1>2, <2>1, PhasesDiffer
  <2>3. run \in Runs
    BY <1>2, RunTypes DEF Runs
  <2>4. \/ Conclude(r, Ending(st, "Failed", NoExit, clock), NoRun)
        \/ Conclude(r, FinishedRun(r, st), run)
        \/ Conclude(r, st, NoRun)
    BY <1>4 DEF ObserveRun
  <2> HIDE DEF st, run
  <2>5. /\ Ending(st, "Failed", NoExit, clock) \in ApplyStatuses
        /\ Ending(st, "Failed", NoExit, clock).phase # NoPhase
    BY <1>2, <2>2, EndingSettles DEF Exits
  <2>6. FinishedRun(r, st) \in ApplyStatuses /\ FinishedRun(r, st).phase # NoPhase
    <3>1. ExitOf(pods[r]) \in Exits /\ EndedAt(pods[r], ApplyTimeout) \in Time
      BY <1>2, RunTypes
    <3> QED BY <2>2, <3>1, EndingSettles DEF FinishedRun
  <2> QED BY <1>1, <2>2, <2>3, <2>4, <2>5, <2>6, NewValues, ConcludeSafe
<1>5. CASE ObserveDeleted(r)
  <2>1. /\ pc'[r] = IF Absent(pods[r]) THEN "finalize" ELSE "delete"
        /\ copy'[r] = cache[r] /\ \A x \in Requests \ {r} : WorkersStay(x)
    BY <1>5, WorkerGoesOn DEF ObserveDeleted
  <2>2. WorkerKnows(r)'
    BY <1>1, <1>2, <1>5, <2>1 DEF WorkerKnows, ObserveDeleted, WorkerStep, Follows
  <2> QED BY <1>1, <1>2, <2>1, <2>2, WorkerSafe
<1> QED BY <1>3, <1>4, <1>5

LEMMA CreateSafe ==
  ASSUME TypeOK, Safe, NEW r \in Requests,
         WritePending(r) \/ CreatePod(r) \/ CreateSecret(r) \/ CreateConfigMap(r) \/ Annotate(r)
  PROVE  Safe'
<1>1. /\ pc[r] # "idle" /\ requests[r].created # None
      /\ Follows(copy[r], requests[r]) /\ WorkerKnows(r) /\ PodRunsOnce(r) /\ Vouching(r)
      /\ requests[r] \in Objects /\ copy[r] \in Objects /\ clock \in Nat
  BY Touched, RequestTypes DEF Safe, CopiesFollow, WritePending, CreatePod, CreateSecret,
     CreateConfigMap, Annotate
<1>2. CASE WritePending(r)
  <2> DEFINE o == [copy[r] EXCEPT !.incomplete = TRUE]
  <2>1. CASE KeepRequests /\ EndReconcile(r)
    BY <1>1, <1>2, <2>1, IdleSafe DEF WorkerStep, WritePending, KeepRequests, KeepIncident,
       cluster, history, bounds
  <2>2. CASE /\ requests[r].there /\ copy[r].version = requests[r].version
             /\ SetRequest(r, o) /\ GoOn(r, "pod", requests'[r], plan[r])
    <3>1. copy[r] = requests[r]
      BY <1>1, <2>2 DEF Follows
    <3>2. /\ o \in Objects /\ o.version = requests[r].version /\ o.created = requests[r].created
          /\ o.deleted = requests[r].deleted /\ o.status = requests[r].status /\ o.there
      BY <1>1, <2>2, <3>1 DEF Objects
    <3> HIDE DEF o
    <3>3. /\ requests'[r] \in Objects /\ requests'[r].there
      BY <2>2, <3>2, WriteGoesForward
    <3>4. /\ pc'[r] = "pod" /\ copy'[r] = requests'[r]
          /\ \A x \in Requests \ {r} : WorkersStay(x)
      BY <2>2, WorkerGoesOn
    <3>5. Absent(pods[r]) /\ starts[r] = 0 /\ vouchedFor[r]
      BY <1>1, <1>2, <3>1, RequestTypes DEF WritePending, WorkerKnows, PodRunsOnce, Settled, Vouching
    <3>6. UNCHANGED <<policies, pods, starts, vouchedFor, clock>>
      BY <1>2 DEF WritePending, KeepIncident, cluster, history, bounds
    <3>7. WorkerKnows(r)'
      BY <3>3, <3>4, <3>5, <3>6 DEF WorkerKnows, Absent
    <3> QED BY <1>1, <2>2, <3>2, <3>3, <3>4, <3>5, <3>6, <3>7, FollowsItself, WriteSafe
  <2> QED BY <1>2, <2>1, <2>2 DEF WritePending
<1>3. CASE CreatePod(r)
  <2>1. Absent(pods[r]) /\ starts[r] = 0 /\ requests[r].there /\ vouchedFor[r]
    BY <1>1, <1>3 DEF CreatePod, WorkerKnows, Vouching
  <2>2. pods' = [pods EXCEPT ![r] = ApplyPod(clock)] /\ pods'[r] = ApplyPod(clock)
    BY <1>3, <2>1 DEF CreatePod, TypeOK, ClusterTypes
  <2>3. ApplyPod(clock).phase = "Pending" /\ ApplyPod(clock).leaving = FALSE
    BY DEF ApplyPod, NoPod
  <2>4. /\ pc'[r] = "secret" /\ copy'[r] = copy[r]
        /\ \A x \in Requests \ {r} : WorkersStay(x)
    BY <1>3, WorkerGoesOn DEF CreatePod
  <2>5. UNCHANGED <<requests, cache, policies, starts, vouchedFor, clock>>
    BY <1>3 DEF CreatePod, objects, history, bounds
  <2>6. WorkerKnows(r)'
    BY <2>4 DEF WorkerKnows
  <2>7. PodRunsOnce(r)'
    BY <2>1, <2>2, <2>3, <2>5 DEF PodRunsOnce, Absent
  <2>8. \A x \in Requests \ {r} : pods'[x] = pods[x]
    BY <2>2 DEF TypeOK, ClusterTypes
  <2> QED BY <1>1, <2>1, <2>4, <2>5, <2>6, <2>7, <2>8, PodSafe
<1>4. CASE CreateSecret(r) \/ CreateConfigMap(r)
  <2>1. WorkerStep
    BY <1>4 DEF CreateSecret, CreateConfigMap, WorkerStep, objects, history, bounds
  <2>2. /\ pc'[r] \in {"configmap", "annotate"} /\ copy'[r] = copy[r]
        /\ \A x \in Requests \ {r} : WorkersStay(x)
    BY <1>4, WorkerGoesOn DEF CreateSecret, CreateConfigMap
  <2>3. WorkerKnows(r)'
    BY <2>2 DEF WorkerKnows
  <2> QED BY <1>1, <2>1, <2>2, <2>3, WorkerSafe
<1>5. CASE Annotate(r)
  <2>1. CASE KeepRequests
    BY <1>1, <1>5, <2>1, IdleSafe DEF WorkerStep, Annotate, KeepRequests, KeepIncident,
       cluster, history, bounds
  <2>2. CASE requests[r].there /\ SetRequest(r, [requests[r] EXCEPT !.incomplete = FALSE])
    <3> DEFINE o == [requests[r] EXCEPT !.incomplete = FALSE]
    <3>1. /\ o \in Objects /\ o.version = requests[r].version /\ o.created = requests[r].created
          /\ o.deleted = requests[r].deleted /\ o.status = requests[r].status /\ o.there
      BY <1>1, <2>2 DEF Objects
    <3>2. SetRequest(r, o)
      BY <2>2
    <3> HIDE DEF o
    <3>3. pc'[r] = "idle" /\ \A x \in Requests \ {r} : WorkersStay(x)
      BY <1>5, WorkerEnds DEF Annotate
    <3>4. WorkerKnows(r)'
      BY <3>3 DEF WorkerKnows
    <3>5. UNCHANGED <<policies, pods, starts, vouchedFor, clock>>
      BY <1>5 DEF Annotate, KeepIncident, cluster, history, bounds
    <3> QED BY <1>1, <3>1, <3>2, <3>3, <3>4, <3>5, WriteSafe
  <2> QED BY <1>5, <2>1, <2>2 DEF Annotate
<1> QED BY <1>2, <1>3, <1>4, <1>5

LEMMA UpdateSafe ==
  ASSUME TypeOK, Safe, NEW r \in Requests,
         RecordOnIncident(r) \/ PatchStatus(r) \/ Announce(r) \/ DeleteApplyPod(r) \/ DeleteExpired(r)
  PROVE  Safe'
<1>1. /\ pc[r] = "update" /\ requests[r].created # None
      /\ Follows(copy[r], requests[r]) /\ WorkerKnows(r) /\ Vouching(r)
      /\ requests[r] \in Objects /\ copy[r] \in Objects /\ plan[r] \in Plans
      /\ plan[r].status.phase # NoPhase
  BY Touched, RequestTypes DEF Safe, CopiesFollow, WorkerKnows, RecordOnIncident, PatchStatus,
     Announce, DeleteApplyPod, DeleteExpired, Persisted
<1>2. ASSUME NEW p, p.status = plan[r].status, p.dirty = plan[r].dirty, UNCHANGED requests,
             Continue(r, copy[r], p)
      PROVE  /\ WorkerKnows(r)' /\ pc'[r] \in {"idle", "update"}
             /\ pc'[r] # "idle" => copy'[r] = copy[r]
             /\ \A x \in Requests \ {r} : WorkersStay(x)
  BY <1>1, <1>2, WorkerContinues DEF WorkerKnows
<1>3. CASE RecordOnIncident(r)
  <2> DEFINE done == [plan[r] EXCEPT !.run = NoRun]
  <2>1. done.status = plan[r].status /\ done.dirty = plan[r].dirty
    BY <1>1 DEF Plans
  <2>2. UNCHANGED <<policies, pods, starts, vouchedFor, clock>>
    BY <1>3 DEF RecordOnIncident, cluster, bounds
  <2>3. CASE KeepRequests /\ Continue(r, copy[r], done)
    <3> HIDE DEF done
    <3> QED BY <1>1, <1>2, <2>1, <2>2, <2>3, WorkerSafe DEF KeepRequests, WorkerStep
  <2>4. CASE RuntimeWrites(r, copy[r], plan[r].status) /\ EndReconcile(r)
    <3>1. plan[r].status \in ApplyStatuses
      BY <1>1 DEF Plans
    <3>2. pc'[r] = "idle" /\ \A x \in Requests \ {r} : WorkersStay(x)
      BY <2>4, WorkerEnds
    <3> QED BY <1>1, <2>2, <2>4, <3>1, <3>2, RuntimeSafe
  <2> QED BY <1>3, <2>3, <2>4 DEF RecordOnIncident
<1>4. CASE PatchStatus(r)
  <2> DEFINE st == Patched(requests[r].status, copy[r].status, plan[r].status)
             o == [requests[r] EXCEPT !.status = st]
             clean == [plan[r] EXCEPT !.dirty = FALSE]
  <2>1. CASE KeepRequests /\ EndReconcile(r)
    BY <1>1, <1>4, <2>1, IdleSafe DEF WorkerStep, PatchStatus, KeepRequests, KeepIncident,
       cluster, history, bounds
  <2>2. CASE /\ requests[r].there /\ SetRequest(r, o) /\ Continue(r, requests'[r], clean)
    <3>1. /\ requests[r].status \in ApplyStatuses /\ copy[r].status \in ApplyStatuses
          /\ plan[r].status \in ApplyStatuses
      BY <1>1 DEF Objects, Plans
    <3>2. st \in ApplyStatuses /\ st.phase # NoPhase
      <4>1. st.phase = IF plan[r].status.phase # copy[r].status.phase
                       THEN plan[r].status.phase ELSE requests[r].status.phase
        BY <3>1 DEF Patched, ApplyStatuses
      <4>2. copy[r].status.phase # NoPhase => requests[r].status.phase # NoPhase
        BY <1>1 DEF Follows
      <4> HIDE DEF st
      <4>3. st.phase # NoPhase
        BY <1>1, <4>1, <4>2
      <4> QED BY <3>1, <4>3, PatchedType DEF st
    <3> HIDE DEF st
    <3>3. /\ o \in Objects /\ o.version = requests[r].version /\ o.created = requests[r].created
          /\ o.deleted = requests[r].deleted /\ o.status = st /\ o.there
      BY <1>1, <2>2, <3>2 DEF Objects
    <3> HIDE DEF o
    <3>4. requests'[r] \in Objects /\ requests'[r].status = st
      BY <2>2, <3>2, <3>3, WriteGoesForward
    <3>5. clean.status = plan[r].status
      BY <1>1 DEF Plans
    <3> HIDE DEF clean
    <3>6. /\ pc'[r] = "idle"
             \/ (pc'[r] = "update" /\ copy'[r] = requests'[r] /\ plan'[r] = clean)
          /\ \A x \in Requests \ {r} : WorkersStay(x)
      BY <2>2, WorkerContinues
    <3>7. WorkerKnows(r)'
      BY <1>1, <3>2, <3>4, <3>5, <3>6 DEF WorkerKnows
    <3>8. UNCHANGED <<policies, pods, starts, vouchedFor, clock>>
      BY <1>4 DEF PatchStatus, KeepIncident, cluster, history, bounds
    <3> QED BY <1>1, <2>2, <3>2, <3>3, <3>4, <3>6, <3>7, <3>8, FollowsItself, WriteSafe
  <2> QED BY <1>4, <2>1, <2>2 DEF PatchStatus
<1>5. CASE Announce(r)
  <2>1. /\ [plan[r] EXCEPT !.announce = FALSE].status = plan[r].status
        /\ [plan[r] EXCEPT !.announce = FALSE].dirty = plan[r].dirty
    BY <1>1 DEF Plans
  <2>2. WorkerStep /\ UNCHANGED requests
    BY <1>5 DEF Announce, WorkerStep, objects, cluster, bounds
  <2> QED BY <1>1, <1>2, <1>5, <2>1, <2>2, WorkerSafe DEF Announce
<1>6. CASE DeleteApplyPod(r)
  <2>1. /\ [plan[r] EXCEPT !.pod = FALSE].status = plan[r].status
        /\ [plan[r] EXCEPT !.pod = FALSE].dirty = plan[r].dirty
    BY <1>1 DEF Plans
  <2>2. UNCHANGED <<requests, cache, policies, starts, vouchedFor, clock>>
    BY <1>6 DEF DeleteApplyPod, objects, history, bounds
  <2>3. Settled(requests[r])
    BY <1>1, <1>6 DEF DeleteApplyPod, Persisted, WorkerKnows, Settled
  <2>4. /\ Absent(pods[r]) => Absent(pods'[r])
        /\ PodRunsOnce(r)' /\ \A x \in Requests \ {r} : pods'[x] = pods[x]
    BY <1>6, <2>2, <2>3, PodLeaves DEF DeleteApplyPod
  <2>5. /\ WorkerKnows(r)' /\ pc'[r] \in {"idle", "update"}
        /\ pc'[r] # "idle" => copy'[r] = copy[r]
        /\ \A x \in Requests \ {r} : WorkersStay(x)
    BY <1>2, <1>6, <2>1, <2>2 DEF DeleteApplyPod
  <2> QED BY <1>1, <2>2, <2>4, <2>5, PodSafe DEF Vouching
<1>7. CASE DeleteExpired(r)
  <2>1. pc'[r] = "idle" /\ \A x \in Requests \ {r} : WorkersStay(x)
    BY <1>7, WorkerEnds DEF DeleteExpired
  <2>2. WorkerKnows(r)' /\ UNCHANGED <<policies, pods, starts, vouchedFor, clock>>
    BY <1>7, <2>1 DEF WorkerKnows, DeleteExpired, KeepIncident, cluster, history, bounds
  <2>3. CASE KeepRequests
    BY <1>1, <1>7, <2>2, <2>3, IdleSafe DEF DeleteExpired, WorkerStep, KeepRequests
  <2>4. CASE requests[r].there /\ SetRequest(r, [requests[r] EXCEPT !.deleted = TRUE])
    <3> DEFINE o == [requests[r] EXCEPT !.deleted = TRUE]
    <3>1. /\ o \in Objects /\ o.version = requests[r].version /\ o.created = requests[r].created
          /\ o.deleted = TRUE /\ o.status = requests[r].status /\ o.there
      BY <1>1, <2>4 DEF Objects
    <3>2. SetRequest(r, o)
      BY <2>4
    <3> HIDE DEF o
    <3> QED BY <1>1, <2>1, <2>2, <3>1, <3>2, WriteSafe
  <2> QED BY <1>7, <2>3, <2>4 DEF DeleteExpired, MarkDeleted
<1> QED BY <1>3, <1>4, <1>5, <1>6, <1>7

LEMMA DeleteSafe ==
  ASSUME TypeOK, Safe, NEW r \in Requests, DeleteRun(r) \/ RemoveFinalizer(r)
  PROVE  Safe'
<1>1. /\ pc[r] \in {"delete", "finalize"} /\ requests[r].created # None
      /\ Follows(copy[r], requests[r]) /\ WorkerKnows(r) /\ Vouching(r)
      /\ requests[r] \in Objects /\ copy[r] \in Objects
  BY Touched, RequestTypes DEF Safe, CopiesFollow, DeleteRun, RemoveFinalizer
<1>2. /\ pc'[r] = "idle" /\ \A x \in Requests \ {r} : WorkersStay(x)
  BY WorkerEnds DEF DeleteRun, RemoveFinalizer
<1>3. WorkerKnows(r)'
  BY <1>2 DEF WorkerKnows
<1>4. CASE DeleteRun(r)
  <2>1. UNCHANGED <<requests, cache, policies, starts, vouchedFor, clock>>
    BY <1>4 DEF DeleteRun, objects, history, bounds
  <2>2. Settled(requests[r])
    BY <1>1, <1>4 DEF DeleteRun, WorkerKnows, Settled
  <2>3. /\ Absent(pods[r]) => Absent(pods'[r])
        /\ PodRunsOnce(r)' /\ \A x \in Requests \ {r} : pods'[x] = pods[x]
    BY <1>4, <2>1, <2>2, PodLeaves DEF DeleteRun
  <2> QED BY <1>1, <1>2, <1>3, <2>1, <2>3, PodSafe DEF Vouching
<1>5. CASE RemoveFinalizer(r)
  <2>1. UNCHANGED <<policies, pods, starts, vouchedFor, clock>>
    BY <1>5 DEF RemoveFinalizer, KeepIncident, cluster, history, bounds
  <2>2. CASE KeepRequests
    BY <1>1, <1>5, <2>1, <2>2, IdleSafe DEF RemoveFinalizer, WorkerStep, KeepRequests
  <2>3. CASE copy[r].version = requests[r].version /\ SetRequest(r, [copy[r] EXCEPT !.there = FALSE])
    <3> DEFINE o == [copy[r] EXCEPT !.there = FALSE]
    <3>1. copy[r] = requests[r] /\ Absent(pods[r])
      BY <1>1, <1>5, <2>3 DEF Follows, RemoveFinalizer, WorkerKnows
    <3>2. /\ o \in Objects /\ o.version = requests[r].version /\ o.created = requests[r].created
          /\ o.deleted = requests[r].deleted /\ o.status = requests[r].status
      BY <1>1, <3>1 DEF Objects
    <3>3. SetRequest(r, o)
      BY <2>3
    <3> HIDE DEF o
    <3> QED BY <1>1, <1>2, <1>3, <2>1, <3>1, <3>2, <3>3, WriteSafe
  <2> QED BY <1>5, <2>2, <2>3 DEF RemoveFinalizer
<1> QED BY <1>4, <1>5

LEMMA FaultSafe ==
  ASSUME TypeOK, Safe, (\E r \in Requests : ObserveFails(r) \/ CallFails(r)) \/ Restart
  PROVE  Safe'
<1>1. ASSUME NEW r \in Requests, CallFails(r)
      PROVE  Safe'
  <2>1. /\ pc[r] # "idle" /\ requests[r].created # None
        /\ UNCHANGED <<policies, pods, starts, vouchedFor, clock>>
    BY <1>1, Touched DEF CallFails, KeepIncident, cluster, history
  <2>2. CASE KeepRequests /\ EndReconcile(r)
    BY <2>1, <2>2, IdleSafe DEF KeepRequests, WorkerStep
  <2>3. CASE KeepRequests /\ GoOn(r, "annotate", copy[r], plan[r])
    <3>1. /\ pc'[r] = "annotate" /\ copy'[r] = copy[r]
          /\ \A x \in Requests \ {r} : WorkersStay(x)
      BY <2>3, WorkerGoesOn
    <3>2. WorkerKnows(r)'
      BY <3>1 DEF WorkerKnows
    <3>3. Follows(copy[r], requests[r]) /\ requests[r].created # None
      BY <2>1, Touched DEF Safe, CopiesFollow
    <3> QED BY <2>1, <2>3, <3>1, <3>2, <3>3, WorkerSafe DEF KeepRequests, WorkerStep
  <2>4. CASE /\ pc[r] = "update" /\ RuntimeWrites(r, copy[r], plan[r].status)
             /\ EndReconcile(r)
    <3>1. plan[r].status \in ApplyStatuses /\ plan[r].status.phase # NoPhase
      BY <2>4, RequestTypes DEF Plans, Safe, WorkerKnows
    <3>2. pc'[r] = "idle" /\ \A x \in Requests \ {r} : WorkersStay(x)
      BY <2>4, WorkerEnds
    <3> QED BY <2>1, <2>4, <3>1, <3>2, RuntimeSafe
  <2> QED BY <1>1, <2>2, <2>3, <2>4 DEF CallFails
<1>2. CASE Restart
  <2>1. WorkerStep
    BY <1>2 DEF Restart, WorkerStep, objects, cluster, history
  <2>2. ASSUME NEW x \in Requests
        PROVE  SafeRequest(x)'
    <3>1. pc'[x] = "idle" /\ SafeRequest(x)
      BY <1>2 DEF Restart, Safe, SafeRequest
    <3>2. CopiesFollow(x)'
      BY <2>1, <3>1 DEF SafeRequest, CopiesFollow, Untouched, Follows, WorkerStep
    <3>3. WorkerKnows(x)'
      BY <3>1 DEF WorkerKnows
    <3>4. PodRunsOnce(x)'
      BY <2>1, <3>1 DEF SafeRequest, PodRunsOnce, WorkerStep
    <3>5. Vouching(x)'
      BY <2>1, <3>1 DEF SafeRequest, Vouching, Vouched, WorkerStep
    <3> QED BY <3>2, <3>3, <3>4, <3>5 DEF SafeRequest
  <2> QED BY <2>1, <2>2 DEF Safe, SafeRequest, WorkerStep
<1>3. ASSUME NEW r \in Requests, ObserveFails(r)
      PROVE  Safe'
  <2> DEFINE st == [cache[r].status EXCEPT !.phase = "Running"]
  <2>1. st \in ApplyStatuses /\ st.phase # NoPhase
    <3>1. cache[r].status \in ApplyStatuses /\ "Running" \in Phases
      BY RequestTypes DEF Objects, Phases
    <3> QED BY <3>1, PhasesDiffer DEF ApplyStatuses
  <2>2. RuntimeWrites(r, cache[r], st)
    BY <1>3 DEF ObserveFails
  <2> HIDE DEF st
  <2>3. /\ requests[r].created # None /\ pc'[r] = "idle" /\ \A x \in Requests : WorkersStay(x)
        /\ UNCHANGED <<policies, pods, starts, vouchedFor, clock>>
    BY <1>3, Touched DEF ObserveFails, Observing, KeepIncident, workers, cluster, history,
       WorkersStay
  <2> QED BY <2>1, <2>2, <2>3, RuntimeSafe
<1> QED BY <1>1, <1>2, <1>3

LEMMA KubeletSafe ==
  ASSUME TypeOK, Safe, NEW r \in Requests, Kubelet(r)
  PROVE  Safe'
<1>1. /\ CopiesFollow(r) /\ WorkerKnows(r) /\ PodRunsOnce(r) /\ Vouching(r)
      /\ pods[r] \in ApplyPods /\ starts[r] \in Nat
  BY RequestTypes DEF Safe
<1>2. ASSUME NEW p, SetPod(r, p), ~Absent(pods[r]), ~Absent(p), p.phase # "Pending",
             p.leaving = pods[r].leaving, starts'[r] <= 1,
             \A x \in Requests \ {r} : starts'[x] = starts[x]
      PROVE  Safe'
  <2>1. /\ pods'[r] = p /\ \A x \in Requests \ {r} : pods'[x] = pods[x] /\ WorkersStay(x)
        /\ pc'[r] = pc[r] /\ copy'[r] = copy[r] /\ plan'[r] = plan[r]
    BY <1>2 DEF SetPod, workers, WorkersStay, TypeOK, ClusterTypes
  <2>2. UNCHANGED <<requests, cache, policies, vouchedFor, clock>>
    BY <1>2 DEF SetPod, objects, bounds
  <2>3. WorkerKnows(r)'
    BY <1>1, <1>2, <2>1, <2>2 DEF WorkerKnows, Absent
  <2>4. PodRunsOnce(r)'
    BY <1>1, <1>2, <2>1, <2>2 DEF PodRunsOnce, Absent
  <2> QED BY <1>1, <1>2, <2>1, <2>2, <2>3, <2>4, Touched, PodSafe DEF CopiesFollow, Vouching
<1>3. CASE PodStarts(r)
  <2> DEFINE p == StartedPod(pods[r], configs[r].body, clock)
  <2>1. /\ ~Absent(pods[r]) /\ ~Absent(p) /\ p.phase # "Pending" /\ p.leaving = pods[r].leaving
    BY <1>1, <1>3 DEF PodStarts, MayStart, StartedPod, ApplyPods, Absent
  <2>2. starts[r] = 0 /\ starts' = [starts EXCEPT ![r] = @ + 1] /\ SetPod(r, p)
    BY <1>1, <1>3 DEF PodStarts, MayStart, PodRunsOnce
  <2>3. starts'[r] = 1 /\ \A x \in Requests \ {r} : starts'[x] = starts[x]
    BY <2>2 DEF TypeOK, HistoryTypes
  <2> HIDE DEF p
  <2> QED BY <1>2, <2>1, <2>2, <2>3
<1>4. ASSUME NEW p, SetPod(r, p), MayExit(pods[r]) \/ \E start : MayFail(pods[r], start),
             p.phase = "Ended", p.leaving = pods[r].leaving, UNCHANGED starts
      PROVE  Safe'
  BY <1>1, <1>2, <1>4 DEF MayExit, MayFail, Absent, PodRunsOnce
<1>5. ASSUME NEW code \in ExitCodes, ContainerExits(r, code)
      PROVE  Safe'
  <2>1. /\ ExitedPod(pods[r], code, clock).phase = "Ended"
        /\ ExitedPod(pods[r], code, clock).leaving = pods[r].leaving
    BY <1>1 DEF ExitedPod, ApplyPods
  <2> QED BY <1>4, <1>5, <2>1 DEF ContainerExits
<1>6. CASE DeadlineStops(r)
  <2>1. /\ StoppedPod(pods[r], clock).phase = "Ended"
        /\ StoppedPod(pods[r], clock).leaving = pods[r].leaving
    BY <1>1 DEF StoppedPod, ExitedPod, ApplyPods
  <2> QED BY <1>4, <1>6, <2>1 DEF DeadlineStops, MayStop
<1>7. ASSUME NEW start, PodFails(r, start)
      PROVE  Safe'
  <2>1. /\ FailedPod(pods[r], start).phase = "Ended"
        /\ FailedPod(pods[r], start).leaving = pods[r].leaving
    BY <1>1 DEF FailedPod, ApplyPods
  <2> QED BY <1>4, <1>7, <2>1 DEF PodFails
<1>8. CASE PodGone(r)
  <2>1. /\ UNCHANGED <<requests, cache, policies, starts, vouchedFor, clock, pc, copy, plan>>
        /\ PodGoes(r) /\ Settled(requests[r]) /\ requests[r].created # None
    BY <1>1, <1>8, Touched DEF PodGone, objects, workers, history, bounds, PodRunsOnce
  <2>2. /\ Absent(pods[r]) => Absent(pods'[r])
        /\ PodRunsOnce(r)' /\ \A x \in Requests \ {r} : pods'[x] = pods[x]
    BY <2>1, PodLeaves
  <2>3. WorkerKnows(r)'
    BY <1>1, <2>1, <2>2 DEF WorkerKnows, Absent
  <2> QED BY <1>1, <2>1, <2>2, <2>3, PodSafe DEF CopiesFollow, Vouching, WorkersStay
<1> QED BY <1>3, <1>5, <1>6, <1>7, <1>8 DEF Kubelet

LEMMA UserSafe ==
  ASSUME TypeOK, Safe, NEW r \in Requests, Users(r) \/ PodRemoved(r)
  PROVE  Safe'
<1>1. /\ CopiesFollow(r) /\ WorkerKnows(r) /\ PodRunsOnce(r) /\ Vouching(r)
      /\ requests[r] \in Objects /\ copy[r] \in Objects /\ clock \in Nat /\ clock # None
  BY RequestTypes DEF Safe
<1>2. ASSUME NEW login \in LoginEnds, RequestCreated(r, login)
      PROVE  Safe'
  <2> DEFINE o == [NoObject EXCEPT !.there = TRUE, !.created = clock, !.login = login]
             new == [o EXCEPT !.version = @ + 1]
  <2>1. requests[r] = NoObject /\ cache[r] = NoObject /\ pc[r] = "idle" /\ Absent(pods[r])
        /\ starts[r] = 0
    BY <1>1, <1>2 DEF RequestCreated, CopiesFollow, Untouched
  <2>2. /\ new \in Objects /\ new.created = clock /\ new.there
        /\ new.status = NoStatus /\ new.version = 1
    <3>1. o \in Objects /\ o.created = clock /\ o.there /\ o.status = NoStatus /\ o.version = 0
      BY <1>1, NewValues, ApplyAssumption DEF Objects, NoObject
    <3> HIDE DEF o
    <3> QED BY <3>1 DEF Objects
  <2>3. requests'[r] = new
    <3>1. SetRequest(r, o) /\ ~NoObject.there /\ o.there
      BY <1>2 DEF RequestCreated, NoObject
    <3> HIDE DEF o
    <3> QED BY <2>1, <3>1 DEF SetRequest, TypeOK, ObjectTypes
  <2>4. cache'[r] \in {cache[r], requests'[r]} /\ \A x \in Requests \ {r} : ObjectsStay(x)
    <3>1. SetRequest(r, o)
      BY <1>2 DEF RequestCreated
    <3> HIDE DEF o
    <3> QED BY <3>1 DEF SetRequest, ObjectsStay, TypeOK, ObjectTypes
  <2> HIDE DEF new
  <2>5. /\ UNCHANGED <<policies, pods, starts, clock, pc, copy, plan>>
        /\ vouchedFor'[r] = (\A x \in DOMAIN policies : policies[x] # None)
        /\ \A x \in Requests \ {r} : vouchedFor'[x] = vouchedFor[x]
    BY <1>2 DEF RequestCreated, KeepIncident, workers, cluster, bounds, TypeOK, HistoryTypes
  <2>6. Follows(NoObject, new)
    BY <2>2 DEF Follows, NoObject, NoStatus
  <2>7. CopiesFollow(r)'
    BY <1>1, <2>1, <2>2, <2>3, <2>4, <2>5, <2>6, FollowsItself DEF CopiesFollow
  <2>8. WorkerKnows(r)'
    BY <2>1, <2>5 DEF WorkerKnows
  <2>9. PodRunsOnce(r)'
    BY <1>1, <2>1, <2>2, <2>3, <2>5 DEF PodRunsOnce, Absent, Settled, NoObject, NoStatus
  <2>10. Vouching(r)'
    BY <1>1, <2>1, <2>2, <2>3, <2>5 DEF Vouching, Vouched, Absent
  <2>11. TimeGoesOn /\ \A x \in Requests \ {r} : ObjectsStay(x) /\ WorkersStay(x) /\ RunsStay(x)
    BY <1>1, <2>4, <2>5 DEF TimeGoesOn, WorkersStay, RunsStay
  <2> QED BY <2>7, <2>8, <2>9, <2>10, <2>11, Focus DEF SafeRequest
<1>3. CASE RequestDeleted(r)
  <2> DEFINE o == [requests[r] EXCEPT !.deleted = TRUE]
  <2>1. UNCHANGED <<policies, pods, starts, vouchedFor, clock, pc, copy, plan>>
    BY <1>3 DEF RequestDeleted, Happening, KeepIncident, cluster, workers, history
  <2>2. requests[r].there /\ SetRequest(r, o)
    BY <1>3 DEF RequestDeleted, MarkDeleted
  <2>3. /\ o \in Objects /\ o.version = requests[r].version /\ o.created = requests[r].created
        /\ o.deleted = TRUE /\ o.status = requests[r].status /\ o.there
    BY <1>1, <2>2 DEF Objects
  <2> HIDE DEF o
  <2>4. /\ requests'[r].there = o.there /\ requests'[r].deleted = o.deleted
        /\ requests'[r].status = o.status
        /\ \A c \in Objects : Follows(c, requests[r]) => Follows(c, requests'[r])
    BY <2>2, <2>3, WriteGoesForward
  <2>5. WorkerKnows(r)'
    BY <1>1, <2>1, <2>2, <2>3, <2>4 DEF WorkerKnows, Absent
  <2> QED BY <1>1, <2>1, <2>2, <2>3, <2>4, <2>5, Touched, WriteSafe
     DEF WorkersStay, CopiesFollow, Vouching
<1>4. CASE PodRemoved(r)
  <2>1. /\ UNCHANGED <<requests, cache, policies, starts, vouchedFor, clock, pc, copy, plan>>
        /\ DeletePod(r) /\ Settled(requests[r]) /\ requests[r].created # None
    BY <1>4, Touched DEF PodRemoved, Happening, objects, workers, history, Settled
  <2>2. /\ Absent(pods[r]) => Absent(pods'[r])
        /\ PodRunsOnce(r)' /\ \A x \in Requests \ {r} : pods'[x] = pods[x]
    BY <2>1, PodLeaves
  <2>3. WorkerKnows(r)'
    BY <1>1, <2>1, <2>2 DEF WorkerKnows, Absent
  <2> QED BY <1>1, <2>1, <2>2, <2>3, PodSafe DEF CopiesFollow, Vouching, WorkersStay
<1> QED BY <1>2, <1>3, <1>4 DEF Users

LEMMA OutsideSafe ==
  ASSUME TypeOK, Safe,
         \/ CacheSync \/ IncidentSync \/ Tick \/ UNCHANGED vars
         \/ (\E r \in Requests : Collect(r)) \/ IncidentChanges
  PROVE  Safe'
<1>1. /\ UNCHANGED <<requests, policies, pods, starts, vouchedFor, pc, copy, plan>>
      /\ clock' = clock \/ clock' = clock + 1
      /\ cache' = cache \/ cache' = requests
  <2>0. ASSUME NEW fix \in Fixes, WriterFinishes(fix)
        PROVE  UNCHANGED <<requests, cache, policies, pods, starts, vouchedFor, pc, copy, plan, clock>>
    BY <2>0 DEF WriterFinishes, SetIncidentAlone, KeepRequests, workers, cluster, history, bounds
  <2>1. ASSUME NEW kind, NEW i, IncidentMoves(kind, i)
        PROVE  UNCHANGED <<requests, cache, policies, pods, starts, vouchedFor, pc, copy, plan, clock>>
    BY <2>1 DEF IncidentMoves, SetIncidentAlone, Happening, KeepRequests, workers, cluster, history
  <2>2. CASE IncidentChanges
    BY <2>0, <2>1, <2>2 DEF IncidentChanges, HumanDecides, CheckEnds, WriterReanalyses,
       IncidentGone, StatusMoves
  <2>3. CASE (\E r \in Requests : Collect(r)) \/ CacheSync \/ IncidentSync \/ Tick
    BY <2>3 DEF Collect, CacheSync, IncidentSync, Tick, objects, workers, cluster, history, bounds
  <2>4. CASE UNCHANGED vars
    BY <2>4 DEF vars, objects, workers, cluster, history, bounds
  <2> QED BY <2>2, <2>3, <2>4
<1>2. TimeGoesOn /\ clock' # None
  BY <1>1 DEF TimeGoesOn, Safe, TypeOK, BoundTypes
<1>3. ASSUME NEW x \in Requests
      PROVE  SafeRequest(x)'
  <2>1. ObjectsStay(x) /\ WorkersStay(x) /\ RunsStay(x)
    BY <1>1 DEF ObjectsStay, WorkersStay, RunsStay
  <2> QED BY <1>2, <2>1, StaysSafe
<1> QED BY <1>2, <1>3 DEF Safe, SafeRequest

(* A policy created now vouches for no request there is. *)
LEMMA PolicySafe ==
  ASSUME TypeOK, Safe, NEW x \in DOMAIN policies, PolicyChanges(x)
  PROVE  Safe'
<1>1. /\ UNCHANGED <<requests, cache, pods, starts, vouchedFor, pc, copy, plan, clock>>
      /\ policies' = [policies EXCEPT ![x] = IF @ = None THEN clock ELSE None]
  BY DEF PolicyChanges, Happening, KeepRequests, workers, cluster, history
<1>2. x \in DOMAIN policies' /\ policies'[x] \in {clock, None}
  BY <1>1 DEF TypeOK, ObjectTypes
<1>3. ASSUME NEW r \in Requests
      PROVE  SafeRequest(r)'
  <2>1. SafeRequest(r) /\ requests[r].created \in Nat /\ clock \in Nat
    BY RequestTypes DEF Safe, SafeRequest
  <2>2. ~(requests[r].created # None /\ Vouched(requests[r]))'
    BY <1>1, <1>2, <2>1 DEF SafeRequest, Vouching, Vouched
  <2>3. CopiesFollow(r)'
    BY <1>1, <2>1 DEF SafeRequest, CopiesFollow, Untouched, Follows, Absent
  <2>4. WorkerKnows(r)'
    BY <1>1, <2>1 DEF SafeRequest, WorkerKnows, Absent
  <2>5. PodRunsOnce(r)'
    BY <1>1, <2>1 DEF SafeRequest, PodRunsOnce, Absent, Settled
  <2>6. Vouching(r)'
    BY <1>1, <2>1, <2>2 DEF SafeRequest, Vouching, Absent
  <2> QED BY <2>3, <2>4, <2>5, <2>6 DEF SafeRequest
<1> QED BY <1>1, <1>3 DEF Safe, SafeRequest

LEMMA InitSafe == Init => Safe
<1> SUFFICES ASSUME Init PROVE Safe
  OBVIOUS
<1>1. ASSUME NEW r \in Requests
      PROVE  SafeRequest(r)
  <2>1. /\ requests[r] = NoObject /\ cache[r] = NoObject /\ pc[r] = "idle"
        /\ pods[r] = NoPod /\ starts[r] = 0 /\ clock = 2
    BY <1>1 DEF Init
  <2>2. /\ NoObject.created = None /\ NoPod.phase = "None" /\ NoPod.leaving = FALSE
        /\ NoObject \in Objects
    BY NewValues DEF NoObject, NoPod
  <2>3. CopiesFollow(r)
    BY <2>1, <2>2, FollowsItself DEF CopiesFollow, Untouched, Absent
  <2> QED BY <2>1, <2>2, <2>3 DEF SafeRequest, WorkerKnows, PodRunsOnce, Vouching, Absent
<1> QED BY <1>1 DEF Safe, SafeRequest, Init

LEMMA NextSafe == TypeOK /\ Safe /\ [Next]_vars => Safe'
<1> SUFFICES ASSUME TypeOK, Safe, [Next]_vars
             PROVE  Safe'
  OBVIOUS
<1>1. ASSUME NEW r \in Requests, Reconcile(r)
      PROVE  Safe'
  BY <1>1, ObserveSafe, CreateSafe, UpdateSafe, DeleteSafe DEF Reconcile
<1>2. ASSUME NEW r \in Requests,
             \/ ObserveFails(r) \/ CallFails(r)
             \/ Kubelet(r) \/ Collect(r) \/ Users(r) \/ PodRemoved(r)
      PROVE  Safe'
  BY <1>2, FaultSafe, KubeletSafe, OutsideSafe, UserSafe
<1>3. CASE Restart \/ CacheSync \/ IncidentSync \/ Tick \/ IncidentChanges \/ UNCHANGED vars
  BY <1>3, FaultSafe, OutsideSafe
<1>4. ASSUME NEW x \in DOMAIN policies, PolicyChanges(x)
      PROVE  Safe'
  BY <1>4, PolicySafe
<1> QED BY <1>1, <1>2, <1>3, <1>4 DEF Next

-----------------------------------------------------------------------------
LEMMA AlwaysSafe == Spec => [](TypeOK /\ Safe)
<1>1. Init => TypeOK /\ Safe
  BY InitTyped, InitSafe
<1>2. TypeOK /\ Safe /\ [Next]_vars => TypeOK' /\ Safe'
  BY NextTyped, NextSafe
<1> QED BY <1>1, <1>2, PTL DEF Spec

(* "A run must never start twice" (Observe): whatever is read from an old  *)
(* copy, whichever call fails and whenever the process restarts.           *)
THEOREM RunsOnce == Spec => []RunsAtMostOnce
<1>1. TypeOK /\ Safe => RunsAtMostOnce
  BY DEF Safe, PodRunsOnce, RunsAtMostOnce
<1> QED BY <1>1, AlwaysSafe, PTL

(* No script runs for a requester the admission policy did not vouch for:  *)
(* the policy and its binding were there when the request was created.     *)
THEOREM VouchedRuns == Spec => []UnvouchedNeverRuns
<1>1. TypeOK /\ Safe => UnvouchedNeverRuns
  BY DEF Safe, Vouching, UnvouchedNeverRuns
<1> QED BY <1>1, AlwaysSafe, PTL

(* The finalizer works: no apply pod outlives its request, also when the   *)
(* request is deleted while its run is being started or its pod is leaving. *)
THEOREM PodsGoFirst == Spec => []NoPodOutlivesItsRequest
<1>1. TypeOK /\ Safe => NoPodOutlivesItsRequest
  BY DEF Safe, PodRunsOnce, NoPodOutlivesItsRequest
<1> QED BY <1>1, AlwaysSafe, PTL
=============================================================================
