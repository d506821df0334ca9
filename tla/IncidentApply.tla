--------------------------- MODULE IncidentApply ---------------------------
(***************************************************************************)
(* IncidentApplies, requests to run the apply script of one Incident, and  *)
(* the controller that admits them, runs them in a pod each and records    *)
(* them on the Incident (apply.go).                                        *)
(*                                                                         *)
(* Each request has a worker.  Observe reads the request from the          *)
(* informer and plans; Create, Update and Delete carry the plan out call   *)
(* by call.  Anyone may act between two calls, any call may fail, and the  *)
(* process may restart.                                                    *)
(***************************************************************************)
EXTENDS CheckPods

CONSTANTS
  Requests,      \* the requests' names, ordered as names are
  WithApply,     \* the fixes whose apply script is not empty
  ApplyTimeout,  \* ApplyConfig.Timeout
  TTL,           \* ApplyConfig.TTL
  ExitCodes,     \* the exit codes an apply container ends with
  LoginEnds,     \* when a requester's login may expire, None without a login
  Answers,       \* the answers to a SubjectAccessReview
  Lags,          \* bound: what takes time, of "requests" and "incident" (the informer sees
                 \* a write later) and "pod" (a deleted pod stays until the kubelet is done)
  Happens,       \* bound: what else happens, of "decision", "check", "analysis" (the incident
                 \* moves), "delete" (of a request), "remove" (of an apply pod), "policy",
                 \* "failure" (of a pod, which is not counted)
  MaxTime,       \* bound: the clock stops here
  MaxFaults,     \* bound: failed calls and restarts
  MaxMoves       \* bound: how often something else happens

ASSUME ApplyAssumption ==
  /\ Requests \subseteq Nat
  /\ WithApply \subseteq Fixes
  /\ ApplyTimeout \in Nat \ {0}
  /\ TTL \in Nat
  /\ ExitCodes \subseteq {0, 1, 2, OutOfRange}
  /\ LoginEnds \subseteq Nat
  /\ Answers \subseteq BOOLEAN
  /\ MaxTime \in Nat /\ MaxFaults \in Nat /\ MaxMoves \in Nat

VARIABLES
  requests,       \* the IncidentApply objects in the API
  cache,          \* the informer's list of them
  incident,       \* the Incident object in the API
  incidentCache,  \* the informer's copy
  policies,       \* when the admission policy and its binding were created, None without
  pc, copy, plan, \* each worker: where it is, the request it read, what it plans
  pods, secrets, configs,    \* each request's apply pod, and its Secret and ConfigMap
  starts, ran,    \* history: how often its container started, and with whose script
  announced,      \* history: its ApplyFinished Events, counted up to 2
  vouchedFor,     \* history: the policy and its binding were there when it was created
  admittedFor,    \* history: the analysis whose script was admitted
  recorded,       \* history: how often it was recorded on the incident, counted up to 2
  clock, faults, moves

objects == <<requests, cache, incident, incidentCache, policies>>
workers == <<pc, copy, plan>>
cluster == <<pods, secrets, configs>>
history == <<starts, ran, announced, vouchedFor, admittedFor, recorded>>
bounds == <<clock, faults, moves>>
vars == <<objects, workers, cluster, history, bounds>>

-----------------------------------------------------------------------------
NoPhase == ""   \* of a request nothing was decided about

Phases == {NoPhase, "Running", "Succeeded", "Failed", "Rejected"}

Terminal(st) == st.phase \in {"Succeeded", "Failed", "Rejected"}

ApplyStatuses == [ phase      : Phases,
                   exit       : Exits,
                   script     : Fixes \union {NoFix},
                   finishedAt : Time ]

(* incomplete: the external-create-pending annotation is the latest.       *)
Objects == [ there      : BOOLEAN,
             version    : Nat,            \* resourceVersion
             deleted    : BOOLEAN,        \* deletionTimestamp is set
             created    : Time,
             login      : Time,           \* the requester's certificate's notAfter
             incomplete : BOOLEAN,
             status     : ApplyStatuses ]

NoStatus == [phase |-> NoPhase, exit |-> NoExit, script |-> NoFix, finishedAt |-> None]

NoObject == [ there |-> FALSE, version |-> 0, deleted |-> FALSE, created |-> None,
              login |-> None, incomplete |-> FALSE, status |-> NoStatus ]

(* analysis numbers the analyses of the incident; the code has no such     *)
(* field, the properties need it.                                          *)
Incidents == [there : BOOLEAN, version : Nat, analysis : Nat, status : Statuses]

ApplyPods == [ created : Time, phase : PodPhases \union {"None"}, start : Time, finished : Time,
               code : Codes, deadline : BOOLEAN, body : Fixes \union {NoFix}, leaving : BOOLEAN ]

NoPod == [ created |-> None, phase |-> "None", start |-> None, finished |-> None,
           code |-> NoExit, deadline |-> FALSE, body |-> NoFix, leaving |-> FALSE ]

ApplyPod(now) == [NoPod EXCEPT !.phase = "Pending", !.created = now]

Absent(p) == p.phase = "None"

(* A Secret or ConfigMap is there with its pod, or outlives it. *)
Ownership == {"none", "owned", "orphan"}

ConfigMaps == [owner : Ownership, body : Fixes \union {NoFix}]
NoConfigMap == [owner |-> "none", body |-> NoFix]

Runs == [exit : Exits, at : Time]
NoRun == [exit |-> NoExit, at |-> None]

Plans == [ status   : ApplyStatuses,         \* the status computed in memory
           script   : Fixes \union {NoFix},  \* the admitted script, for Create
           run      : Runs,
           dirty    : BOOLEAN,
           announce : BOOLEAN,
           pod      : BOOLEAN,
           expired  : BOOLEAN ]

NoPlan == [ status |-> NoStatus, script |-> NoFix, run |-> NoRun, dirty |-> FALSE,
            announce |-> FALSE, pod |-> FALSE, expired |-> FALSE ]

(* The incident is Open with a fix; nobody has asked yet. *)
Init ==
  /\ requests = [r \in Requests |-> NoObject] /\ cache = requests
  /\ \E fix \in Fixes :
       incident = [ there |-> TRUE, version |-> 0, analysis |-> 0,
                    status |-> [NewStatus EXCEPT !.state = "Open", !.howToFix = fix] ]
  /\ incidentCache = incident
  /\ policies \in [{"policy", "binding"} -> {None, 1}]
  /\ pc = [r \in Requests |-> "idle"]
  /\ copy = [r \in Requests |-> NoObject] /\ plan = [r \in Requests |-> NoPlan]
  /\ pods = [r \in Requests |-> NoPod]
  /\ secrets = [r \in Requests |-> "none"] /\ configs = [r \in Requests |-> NoConfigMap]
  /\ starts = [r \in Requests |-> 0] /\ ran = [r \in Requests |-> NoFix]
  /\ announced = [r \in Requests |-> 0] /\ vouchedFor = [r \in Requests |-> FALSE]
  /\ admittedFor = [r \in Requests |-> 0] /\ recorded = [r \in Requests |-> 0]
  /\ clock = 2 /\ faults = MaxFaults /\ moves = MaxMoves

-----------------------------------------------------------------------------
(* Writes of API objects: a new version, which the informer sees at once   *)
(* unless it lags.                                                         *)
SetRequest(r, o) ==
  /\ requests' = IF o = requests[r] THEN requests
                 ELSE [requests EXCEPT ![r] = [o EXCEPT !.version = @ + 1]]
  /\ cache' = IF "requests" \in Lags THEN cache ELSE requests'

SetIncident(i) ==
  /\ incident' = IF i = incident THEN incident ELSE [i EXCEPT !.version = @ + 1]
  /\ incidentCache' = IF "incident" \in Lags THEN incidentCache ELSE incident'

KeepRequests == UNCHANGED <<requests, cache>>
KeepIncident == UNCHANGED <<incident, incidentCache, policies>>

(* The runtime: after an Observe or Update that fails it writes the status *)
(* it has in memory over the version that was read, but over no later one. *)
RuntimeWrites(r, o, st) ==
  IF requests[r].there /\ o.version = requests[r].version
  THEN SetRequest(r, [requests[r] EXCEPT !.status = st])
  ELSE KeepRequests

(* A reconcile ends: its plan is dropped. *)
EndReconcile(r) ==
  /\ pc' = [pc EXCEPT ![r] = "idle"]
  /\ copy' = [copy EXCEPT ![r] = NoObject]
  /\ plan' = [plan EXCEPT ![r] = NoPlan]

GoOn(r, to, o, p) ==
  /\ pc' = [pc EXCEPT ![r] = to]
  /\ copy' = [copy EXCEPT ![r] = o]
  /\ plan' = [plan EXCEPT ![r] = p]

(* Mutant: a request that is only past its TTL is up to date. *)
ContinueNotExpired(r, o, p) ==
  IF p.run # NoRun \/ p.dirty \/ p.announce \/ p.pod
  THEN GoOn(r, "update", o, p)
  ELSE EndReconcile(r)

(* Update goes on with what is left of plan p. *)
Continue(r, o, p) ==
  IF p.run # NoRun \/ p.dirty \/ p.announce \/ p.pod \/ p.expired
  THEN GoOn(r, "update", o, p)
  ELSE EndReconcile(r)

-----------------------------------------------------------------------------
(* Observe.  A pod is read past the cache, everything else from it. *)
Observing(r) == pc[r] = "idle" /\ cache[r].there

(* Mutant: the policy and its binding are there by now. *)
VouchedByNow(o) == \A x \in DOMAIN policies : policies[x] # None

(* vouched: the policy and its binding were there before the request. *)
Vouched(o) == \A x \in DOMAIN policies : policies[x] # None /\ policies[x] < o.created

Older(a, b) ==
  \/ cache[a].created < cache[b].created
  \/ cache[a].created = cache[b].created /\ a < b

(* Mutant: only a running request goes first. *)
BusyRunning(r) ==
  \E o \in Requests \ {r} :
    cache[o].there /\ ~cache[o].deleted /\ cache[o].status.phase = "Running"

(* busy: another unfinished request goes first, a running one or an older  *)
(* pending one.                                                            *)
Busy(r) ==
  \E o \in Requests \ {r} :
    /\ cache[o].there /\ ~cache[o].deleted /\ ~Terminal(cache[o].status)
    /\ cache[o].status.phase = "Running" \/ Older(o, r)

(* kubeconfigOf: the requester's login lasts until the run's deadline. *)
LoginLasts(o) == o.login >= clock + ApplyTimeout + PendingGrace

(* admit, but for the SubjectAccessReview of mayPatch. *)
Admissible(r) ==
  /\ Vouched(cache[r])
  /\ incidentCache.there
  /\ incidentCache.status.state = "Open"
  /\ incidentCache.status.howToFix \in WithApply
  /\ ~Busy(r)
  /\ LoginLasts(cache[r])

(* end: the request reaches a terminal phase. *)
Ending(st, phase, exit, at) ==
  [st EXCEPT !.phase = phase, !.exit = exit, !.finishedAt = at]

(* Mutant: every reconcile of a terminal request announces it. *)
ConcludeAnnouncing(r, st, run) ==
  LET old == cache[r].status IN
  Continue(r, cache[r],
    [NoPlan EXCEPT
       !.status = st,
       !.run = run,
       !.dirty = st # old,
       !.announce = Terminal(st),
       !.pod = Terminal(st) /\ ~Absent(pods[r]) /\ ~pods[r].leaving,
       !.expired = Terminal(st) /\ clock >= st.finishedAt + TTL])

(* Mutant: only the reconcile that ends a request deletes its pod. *)
ConcludeDeletingOnce(r, st, run) ==
  LET old == cache[r].status IN
  Continue(r, cache[r],
    [NoPlan EXCEPT
       !.status = st,
       !.run = run,
       !.dirty = st # old,
       !.announce = Terminal(st) /\ ~Terminal(old),
       !.pod = Terminal(st) /\ ~Terminal(old) /\ ~Absent(pods[r]) /\ ~pods[r].leaving,
       !.expired = Terminal(st) /\ clock >= st.finishedAt + TTL])

(* The last part of Observe, with the status computed and the run that     *)
(* ended: what is there for Update to do.                                  *)
Conclude(r, st, run) ==
  LET old == cache[r].status IN
  Continue(r, cache[r],
    [NoPlan EXCEPT
       !.status = st,
       !.run = run,
       !.dirty = st # old,
       !.announce = Terminal(st) /\ ~Terminal(old),
       !.pod = Terminal(st) /\ ~Absent(pods[r]) /\ ~pods[r].leaving,
       !.expired = Terminal(st) /\ clock >= st.finishedAt + TTL])

(* Mutant: an interrupted request is left alone. *)
ObserveNewComplete(r, allowed) ==
  LET o == cache[r]
      admitted == Admissible(r) /\ allowed
  IN
  /\ Observing(r) /\ ~o.deleted /\ ~o.incomplete
  /\ o.status.phase = NoPhase /\ Absent(pods[r])
  /\ IF admitted
     THEN GoOn(r, "pending", o, [NoPlan EXCEPT !.script = incidentCache.status.howToFix])
     ELSE Conclude(r, Ending(o.status, "Rejected", NoExit, clock), NoRun)
  /\ admittedFor' = IF admitted THEN [admittedFor EXCEPT ![r] = incidentCache.analysis]
                    ELSE admittedFor
  /\ UNCHANGED <<objects, cluster, starts, ran, announced, vouchedFor, recorded, bounds>>

ObserveNew(r, allowed) ==
  LET o == cache[r]
      admitted == Admissible(r) /\ allowed /\ ~o.incomplete
  IN
  /\ Observing(r) /\ ~o.deleted
  /\ o.status.phase = NoPhase /\ Absent(pods[r])
  /\ IF admitted
     THEN GoOn(r, "pending", o, [NoPlan EXCEPT !.script = incidentCache.status.howToFix])
     ELSE Conclude(r, Ending(o.status, "Rejected", NoExit, clock), NoRun)
  /\ admittedFor' = IF admitted THEN [admittedFor EXCEPT ![r] = incidentCache.analysis]
                    ELSE admittedFor
  /\ UNCHANGED <<objects, cluster, starts, ran, announced, vouchedFor, recorded, bounds>>

(* Mutant: the request reports the script its incident has now. *)
StartedNow(r) ==
  [cache[r].status EXCEPT !.phase = "Running", !.script = incidentCache.status.howToFix]

(* started: the run's pod exists; its ConfigMap says what it runs. *)
Started(r) == [cache[r].status EXCEPT !.phase = "Running", !.script = configs[r].body]

(* Mutant: a run without an exit code succeeded. *)
FinishedRunNoCode(r, st) ==
  Ending(st, IF ExitOf(pods[r]) \in {0, NoExit} THEN "Succeeded" ELSE "Failed",
         ExitOf(pods[r]), EndedAt(pods[r], ApplyTimeout))

(* finishRun *)
FinishedRun(r, st) ==
  Ending(st, IF ExitOf(pods[r]) = 0 THEN "Succeeded" ELSE "Failed",
         ExitOf(pods[r]), EndedAt(pods[r], ApplyTimeout))

(* Mutant: a pod that is overdue may still end. *)
ObserveRunPatient(r) ==
  LET old == cache[r].status
      st == IF old.phase = NoPhase THEN Started(r) ELSE old
      p == pods[r]
  IN
  /\ Observing(r) /\ ~cache[r].deleted
  /\ ~(old.phase = NoPhase /\ Absent(p))
  /\ CASE st.phase = "Running" /\ Absent(p) -> Conclude(r, Ending(st, "Failed", NoExit, clock), NoRun)
       [] st.phase = "Running" /\ p.phase = "Ended" ->
            Conclude(r, FinishedRun(r, st), [exit |-> ExitOf(p), at |-> EndedAt(p, ApplyTimeout)])
       [] OTHER -> Conclude(r, st, NoRun)
  /\ UNCHANGED <<objects, cluster, history, bounds>>

ObserveRun(r) ==
  LET old == cache[r].status
      st == IF old.phase = NoPhase THEN Started(r) ELSE old
      p == pods[r]
  IN
  /\ Observing(r) /\ ~cache[r].deleted
  /\ ~(old.phase = NoPhase /\ Absent(p))
  /\ CASE st.phase = "Running" /\ Absent(p) -> Conclude(r, Ending(st, "Failed", NoExit, clock), NoRun)
       [] st.phase = "Running" /\ ~Absent(p) /\ Finished(p, ApplyTimeout, clock) ->
            Conclude(r, FinishedRun(r, st), [exit |-> ExitOf(p), at |-> EndedAt(p, ApplyTimeout)])
       [] OTHER -> Conclude(r, st, NoRun)
  /\ UNCHANGED <<objects, cluster, history, bounds>>

(* started fails: the request is Running in memory, with no script yet.    *)
(* No other Observe that fails has changed anything.                       *)
ObserveFails(r) ==
  /\ faults > 0
  /\ faults' = faults - 1
  /\ Observing(r) /\ ~cache[r].deleted
  /\ cache[r].status.phase = NoPhase /\ ~Absent(pods[r])
  /\ RuntimeWrites(r, cache[r], [cache[r].status EXCEPT !.phase = "Running"])
  /\ KeepIncident /\ UNCHANGED <<workers, cluster, history, clock, moves>>

(* Mutant: a pod that is leaving counts as gone. *)
ObserveDeletedLeaving(r) ==
  /\ Observing(r) /\ cache[r].deleted
  /\ GoOn(r, IF Absent(pods[r]) \/ pods[r].leaving THEN "finalize" ELSE "delete", cache[r], NoPlan)
  /\ UNCHANGED <<objects, cluster, history, bounds>>

ObserveDeleted(r) ==
  /\ Observing(r) /\ cache[r].deleted
  /\ GoOn(r, IF Absent(pods[r]) THEN "finalize" ELSE "delete", cache[r], NoPlan)
  /\ UNCHANGED <<objects, cluster, history, bounds>>

-----------------------------------------------------------------------------
(* Mutant: an old copy is no conflict. *)
WritePendingBlindly(r) ==
  /\ pc[r] = "pending"
  /\ IF requests[r].there
     THEN /\ SetRequest(r, [requests[r] EXCEPT !.incomplete = TRUE])
          /\ GoOn(r, "pod", requests'[r], plan[r])
     ELSE KeepRequests /\ EndReconcile(r)
  /\ KeepIncident /\ UNCHANGED <<cluster, history, bounds>>

(* Create, between the runtime's two annotations: the first conflicts when *)
(* the copy is old, the second is retried until it is written, unless the  *)
(* call fails for good.                                                    *)
WritePending(r) ==
  LET o == [copy[r] EXCEPT !.incomplete = TRUE] IN
  /\ pc[r] = "pending"
  /\ IF requests[r].there /\ copy[r].version = requests[r].version
     THEN SetRequest(r, o) /\ GoOn(r, "pod", requests'[r], plan[r])
     ELSE KeepRequests /\ EndReconcile(r)
  /\ KeepIncident /\ UNCHANGED <<cluster, history, bounds>>

CreatePod(r) ==
  /\ pc[r] = "pod"
  /\ pods' = IF Absent(pods[r]) THEN [pods EXCEPT ![r] = ApplyPod(clock)] ELSE pods
  /\ GoOn(r, "secret", copy[r], plan[r])
  /\ UNCHANGED <<objects, secrets, configs, history, bounds>>

(* The owner of what is created is the pod, if it is still there. *)
OwnerOf(r) == IF Absent(pods[r]) THEN "orphan" ELSE "owned"

CreateSecret(r) ==
  /\ pc[r] = "secret"
  /\ secrets' = IF secrets[r] = "none" THEN [secrets EXCEPT ![r] = OwnerOf(r)] ELSE secrets
  /\ GoOn(r, "configmap", copy[r], plan[r])
  /\ UNCHANGED <<objects, pods, configs, history, bounds>>

CreateConfigMap(r) ==
  /\ pc[r] = "configmap"
  /\ configs' = IF configs[r].owner = "none"
                THEN [configs EXCEPT ![r] = [owner |-> OwnerOf(r), body |-> plan[r].script]]
                ELSE configs
  /\ GoOn(r, "annotate", copy[r], plan[r])
  /\ UNCHANGED <<objects, pods, secrets, history, bounds>>

Annotate(r) ==
  /\ pc[r] = "annotate"
  /\ IF requests[r].there
     THEN SetRequest(r, [requests[r] EXCEPT !.incomplete = FALSE])
     ELSE KeepRequests
  /\ EndReconcile(r)
  /\ KeepIncident /\ UNCHANGED <<cluster, history, bounds>>

-----------------------------------------------------------------------------
(* Update: the run goes on the incident, the status is patched and         *)
(* announced, then pod and request go.  When the incident's write is       *)
(* refused Update fails, with the request's end in memory.                 *)
RecordOnIncident(r) ==
  LET st == RecordApply(incidentCache.status, plan[r].run.exit, plan[r].run.at)
      done == [plan[r] EXCEPT !.run = NoRun]
  IN
  /\ pc[r] = "update" /\ plan[r].run # NoRun
  /\ CASE ~incidentCache.there \/ st = incidentCache.status ->
            /\ UNCHANGED <<incident, incidentCache, recorded>> /\ KeepRequests
            /\ Continue(r, copy[r], done)
       [] incidentCache.there /\ st # incidentCache.status /\ incidentCache = incident ->
            /\ SetIncident([incident EXCEPT !.status = st])
            /\ recorded' = [recorded EXCEPT ![r] = IF @ < 2 THEN @ + 1 ELSE @]
            /\ KeepRequests
            /\ Continue(r, copy[r], done)
       [] OTHER ->
            /\ UNCHANGED <<incident, incidentCache, recorded>>
            /\ RuntimeWrites(r, copy[r], plan[r].status)
            /\ EndReconcile(r)
  /\ UNCHANGED <<policies, cluster, starts, ran, announced, vouchedFor, admittedFor, bounds>>

(* A merge patch from the copy: what the plan leaves as the copy had it is *)
(* not written, and an old copy is no conflict.                            *)
Patched(st, from, to) ==
  [f \in DOMAIN st |-> IF to[f] # from[f] THEN to[f] ELSE st[f]]

(* Mutant: the status is persisted before the incident has the run. *)
PatchStatusFirst(r) ==
  LET st == Patched(requests[r].status, copy[r].status, plan[r].status) IN
  /\ pc[r] = "update" /\ plan[r].dirty
  /\ IF requests[r].there
     THEN /\ SetRequest(r, [requests[r] EXCEPT !.status = st])
          /\ Continue(r, requests'[r], [plan[r] EXCEPT !.dirty = FALSE])
     ELSE KeepRequests /\ EndReconcile(r)
  /\ KeepIncident /\ UNCHANGED <<cluster, history, bounds>>

PatchStatus(r) ==
  LET st == Patched(requests[r].status, copy[r].status, plan[r].status) IN
  /\ pc[r] = "update" /\ plan[r].run = NoRun /\ plan[r].dirty
  /\ IF requests[r].there
     THEN /\ SetRequest(r, [requests[r] EXCEPT !.status = st])
          /\ Continue(r, requests'[r], [plan[r] EXCEPT !.dirty = FALSE])
     ELSE KeepRequests /\ EndReconcile(r)
  /\ KeepIncident /\ UNCHANGED <<cluster, history, bounds>>

Persisted(r) == pc[r] = "update" /\ plan[r].run = NoRun /\ ~plan[r].dirty

Announce(r) ==
  /\ Persisted(r) /\ plan[r].announce
  /\ announced' = [announced EXCEPT ![r] = IF @ < 2 THEN @ + 1 ELSE @]
  /\ Continue(r, copy[r], [plan[r] EXCEPT !.announce = FALSE])
  /\ UNCHANGED <<objects, cluster, starts, ran, vouchedFor, admittedFor, recorded, bounds>>

(* A pod is deleted in the background, and what it owns after it. *)
Orphaned(owner) == IF owner = "owned" THEN "orphan" ELSE owner

PodGoes(r) ==
  /\ pods' = [pods EXCEPT ![r] = NoPod]
  /\ secrets' = [secrets EXCEPT ![r] = Orphaned(@)]
  /\ configs' = [configs EXCEPT ![r].owner = Orphaned(@)]

DeletePod(r) ==
  CASE Absent(pods[r]) -> UNCHANGED cluster
    [] ~Absent(pods[r]) /\ "pod" \in Lags ->
         pods' = [pods EXCEPT ![r].leaving = TRUE] /\ UNCHANGED <<secrets, configs>>
    [] OTHER -> PodGoes(r)

(* Mutant: the pod goes before the status is persisted. *)
DeleteApplyPodFirst(r) ==
  /\ pc[r] = "update" /\ plan[r].pod
  /\ DeletePod(r)
  /\ Continue(r, copy[r], [plan[r] EXCEPT !.pod = FALSE])
  /\ UNCHANGED <<objects, history, bounds>>

DeleteApplyPod(r) ==
  /\ Persisted(r) /\ ~plan[r].announce /\ plan[r].pod
  /\ DeletePod(r)
  /\ Continue(r, copy[r], [plan[r] EXCEPT !.pod = FALSE])
  /\ UNCHANGED <<objects, history, bounds>>

MarkDeleted(r) ==
  IF requests[r].there
  THEN SetRequest(r, [requests[r] EXCEPT !.deleted = TRUE])
  ELSE KeepRequests

DeleteExpired(r) ==
  /\ Persisted(r) /\ ~plan[r].announce /\ ~plan[r].pod /\ plan[r].expired
  /\ MarkDeleted(r)
  /\ EndReconcile(r)
  /\ KeepIncident /\ UNCHANGED <<cluster, history, bounds>>

(* Delete, and the runtime's finalizer, which an old copy does not remove. *)
DeleteRun(r) ==
  /\ pc[r] = "delete"
  /\ DeletePod(r)
  /\ EndReconcile(r)
  /\ UNCHANGED <<objects, history, bounds>>

RemoveFinalizer(r) ==
  /\ pc[r] = "finalize"
  /\ IF requests[r].there /\ copy[r].version = requests[r].version
     THEN SetRequest(r, [copy[r] EXCEPT !.there = FALSE])
     ELSE KeepRequests
  /\ EndReconcile(r)
  /\ KeepIncident /\ UNCHANGED <<cluster, history, bounds>>

-----------------------------------------------------------------------------
(* Faults.  When a call of Create fails the runtime writes that it did;    *)
(* when one of Update does it writes the status, unless that fails too.    *)
CallFails(r) ==
  /\ pc[r] # "idle" /\ faults > 0
  /\ ~(Persisted(r) /\ plan[r].announce)   \* sending an Event does not fail
  /\ faults' = faults - 1
  /\ IF pc[r] \in {"pod", "secret", "configmap"}
     THEN GoOn(r, "annotate", copy[r], plan[r])
     ELSE EndReconcile(r)
  /\ \/ KeepRequests
     \/ pc[r] = "update" /\ plan[r].dirty /\ RuntimeWrites(r, copy[r], plan[r].status)
  /\ KeepIncident /\ UNCHANGED <<cluster, history, clock, moves>>

Restart ==
  /\ faults > 0 /\ \E r \in Requests : pc[r] # "idle"
  /\ faults' = faults - 1
  /\ pc' = [r \in Requests |-> "idle"]
  /\ copy' = [r \in Requests |-> NoObject] /\ plan' = [r \in Requests |-> NoPlan]
  /\ UNCHANGED <<objects, cluster, history, clock, moves>>

CacheSync ==
  /\ cache' = requests
  /\ UNCHANGED <<requests, incident, incidentCache, policies, workers, cluster, history, bounds>>

IncidentSync ==
  /\ incidentCache' = incident
  /\ UNCHANGED <<requests, cache, incident, policies, workers, cluster, history, bounds>>

-----------------------------------------------------------------------------
(* The cluster: the pod's container starts once Secret and ConfigMap can   *)
(* be mounted, and ends as any check pod's does.                           *)
SetPod(r, p) ==
  /\ pods' = [pods EXCEPT ![r] = p]
  /\ UNCHANGED <<objects, workers, secrets, configs, announced, vouchedFor, admittedFor, recorded, bounds>>

PodStarts(r) ==
  /\ MayStart(pods[r]) /\ secrets[r] # "none" /\ configs[r].owner # "none"
  /\ SetPod(r, StartedPod(pods[r], configs[r].body, clock))
  /\ starts' = [starts EXCEPT ![r] = @ + 1]
  /\ ran' = [ran EXCEPT ![r] = configs[r].body]

ContainerExits(r, code) ==
  /\ MayExit(pods[r])
  /\ SetPod(r, ExitedPod(pods[r], code, clock))
  /\ UNCHANGED <<starts, ran>>

DeadlineStops(r) ==
  /\ MayStop(pods[r], ApplyTimeout, clock)
  /\ SetPod(r, StoppedPod(pods[r], clock))
  /\ UNCHANGED <<starts, ran>>

PodFails(r, start) ==
  /\ "failure" \in Happens /\ MayFail(pods[r], start)
  /\ SetPod(r, FailedPod(pods[r], start))
  /\ UNCHANGED <<starts, ran>>

PodGone(r) ==
  /\ pods[r].leaving
  /\ PodGoes(r)
  /\ UNCHANGED <<objects, workers, history, bounds>>

Collect(r) ==
  /\ secrets[r] = "orphan" \/ configs[r].owner = "orphan"
  /\ secrets' = [secrets EXCEPT ![r] = IF @ = "orphan" THEN "none" ELSE @]
  /\ configs' = [configs EXCEPT ![r] = IF @.owner = "orphan" THEN NoConfigMap ELSE @]
  /\ UNCHANGED <<objects, workers, pods, history, bounds>>

Tick ==
  /\ clock < MaxTime
  /\ clock' = clock + 1
  /\ UNCHANGED <<objects, workers, cluster, history, faults, moves>>

-----------------------------------------------------------------------------
(* Users create and delete requests, and the policy comes and goes.        *)
RequestCreated(r, login) ==
  /\ requests[r].created = None
  /\ SetRequest(r, [NoObject EXCEPT !.there = TRUE, !.created = clock, !.login = login])
  /\ vouchedFor' = [vouchedFor EXCEPT ![r] = \A x \in DOMAIN policies : policies[x] # None]
  /\ KeepIncident /\ UNCHANGED <<workers, cluster, starts, ran, announced, admittedFor, recorded, bounds>>

Happening(kind) ==
  /\ kind \in Happens /\ moves > 0
  /\ moves' = moves - 1
  /\ UNCHANGED <<workers, history, clock, faults>>

RequestDeleted(r) ==
  /\ Happening("delete")
  /\ requests[r].there /\ ~requests[r].deleted
  /\ MarkDeleted(r)
  /\ KeepIncident /\ UNCHANGED cluster

(* An apply pod is removed, with a drained node or by the pod garbage      *)
(* collector.  Assumed: not before the request says that it runs.  The     *)
(* code could not tell such a run from one that never started.             *)
PodRemoved(r) ==
  /\ Happening("remove")
  /\ ~Absent(pods[r]) /\ ~pods[r].leaving /\ requests[r].status.phase # NoPhase
  /\ DeletePod(r)
  /\ UNCHANGED objects

PolicyChanges(x) ==
  /\ Happening("policy")
  /\ policies' = [policies EXCEPT ![x] = IF @ = None THEN clock ELSE None]
  /\ KeepRequests /\ UNCHANGED <<incident, incidentCache, cluster>>

(* The incident's own controller and its writer move it (IncidentMachine). *)
SetIncidentAlone(i) ==
  /\ incident.there
  /\ SetIncident(i)
  /\ KeepRequests /\ UNCHANGED <<policies, cluster>>

IncidentMoves(kind, i) == Happening(kind) /\ SetIncidentAlone(i)

StatusMoves(kind, st) == IncidentMoves(kind, [incident EXCEPT !.status = st])

Decisions == {sp \in Specs : (sp.applied # sp.closed) /\ ~sp.reanalysis /\ ~sp.deleted}

HumanDecides(sp) == StatusMoves("decision", ApplySpec(sp, incident.status, clock))

CheckEnds(exit) ==
  LET script == CurrentScript(incident.status) IN
  /\ script # ""
  /\ StatusMoves("check",
       Record(incident.status, [script |-> script, exit |-> exit, at |-> clock]))

WriterReanalyses ==
  /\ incident.status.state \in {"Open", "Verifying"}
  /\ IncidentMoves("analysis",
       [incident EXCEPT !.analysis = @ + 1, !.status = [NewStatus EXCEPT !.state = "Analyzing"]])

(* Every analysis may end: it is not counted. *)
WriterFinishes(fix) ==
  /\ incident.status.state = "Analyzing"
  /\ SetIncidentAlone([incident EXCEPT !.status.state = "Open", !.status.howToFix = fix])
  /\ UNCHANGED <<workers, history, bounds>>

IncidentGone == IncidentMoves("delete", [incident EXCEPT !.there = FALSE])

-----------------------------------------------------------------------------
Reconcile(r) ==
  \/ \E allowed \in Answers : ObserveNew(r, allowed)
  \/ ObserveRun(r) \/ ObserveDeleted(r)
  \/ WritePending(r) \/ CreatePod(r) \/ CreateSecret(r) \/ CreateConfigMap(r) \/ Annotate(r)
  \/ RecordOnIncident(r) \/ PatchStatus(r) \/ Announce(r) \/ DeleteApplyPod(r) \/ DeleteExpired(r)
  \/ DeleteRun(r) \/ RemoveFinalizer(r)

Kubelet(r) ==
  \/ PodStarts(r)
  \/ \E code \in ExitCodes : ContainerExits(r, code)
  \/ DeadlineStops(r)
  \/ \E start \in {None} \union pods[r].created..clock : PodFails(r, start)
  \/ PodGone(r)

Users(r) ==
  \/ \E login \in LoginEnds : RequestCreated(r, login)
  \/ RequestDeleted(r)

IncidentChanges ==
  \/ \E sp \in Decisions : HumanDecides(sp)
  \/ \E exit \in {0, 1} : CheckEnds(exit)
  \/ WriterReanalyses
  \/ \E fix \in Fixes : WriterFinishes(fix)
  \/ IncidentGone

Next ==
  \/ \E r \in Requests :
       \/ Reconcile(r) \/ ObserveFails(r) \/ CallFails(r)
       \/ Kubelet(r) \/ Collect(r) \/ Users(r) \/ PodRemoved(r)
  \/ Restart \/ CacheSync \/ IncidentSync \/ Tick
  \/ \E x \in DOMAIN policies : PolicyChanges(x)
  \/ IncidentChanges

Spec == Init /\ [][Next]_vars
=============================================================================
