---------------------- MODULE IncidentApplyProperties ----------------------
(***************************************************************************)
(* What must be true of IncidentApplies and their controller.              *)
(***************************************************************************)
EXTENDS IncidentApply

ObjectTypes ==
  /\ requests \in [Requests -> Objects] /\ cache \in [Requests -> Objects]
  /\ incident \in Incidents /\ incidentCache \in Incidents
  /\ policies \in [{"policy", "binding"} -> Time]

Places == { "idle", "pending", "pod", "secret", "configmap", "annotate", "update",
            "delete", "finalize" }

WorkerTypes ==
  /\ pc \in [Requests -> Places]
  /\ copy \in [Requests -> Objects] /\ plan \in [Requests -> Plans]

ClusterTypes ==
  /\ pods \in [Requests -> ApplyPods]
  /\ secrets \in [Requests -> Ownership]
  /\ configs \in [Requests -> ConfigMaps]

HistoryTypes ==
  /\ starts \in [Requests -> Nat] /\ ran \in [Requests -> Fixes \union {NoFix}]
  /\ announced \in [Requests -> 0..2] /\ vouchedFor \in [Requests -> BOOLEAN]
  /\ admittedFor \in [Requests -> Nat] /\ recorded \in [Requests -> 0..2]

BoundTypes == clock \in Time /\ faults \in 0..MaxFaults /\ moves \in Nat

(* Every variable has its type: a merge patch from an old copy, and a      *)
(* result read from any pod, leave a status the CRD allows.                *)
TypeOK == ObjectTypes /\ WorkerTypes /\ ClusterTypes /\ HistoryTypes /\ BoundTypes

(* "A run must never start twice" (Observe): whatever is read from an old  *)
(* copy, fails or restarts, a request's script starts at most once.        *)
RunsAtMostOnce == \A r \in Requests : starts[r] <= 1

(* A request whose run is under way: its pod exists and nothing was        *)
(* reported of its end.                                                    *)
UnderWay(r) ==
  /\ requests[r].there /\ ~requests[r].deleted
  /\ ~Absent(pods[r]) /\ ~Terminal(requests[r].status)

(* admit runs one request of an incident at a time, unless two were        *)
(* created in the same second.                                             *)
OneRunPerIncident ==
  \A a, b \in Requests :
    UnderWay(a) /\ UnderWay(b) => requests[a].created = requests[b].created

(* "The controller runs no IncidentApply created before both existed"      *)
(* (RequesterPolicy): no script runs for a requester its creator wrote.    *)
UnvouchedNeverRuns == \A r \in Requests : starts[r] > 0 => vouchedFor[r]

NothingFailed == faults = MaxFaults

(* The script a request that succeeded reports is the one that ran, also   *)
(* when the incident got another one meanwhile; or it reports none, when   *)
(* some call failed.                                                       *)
ReportsWhatRan ==
  \A r \in Requests :
    LET st == requests[r].status IN
    st.phase = "Succeeded" => st.script = ran[r] \/ (st.script = NoFix /\ ~NothingFailed)

(* A request gets one ApplyFinished Event at most. *)
AnnouncedOnce == \A r \in Requests : announced[r] <= 1

(* The finalizer works: no apply pod outlives its request. *)
NoPodOutlivesItsRequest ==
  \A r \in Requests : ~requests[r].there => Absent(pods[r])

-----------------------------------------------------------------------------
(* What makes the three inductive, whatever the informer lags behind.      *)

(* Copy c of object o is an earlier version of it, or it. *)
Follows(c, o) ==
  /\ c.version <= o.version
  /\ c.version = o.version => c = o
  /\ c.status.phase # NoPhase => o.status.phase # NoPhase
  /\ c.deleted => o.deleted
  /\ c.created # None => c.created = o.created

Untouched(r) ==
  /\ requests[r] = NoObject /\ cache[r] = NoObject
  /\ pc[r] = "idle" /\ Absent(pods[r]) /\ starts[r] = 0

CopiesFollow(r) ==
  /\ requests[r].created = None => Untouched(r)
  /\ Follows(cache[r], requests[r])
  /\ pc[r] # "idle" => Follows(copy[r], requests[r])

(* Nothing starts the run of a settled request again. *)
Settled(o) == o.status.phase # NoPhase \/ o.deleted

WorkerKnows(r) ==
  /\ pc[r] = "pending" =>
       Absent(pods[r]) /\ copy[r].there /\ copy[r].status.phase = NoPhase /\ ~copy[r].deleted
  /\ pc[r] = "pod" => Absent(pods[r]) /\ starts[r] = 0 /\ requests[r].there
  /\ pc[r] = "update" => plan[r].status.phase # NoPhase
  /\ pc[r] = "update" /\ ~plan[r].dirty => requests[r].status.phase # NoPhase
  /\ pc[r] = "delete" => requests[r].deleted
  /\ pc[r] = "finalize" => Absent(pods[r])

PodRunsOnce(r) ==
  /\ starts[r] <= 1
  /\ pods[r].phase = "Pending" => starts[r] = 0
  /\ starts[r] > 0 /\ Absent(pods[r]) => Settled(requests[r])
  /\ pods[r].leaving => Settled(requests[r])
  /\ ~Absent(pods[r]) => requests[r].there

(* What the controller may find of the policy vouches for the request. *)
Vouching(r) ==
  /\ requests[r].created <= clock
  /\ requests[r].created # None /\ Vouched(requests[r]) => vouchedFor[r]
  /\ pc[r] \in {"pending", "pod"} \/ ~Absent(pods[r]) \/ starts[r] > 0 => vouchedFor[r]

Safe ==
  /\ clock # None
  /\ \A r \in Requests :
       CopiesFollow(r) /\ WorkerKnows(r) /\ PodRunsOnce(r) /\ Vouching(r)

(* What makes requests keep their promise while the informer does not lag: *)
(* a copy has the request's status, and what is planned may follow it.     *)
MayFollow(r, from, to) ==
  \/ to = from
  \/ /\ from.phase \in {NoPhase, "Running"}
     /\ \/ to.phase = "Running" /\ from.phase = NoPhase
        \/ to.phase = "Rejected" /\ from.phase = NoPhase /\ Absent(pods[r]) /\ starts[r] = 0
        \/ to.phase = "Succeeded" /\ starts[r] = 1
        \/ to.phase = "Failed"

Truthful(r) ==
  /\ pc[r] # "idle" => copy[r].status = requests[r].status
  /\ pc[r] \in {"pending", "pod"} => requests[r].status.phase = NoPhase
  /\ pc[r] = "update" => MayFollow(r, requests[r].status, plan[r].status)
  /\ pods[r].phase = "Running" \/ pods[r].code # NoExit => starts[r] = 1
  /\ requests[r].status.phase = "Rejected" => Absent(pods[r]) /\ starts[r] = 0
  /\ requests[r].status.phase = "Succeeded" => starts[r] = 1

InStep == cache = requests /\ \A r \in Requests : Truthful(r)

-----------------------------------------------------------------------------
(* What makes the results inductive, whatever the informer lags behind: no *)
(* status there is, written, read or planned, tells of r what is not so.   *)
RunIsOver(r) == Absent(pods[r]) \/ Finished(pods[r], ApplyTimeout, clock)

KnowsScript(st) ==
  st.script # NoFix \/ (NothingFailed /\ st.phase \in {"Running", "Succeeded"})

Honest(r, st) ==
  /\ st.phase = NoPhase => st.script = NoFix
  /\ Terminal(st) <=> st.finishedAt # None
  /\ Terminal(st) => RunIsOver(r)
  /\ KnowsScript(st) /\ ~Absent(pods[r]) => st.script = configs[r].body
  /\ KnowsScript(st) /\ starts[r] > 0 => st.script = ran[r]
  /\ st.phase = "Succeeded" => starts[r] > 0

AllHonest(r) ==
  \A st \in {requests[r].status, cache[r].status, copy[r].status, plan[r].status} : Honest(r, st)

(* What copy c says was done still is in o. *)
Upheld(c, o) ==
  /\ Terminal(c) => Terminal(o)
  /\ c.script # NoFix => o.script # NoFix

PlanHolds(r) ==
  /\ plan[r].status.phase = "Running" => ~Terminal(requests[r].status)
  /\ plan[r].dirty =>
       /\ plan[r].status.phase # copy[r].status.phase /\ ~Terminal(copy[r].status)
       /\ copy[r].status.script # NoFix => plan[r].status.script = copy[r].status.script
  /\ Terminal(plan[r].status) /\ ~plan[r].dirty => Terminal(requests[r].status)
  /\ plan[r].announce \/ plan[r].pod => Terminal(plan[r].status)
  /\ plan[r].run # NoRun => plan[r].dirty
  /\ pc[r] # "update" => plan[r].status = NoStatus

(* A run's pod comes first and its ConfigMap last, once. *)
CreatedInOrder(r) ==
  /\ pc[r] \in {"pod", "secret", "configmap"} => requests[r].status.phase = NoPhase
  /\ pc[r] \in {"pending", "pod", "secret", "configmap"} => plan[r].script # NoFix
  /\ pc[r] = "pod" => configs[r].owner = "none"
  /\ pc[r] \in {"secret", "configmap"} /\ Absent(pods[r]) => Settled(requests[r])

(* What a pod runs is what its ConfigMap says, as long as the pod is there. *)
RunsItsScript(r) ==
  /\ configs[r].owner # "none" =>
       configs[r].body # NoFix /\ (Absent(pods[r]) => Settled(requests[r]))
  /\ ~Absent(pods[r]) => configs[r].owner # "orphan"
  /\ pods[r].phase = "Running" \/ pods[r].code # NoExit => starts[r] > 0
  /\ starts[r] > 0 /\ ~Absent(pods[r]) =>
       configs[r].owner # "none" /\ ran[r] = configs[r].body
  /\ starts[r] > 0 => ran[r] # NoFix

Reported(r) ==
  /\ AllHonest(r)
  /\ Upheld(cache[r].status, requests[r].status) /\ Upheld(copy[r].status, requests[r].status)
  /\ PlanHolds(r)
  /\ CreatedInOrder(r) /\ RunsItsScript(r)
  /\ announced[r] > 0 => Terminal(requests[r].status)

(* And what makes admission exclusive: the informer has a whole list, in   *)
(* which an older request is missing only when it is gone, and what was    *)
(* over when a younger one was admitted stays over.                        *)
Over(o) == ~o.there \/ o.deleted \/ Terminal(o.status)

OlderThan(a, b) == requests[a].created # None /\ requests[a].created < requests[b].created

WholeList ==
  \A a, b \in Requests :
    /\ OlderThan(a, b) /\ cache[b].created # None => cache[a].created # None
    /\ cache[a].created # None /\ ~cache[a].there => ~requests[a].there

Admitted(r) == pc[r] \in {"pending", "pod"} \/ ~Absent(pods[r])

YoungerWaits ==
  \A a, b \in Requests : OlderThan(a, b) /\ Admitted(b) => Over(requests[a])

Exclusive == WholeList /\ YoungerWaits

AllReported == \A r \in Requests : Reported(r)

(* With an informer that does not lag, nothing is announced twice. *)
NotAnnouncedYet ==
  \A r \in Requests : announced[r] <= 1 /\ (plan[r].announce => announced[r] = 0)

-----------------------------------------------------------------------------
(* The controller deletes the pod of a run that ended in time only once    *)
(* the request has its result, or is itself being deleted.                 *)
ResultNotLost ==
  [][ \A r \in Requests :
        /\ pc[r] = "update" /\ plan'[r] # plan[r]
        /\ pods[r].phase = "Ended" /\ ~pods[r].leaving
        /\ Absent(pods'[r]) \/ pods'[r].leaving
        /\ requests[r].there /\ ~requests[r].deleted
        => requests[r].status.finishedAt # None ]_vars

(* "The incident goes first" (Update): when a request reports its run, an  *)
(* incident that still takes runs, and was not analysed again, has it, or  *)
(* had another request's run recorded (two created in the same second may  *)
(* run at once, and the one that ended first may be recorded last).  It    *)
(* does not when the very call that records the run fails.                 *)
ApplyEntry(i) == i.status.lastChecks["apply"]

OthersUnrecorded(r) == \A q \in Requests \ {r} : recorded[q] = 0

HasRun(r, at) ==
  /\ incident.there /\ incident.status.state \in {"Open", "Verifying"}
  /\ incident.analysis = admittedFor[r]
  /\ OthersUnrecorded(r)
  => ApplyEntry(incident).since >= at

RecordingFails(r) == plan[r].run # NoRun /\ (faults' < faults \/ incidentCache # incident)

Succeeds(r) == requests[r].status.phase # "Succeeded" /\ requests'[r].status.phase = "Succeeded"

IncidentGoesFirst ==
  [][ \A r \in Requests :
        Succeeds(r) /\ ~RecordingFails(r) => HasRun(r, requests'[r].status.finishedAt) ]_vars

(* What makes it a property of every patch, whatever informer lags: the    *)
(* copy of the incident that is read never goes back, the analysis a       *)
(* request was admitted for has ended in it, and a run of exit 0, planned  *)
(* or recorded, ended when the pod says it did.                            *)
IncidentBehind ==
  LET c == incidentCache IN
  /\ incident.there => c.there
  /\ c.analysis <= incident.analysis
  /\ c.status.state # "" /\ incident.status.state # ""
  /\ c.status.state \in Ended => incident.status.state \in Ended
  /\ c.analysis = incident.analysis /\ incident.status.state = "Analyzing" =>
       c.status.state = "Analyzing"

ExitedZero(r, at) ==
  /\ starts[r] > 0 /\ at <= clock
  /\ ~Absent(pods[r]) => ExitOf(pods[r]) = 0 /\ EndedAt(pods[r], ApplyTimeout) = at

AdmittedInPast(r) ==
  /\ admittedFor[r] <= incidentCache.analysis
  /\ admittedFor[r] = incidentCache.analysis => incidentCache.status.state # "Analyzing"

PlansItsRun(r) ==
  LET run == plan[r].run
      at == plan[r].status.finishedAt
  IN
  /\ pods[r].code # NoExit => pods[r].finished \in 1..clock
  /\ run.exit = 0 => ExitedZero(r, run.at)
  /\ plan[r].dirty /\ plan[r].status.phase = "Succeeded" =>
       /\ at <= clock
       /\ run = [exit |-> 0, at |-> at] \/ (run = NoRun /\ HasRun(r, at))

(* Of what the incident has, and had: what only r can have recorded. *)
EntryIsTrue(r) ==
  OthersUnrecorded(r) =>
    /\ \A i \in {incident, incidentCache} :
         ApplyEntry(i).exit = 0 =>
           /\ ExitedZero(r, ApplyEntry(i).since)
           /\ plan[r].run \in {NoRun, [exit |-> 0, at |-> ApplyEntry(i).since]}
    /\ incidentCache.analysis = incident.analysis /\ ApplyEntry(incidentCache).exit = 0 =>
         ApplyEntry(incident).since >= ApplyEntry(incidentCache).since

Recorded ==
  /\ IncidentBehind
  /\ \A r \in Requests : AdmittedInPast(r) /\ PlansItsRun(r) /\ EntryIsTrue(r)

(* Requests keep their promise. *)
Promise == INSTANCE ApplyPhases
  WITH phase <- [r \in Requests |-> requests[r].status.phase], runs <- starts

KeepsPromise == Promise!Spec

-----------------------------------------------------------------------------
(* What the repository says of the controller, and the code does not do:   *)
(* each is shown violated by a run.                                        *)

(* "Terminal reports whether the phase is final" (ApplyPhase.Terminal). *)
PhaseIsFinal ==
  [][ \A r \in Requests :
        Terminal(requests[r].status) => requests'[r].status.phase = requests[r].status.phase ]_vars

(* "The incident goes first: a run is recorded there once, whatever fails  *)
(* after" (Update): none is reported that the incident does not have.      *)
RecordedWhenReported ==
  [][ \A r \in Requests : Succeeds(r) => HasRun(r, requests'[r].status.finishedAt) ]_vars

-----------------------------------------------------------------------------
(* Fairness: reconciles are requeued by watches, by errors and at least    *)
(* every poll interval; informers, kubelet and garbage collector do their  *)
(* work, and time passes.  No user has to act and no container to end.     *)
Fairness ==
  /\ \A r \in Requests : WF_vars(Reconcile(r)) /\ WF_vars(PodGone(r)) /\ WF_vars(Collect(r))
  /\ WF_vars(CacheSync) /\ WF_vars(IncidentSync)
  /\ WF_vars(Tick)

FairSpec == Spec /\ Fairness

(* Every request is admitted or rejected. *)
RequestsAreDecided ==
  \A r \in Requests :
    requests[r].there ~> requests[r].status.phase # NoPhase \/ ~requests[r].there

(* A run that ended, or is overdue, is reported, though its pod never      *)
(* started and whatever was not created for it.                            *)
RunsAreReported ==
  \A r \in Requests :
    ~Absent(pods[r]) /\ Finished(pods[r], ApplyTimeout, clock)
      ~> Terminal(requests[r].status) \/ requests[r].deleted

(* "The credential goes with it" (ApplySecret): once a request is          *)
(* finished or deleted its pod and Secret go, for good.                    *)
CredentialGoes ==
  \A r \in Requests :
    Terminal(requests[r].status) \/ requests[r].deleted
      ~> [](Absent(pods[r]) /\ secrets[r] = "none")

(* A finished request goes its TTL after it finished. *)
ExpiredRequestsGo ==
  \A r \in Requests :
    Terminal(requests[r].status) /\ clock >= requests[r].status.finishedAt + TTL
      ~> ~requests[r].there
=============================================================================
