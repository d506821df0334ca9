# Verification of the incident controller

TLA+ models of `incident-provider`, the TLC runs that check them, and theorems
TLAPS proves about them. The reference is the Go source: each definition is a
translation of the lines `PROJECT.json` gives for it under `map`.

## The system

`incident-provider` is a Kubernetes controller. An **Incident** is one
occurrence of an alert's problem. Its analysis writes bash scripts for it
(`howToFix`); the controller runs the *precondition* while the incident is
`Open` and the *verify* script while it is `Verifying`, each in a pod of its
own, and moves the incident on their exit codes. Humans decide through `spec`.
An **IncidentApply** is one request to run the *apply* script of one incident
with the requester's own credentials; a second controller admits it, runs it in
a pod and records the run on the incident.

| Component | State it keeps | Operations | Right when |
|---|---|---|---|
| State machine (`machine.go`) | none: functions on the status | `applySpec`, `record`, `recordApply`, `setState`, `enterVerifying`, `setLastCheck`, `checkDue` | results move the incident only as documented; window, state and resolution agree |
| Incident controller (`incident.go`) | `lastRuns` in memory; a `plan` per reconcile; the Incident and its pods in the API | `Observe`, `Update`, `startCheck`, `Delete` | one check at a time; no result or decision lost; due checks start; nothing outlives the Incident |
| Check pods (`checkpod.go`) | none | `checkName`, `Pod`, `ConfigMap`, `resultOf`; pod template and sandbox | every pod ends in one result, the same whenever it is read |
| IncidentApply controller (`apply.go`) | a `plan` per reconcile; the request's status; the apply pod, its Secret and ConfigMap | `Observe`, `admit` (`vouched`, `busy`, `mayPatch`, `kubeconfigOf`), `Create`, `Update`, `recordOnIncident`, `Delete` | a run starts at most once, for a requester the policy vouches for; its incident has it before the request says so; the request says what ran; every request ends, its credential and then the request go |
| API types (`types.go`, `incidentapply_types.go`) | the objects | CRD validation rules | the status follows the lifecycle |
| Check reader role (`checkreader.go`) | a ClusterRole's rules | `sync`, `Rules`, `withKept` | it grants what discovery shows, and an unreadable group keeps what it had |
| Wiring (`main.go`, `controllers.go`) | none | flags, cache scope, registration | one worker per object, pods listed from an informer |

Who talks to whom:

- The controllers, the writer (`alert-provider`, which writes the analysis),
  humans, the kubelet and the garbage collector share only API objects. An
  update carries a resourceVersion and conflicts when the object changed since;
  the status of a request is patched without one.
- The controllers read Incidents, and list pods, from informers, which lag.
- provider-runtime calls `Observe`, then `Create` when it answers "does not
  exist" (between two writes of annotations on the object), or `Update` when it
  answers "not up to date"; on a deleted Incident `Observe`, then `Delete` while it finds
  something, and else it removes the finalizer. After an `Observe` or `Update`
  that fails it writes the object's status, as it is in memory, next to the
  error (`ReadyAssessed`, `docs/overview.md`). One reconcile of an object runs
  at a time. It is triggered by changes of the Incident and its pods, by
  errors, and at least every poll interval.
- The IncidentApply controller writes the Incident's status when a run ends.
  Requests see each other only in the informer's list (`busy`).

What is hard: a reconcile works from an old copy and anyone may act between its
calls; a call may fail, or the process restart, after any of them; results are
known by their pod's name and label only; times come from three clocks (the
kubelet's, the API server's, the controller's), and a run may be read long
after it ended. `PROJECT.json` lists each such place under `hazards`.

## The modules

    IncidentMachine        pure operators: machine.go, the CRD's rules
      CheckPods              what is read from a pod, what a kubelet does to it
        IncidentController     the Incident, its controller, its pods, everyone else
          IncidentProperties     what must be true, and fairness
            MCIncident             the module of the runs
            IncidentProofs         theorems: types, windows, writes
              IncidentSafety         theorems: lifecycle, verdicts, applies, pods, results
        IncidentApply          requests, their controller, the incident they are for
          IncidentApplyProperties
            MCIncidentApply        the module of the runs
            IncidentApplyProofs    theorem: types
              IncidentApplySafety    theorems: three safety invariants
                ApplyPromiseProofs     theorem: it implements ApplyPhases
                  ApplyReportProofs      theorems: exclusion, reports, results, events
        MachineProofs          lemmas both proofs rest on
    IncidentLifecycle      the abstract state and resolution of an Incident
    ApplyPhases            the abstract phase and runs of a request
    CheckReader            the check reader role (MCCheckReader, CheckReaderProofs)

**IncidentMachine** has one operator per function, of the same name. A status
is a record of what the functions read: the state, `howToFix` (one value per
analysis; two sets say which scripts it has), the `Reproduced` condition,
`lastChecks`, `verifyingSince`, and who resolved the incident. Absent times and
absent `lastChecks` entries are `None` and `NoCheck`. A time is a number of
seconds; `Rfc3339Copy` truncates to seconds, so nothing is lost but the order
within one second. Of the exit codes that are no verdict there is one, `2`,
besides no code at all.

**IncidentController** takes a reconcile apart at its API calls, where others
may act:

| Code | Actions | `pc` |
|---|---|---|
| `Observe` up to the loop, each turn, the rest | `Observe`, `ReadPod`, `Decide` | `idle` → `observe` → `update` or `idle` |
| `Update`: status, `spec.applied`, stale pods | `UpdateStatus`, `ConsumeApplied`, `DeleteStale` | `update` |
| `startCheck`: pod, ConfigMap | `StartCheck`, `CreateConfigMap` | `update` → `configmap` → `idle` |
| `Observe` of a deleted Incident | `ObserveDeleted` | `idle` → `delete` or `finalize` |
| `Delete`; the runtime's finalizer | `DeletePod`, `DeleteConfigMap`, `EndDelete`; `RemoveFinalizer` | `delete`, `finalize` → `idle` |
| an error from any call; a restart | `CallFails`, `Restart` | → `idle` |

`plan` is the Go `plan`, with the status held in memory. `copy` is the object
held in memory. A resourceVersion is the Boolean `copyCurrent` (and
`cacheCurrent` for the informer's): a write of an old copy is a conflict and
ends the reconcile. `lastRun` is `lastRuns.at` of this Incident; `Restart`
clears it.

The rest of the cluster: the kubelet (`PodStarts` once the ConfigMap is there,
`ContainerExits`, `DeadlineStops`, `PodFails`, `PodGone`), the garbage
collector (`Collect`), the informer (`CacheSync`), time (`Tick`), the writer
(`WriterStarts`, `WriterFinishes`, `WriterReanalyses`), humans (`HumanApplies`,
`HumanCloses`, `HumanAsksReanalysis`, `HumanDeletes`), and IncidentApply runs
(`ApplyRecorded`, which is `recordOnIncident` when its write succeeds). They
are external, modelled from how the code uses them and from `docs/`. With
`"list"` in `Lags` the informer's list may leave out what was created in the
last second (`Recent`).

Three choices keep the state space small and lose nothing the properties see:

- While `Observe` computes (`pc = "observe"`) nobody else acts. It reads its
  copy, its list of pods and the time once, in the action `Observe`; whatever
  others do before it has decided commutes with its turns.
- Of a pod that is being deleted only the name is kept: the code reads nothing
  else of it, and a result it might still give is never read.
- One Incident. Incidents share only the map `lastRuns`, keyed by UID.

**IncidentLifecycle** is the table of `docs/overview.md` as a specification of
two variables. It allows `Open → Resolved` in one write: when the same
`Observe` takes an apply and reads a verify pod, the two moves are one write.

**CheckPods** has what both controllers use of `checkpod.go`: `resultOf`, split
into whether a pod gives a result (`Finished`), its exit (`ExitOf`) and when it
ended (`EndedAt`), and the kubelet's steps.

**IncidentApply** has a worker per request; two requests may be reconciled at
once.

| Code | Actions | `pc` |
|---|---|---|
| `Observe` of a new request, `admit`, `reject` | `ObserveNew` | `idle` → `pending`, `update` |
| `Observe` of any other, `started`, `finishRun`, `end` | `ObserveRun` | `idle` → `update` or `idle` |
| the runtime's create-pending annotation | `WritePending` | `pending` → `pod` |
| `Create`: pod, Secret, ConfigMap | `CreatePod`, `CreateSecret`, `CreateConfigMap` | `pod` → `secret` → `configmap` → `annotate` |
| the runtime's create-succeeded or -failed annotation | `Annotate` | `annotate` → `idle` |
| `Update`: `recordOnIncident`, status patch, `announce`, pod, TTL | `RecordOnIncident`, `PatchStatus`, `Announce`, `DeleteApplyPod`, `DeleteExpired` | `update` |
| `Observe` of a deleted request | `ObserveDeleted` | `idle` → `delete` or `finalize` |
| `Delete`; the runtime's finalizer | `DeleteRun`; `RemoveFinalizer` | `delete`, `finalize` → `idle` |
| an error from a call of `Create`, `Update`, `Delete`; a restart | `CallFails`, `Restart` | → `idle`, or `annotate` within `Create` |
| an error in `started` (`Observe`) | `ObserveFails` | `idle` |

`plan` has the fields of the Go `applyPlan`, with the computed status in the
place of the object held in memory, and `announce` for `finished`. A
resourceVersion is a number here: the create-pending annotation and the
finalizer are updates, which conflict when the copy is old; the status is a
merge patch (`Patched`), which does not, and writes only what differs from the
copy. `Observe` reads the request, the list for `busy` and the incident from
informers (`cache`, `incidentCache`), and the pod, its ConfigMap and the policy
past them. It is one action: it writes nothing, each thing it reads is written
by others only, and reading it earlier or later in the same `Observe` is the
same as the others acting earlier or later. The answer of the
SubjectAccessReview is any of `Answers`. A pod that is being deleted may still end, and an
`Observe` of a running request reads its result.

When an `Observe` or `Update` fails, the runtime writes the status it has in
memory (`RuntimeWrites`): an update, which an old copy does not win, and which
may fail too. Two failures leave something there to write. `started` sets
`Running` before it reads the ConfigMap (`ObserveFails`); every other `Observe`
that fails has changed nothing. And an `Update` works with the end of the run
in memory: a recording that is refused (`RecordOnIncident`) or fails, or a patch
that fails (`CallFails`), may still be followed by the write of that end. Of an
Incident this write adds nothing: its `Observe` fails only before it changes
anything, and the write after a status update that failed is an `UpdateStatus`
followed by the failure of the next call.

The incident moves by the operators of `IncidentMachine` that its own controller
calls (`HumanDecides`, `CheckEnds`), and by its writer (`WriterReanalyses`,
`WriterFinishes`). `analysis` numbers its analyses; it, `starts`, `ran`,
`announced`, `vouchedFor`, `admittedFor` and `recorded` are history, which no
guard reads.

**ApplyPhases** is what the phases of `incidentapply_types.go` promise: one run
at most, none of a `Rejected` request, an ended one for `Succeeded`, and no way
out of a terminal phase. It lets a run start after `Failed`: a pod given up as
overdue may start before its delete takes effect.

**CheckReader** is `refresher.sync`, call by call: `Discover`, `ReadRole`,
`WriteRole` (a conflict when the role was recreated since), `CallFails`. `Rules`
and `WithKept` are the Go functions of those names, on a role seen as the
resources it grants in each group; the order of rules and their verbs are left
out. Group versions change what they serve (`Serves`), become unhealthy
(`GoesDown`, `Recovers`), and the release may be installed anew
(`RoleRecreated`). A resource is excluded by its name in `Secrets`, or because
it is in `Unlisted`: it is a subresource, or has neither get nor list. A
discovery that fails as a whole changes nothing.

## What each run checks

The runs use the modules `MCIncident`, `MCIncidentApply` and `MCCheckReader`.
`CHECK_DEADLOCK FALSE` is where the system may really stop: the Incident, or
the request, ends up gone and the clock at its bound.

| Run | Who acts | What it shows |
|---|---|---|
| `decisions` | apply, close, reanalysis, delete and IncidentApply runs, two of them, and one fault | `TypeOK`, `OneCheckAtATime`, `WritesAccepted`, `RecordingTwiceChangesNothing`, `WindowAndResolution`, `ResultNotLost`, `AppliedNotLost`, `WindowHonoured`, `FirstVerdictStands`, `FollowsLifecycle` |
| `live` | one of apply, close, delete; a lagging informer, lingering pods, fair | `NothingOutlivesTheIncident`, `CloseTakesEffect`, `ApplyTakesEffect`, `DueCheckStarts`, `FinishedPodsGo`, `NothingRunsAfterTheEnd`, `DeletionCompletes` |
| `requests` | one request, one fault, one of decision, check, analysis, deletion, removal of the pod, policy; a lagging incident, lingering and failing pods, fair | `TypeOK`, `UnvouchedNeverRuns`, `ReportsWhatRan`, `AnnouncedOnce`, `NoPodOutlivesItsRequest`, `ResultNotLost`, `IncidentGoesFirst`, `KeepsPromise`, `RequestsAreDecided`, `RunsAreReported`, `CredentialGoes`, `ExpiredRequestsGo` |
| `tworequests` | two requests for one incident, a lagging list | `RunsAtMostOnce`, `OneRunPerIncident` |
| `reader` | group versions, one fault, fair | `GrantsOnlyReadable`, `UnreadGroupKept`, `NewResourceReadable`, `RemovedResourceRevoked` |
| `leak` | delete, a lagging list of pods | violated: `NothingOutlivesTheIncident` |
| `window` | apply twice | violated: `VerifyResultOfThisWindow` |
| `oldscript` | reanalysis, two analyses | violated: `ResultOfThisAnalysis` |
| `partialstart` | one fault | violated: `PartialStartRetried` |
| `lateread` | one request, a lagging list | violated: `PhaseIsFinal` |
| `unrecorded` | one request, one fault | violated: `RecordedWhenReported` |
| `readeroutage` | group versions | violated: `UnhealthyKeepsReads` |

Each property of a passing run has a mutant: a plausible bug in the code that
the run finds (`mutants` in `PROJECT.json`; the mutated definitions stand
before the real ones, marked `Mutant`).

### The violated properties

Each states what a comment of the repository says and the code does not do.

- `NothingOutlivesTheIncident`, once the informer's lists lag. `Observe` of a
  deleted Incident looks for pods and ConfigMaps in them. A check that has just
  started is in neither, so nothing is there, `Delete` is not called, the
  finalizer goes, and pod and ConfigMap stay: nothing in the cluster owns the
  pod. (`apply.go` reads its pod past the cache and does not have this.)
- `PhaseIsFinal`. Of `apply.go`'s two reads, the pod's is past the cache and the
  request's is not. After a run ended, its status was written and its pod went,
  a reconcile that still reads the old copy finds `Running` without a pod and
  ends the request as `Failed`; its merge patch, without a resourceVersion,
  overwrites `Succeeded`, and a second `ApplyFinished` Event goes out.
- `RecordedWhenReported`. The incident goes first, says `Update`. But the end of
  the request is in memory before: when `recordOnIncident` fails, or conflicts
  with a write of the incident, the runtime's status write persists
  `Succeeded`, no later `Observe` plans the run, and the incident never has it.
- `VerifyResultOfThisWindow`. A verify result of an earlier settle window is
  dropped, says `enterVerifying`. It drops the one already recorded; a run that
  had ended and was not read yet is recorded in the new window.
- `ResultOfThisAnalysis`. The result of a script no longer current is dropped,
  says `Observe`. It compares the script's kind. After a reanalysis, a pod of
  the old analysis is recorded for the new script of the same kind: a
  precondition may flag, and a verify may resolve, an incident on a script
  its status no longer has. If a human applies first, the old verify's exit 0
  takes the incident from `Open` to `Resolved` in one write.
- `PartialStartRetried`. The name of a check is deterministic so that a start
  that failed halfway is retried (`checkName`, `TestStartCheckAfterAPartialStart`).
  But the pod without its ConfigMap counts as running, so no check is due and
  `startCheck` is not called: the pod waits until it is overdue and the result
  is unknown. (Only an informer that has not seen the pod yet makes it retry.)
- `UnhealthyKeepsReads`. An unhealthy aggregated API does not take reads away,
  says `sync`. `withKept` keeps the rules of a group only when nothing else of
  it was read: with one version healthy, what only the other serves is no
  longer granted.

What holds in the place of `RecordedWhenReported` is `IncidentGoesFirst`, in the
run `requests`: it excepts the step in which the very call that records the run
fails, and no later failure, old copy or restart. Three more consequences of a
failed call are known and stated by no property:

- A request may succeed without its script: when the read of the ConfigMap in
  `started` fails, the runtime persists `Running`, and `started` is not called
  for a request that has a phase. `ReportsWhatRan` allows no script after a
  failed call, and never another one.
- A request may end without its Event: `announce` follows the patch of the same
  reconcile only. When that patch fails and the runtime writes the end, or the
  process stops after it, no later `Observe` plans the Event. `AnnouncedOnce` is
  at most once.
- A run may be recorded twice: `recordApply` sees in `lastChecks` that it recorded
  it before. When the process stops before the status is persisted (or both
  its writes fail) and a human's apply takes the `apply` entry meanwhile, the
  next reconcile records the run over the apply.

`OneRunPerIncident` says what `older` does and not what `docs/overview.md` says
("no other request for it is pending or running"): of two requests created in
the same second, the one whose name is greater may be admitted first while the
other has not been seen, and the other, being older by name, is admitted too.

### Bounds

In the runs on the Incident `PollInterval` 1, `SettleWindow` 2, `CheckTimeout` 1
and `PendingGrace` 1, with the clock from 1 to 3 or 4. Within that a check can
start, end and be read inside the window and at its end (1, 2, 3), be overdue
(created at 1, overdue at 3), and be followed by the next one, whose name
differs because the last run ended at another time. The clock stops at the
bound: a liveness property speaks of what needs no more time.

In `decisions` any two edits (an apply and a close, an apply again, an apply and
a reanalysis, a run after an apply) and one fault at any call. Two edits are
what the properties relate; a third repeats one of them. In `live` one edit and
no fault, but every write leaves the informer behind and every deleted pod
lingers: it is their combination that liveness could fail on. `ExitCodes` 0 and
1, and in `decisions` one outside 0..255, which reads as no exit. `2` moves
nothing, like no exit, and is left to the proofs. One fix suffices except in
`oldscript`, where two analyses must differ. `Lags` has `"list"` in `leak` only.

In the runs on requests `ApplyTimeout` 1, `PendingGrace` 0 and a clock from 2 to
3: a run can end in time, at its deadline, or be overdue. The policy and its
binding are there since 1, or not, and may come, go and come back
(`PolicyChanges`), in the second of the request too. `TTL` 1 lets a request
finish and expire; `TTL` 9 keeps it where expiry is not the question.
`LoginEnds` has a login that ends too early and one that does not. `requests`
has one request (requests meet only in `busy`), one fault and one thing
happening beside it; its safety properties also hold with two faults (1.0
million states) and with two such happenings (3.4 million). The writer's ending
an analysis is not counted. In it the list of requests does not lag: with the
lag `PhaseIsFinal` fails, and with it `KeepsPromise`. `tworequests` has the lag,
two requests created in any seconds, and nothing else; the theorems cover faults
and lag together.

In `reader`, one group of two versions: `Rules` and `WithKept` treat each group
on its own. Two changes are what it takes for a version to become unhealthy
and the other to serve something new, or for a resource to go while its sibling
is down. Three resources, one of them excluded.

### Fairness

Weak fairness of `Reconcile` (per request in `IncidentApply`): watches, errors
and the poll interval requeue every object, so a reconcile that can act
eventually does. Of `CacheSync`, `IncidentSync`, `PodGone`, `Collect` and
`Tick`: informers catch up, the kubelet removes a deleted pod, the garbage
collector works, and time passes. Nothing else is fair: no human or writer has
to act, and no container has to start or end, since a pod that never does is
overdue in the end. Faults are bounded: when every call fails nothing happens
at all. In `reader`, `Sync` is weakly fair: it runs at start and every
interval; group versions need not recover.

## What is proved

Each theorem holds for every set of fixes and requests, every timing
configuration, every bound and every combination of `Lags` and `Happens` that
meets `FixesAssumption`, `ConfigAssumption`, `BoundsAssumption` and
`ApplyAssumption`; the last two for every set of groups, versions and resources.

| Theorem | Says | Rests on |
|---|---|---|
| `TypeCorrect` | `Spec => []TypeOK` | `Typed` |
| `WindowAndResolutionHold` | `Spec => []WindowAndResolution` | `Typed`, `CopiesWellFormed` |
| `RecordingTwice` | `Spec => []RecordingTwiceChangesNothing` | the two above, `RecordIdempotent` |
| `WritesAreAccepted` | `Spec => []WritesAccepted` | `Typed`, `CopiesWellFormed`, `CopiesFollow` |
| `LifecycleFollowed` | `Spec => FollowsLifecycle`: it implements `IncidentLifecycle` | `Typed`, `CopiesWellFormed`, `CopiesFollow`, `Timely` |
| `VerdictStands` | `Spec => FirstVerdictStands` | `Typed`, `CopiesWellFormed`, `CopiesFollow`, `Timely` |
| `WindowIsHonoured` | `Spec => WindowHonoured` | `Typed`, `CopiesWellFormed`, `CopiesFollow`, `Timely` |
| `OneCheck` | `Spec => []OneCheckAtATime` when `"list"` is not in `Lags` | `Typed`, `ChecksKnown` |
| `NothingOutlives` | `Spec => []NothingOutlivesTheIncident` when `"list"` is not in `Lags` | `Typed`, `NothingLeft` |
| `NoResultLost` | `Spec => ResultNotLost` of the Incident when `"list"` is not in `Lags` | `OneCheckAtATime`, `CopiesWellFormed`, `CopiesFollow`, `ResultsRead`, `PlanWritten` |
| `NoApplyLost` | `Spec => AppliedNotLost` | `Typed`, `CopiesWellFormed`, `CopiesFollow`, `Timely`, `PlanWritten`, `PlanApplied` |
| `RequestsTyped` | `Spec => []TypeOK` of `IncidentApply` | itself |
| `RunsOnce` | `Spec => []RunsAtMostOnce` | `RequestsTyped`, `Safe` |
| `VouchedRuns` | `Spec => []UnvouchedNeverRuns` | `RequestsTyped`, `Safe` |
| `PodsGoFirst` | `Spec => []NoPodOutlivesItsRequest` | `RequestsTyped`, `Safe` |
| `PromiseKept` | `Spec => KeepsPromise` when `"requests"` is not in `Lags` | `Safe`, `InStep` |
| `RunsExclude` | `Spec => []OneRunPerIncident` | `Safe`, `AllReported`, `Exclusive` |
| `ReportsAreTrue` | `Spec => []ReportsWhatRan` | `Safe`, `AllReported` |
| `ResultsAreKept` | `Spec => ResultNotLost` of a request | `Safe`, `AllReported` |
| `IncidentFirst` | `Spec => IncidentGoesFirst` | `Safe`, `AllReported`, `Recorded` |
| `EndsAreAnnouncedOnce` | `Spec => []AnnouncedOnce` when `"requests"` is not in `Lags` | `AllReported`, `InStep`, `NotAnnouncedYet` |
| `OnlyReadableGranted` | `Spec => []GrantsOnlyReadable` | itself, `WithKeptReadable` |
| `UnreadGroupsKeep` | `Spec => UnreadGroupKept` | `GrantsOnlyReadable` |

- `Typed` is `TypeOK` and `PlannedHasScript`: a planned check has a script.
  Without it the name of the pod `StartCheck` creates would have no type.
- `CopiesWellFormed`: the status, the informer's copy and the one in the plan
  are all well formed. The API's alone is not inductive, as the next write is
  computed from a copy. It needs `clock # None`: a window that starts at the
  zero time would not be there. The lemmas `WellFormedApplySpec`,
  `WellFormedRecord` and `WellFormedRecordApply` say that the functions of
  `machine.go` preserve it.
- `RecordIdempotent`: recording a run of the current script a second time
  changes nothing while that script is still current, for any well formed
  status and any run.
- `CopiesFollow`: a copy taken for the latest version is it, and the plan never
  takes an ended incident back. So a write that is not a conflict satisfies the
  CRD's transition rule.
- `Timely` is `PlanFollows` and `NothingFromTheFuture`. A plan stays one step of
  the lifecycle ahead of the copy it was computed from, keeps its verdict, and
  leaves the copy's settle window only after it (`Follows`), however many runs
  are recorded in it; `RecordCases` says what recording one does. By
  `CopiesFollow` that copy is the status an `UpdateStatus` replaces, so
  `NextStatus` gives every step as a step of the plan, of the writer or of
  IncidentApply. The window is over at `clock`, and not only at the moment a
  run claims to have ended, because a container's verdict is never from the
  future.
- `ChecksKnown`: while the lists do not lag, a pod that stays is still to be
  read, is to be deleted, or keeps a check from starting. So `StartCheck` finds
  none. `NothingLeft`: the finalizer goes only once nothing is there, and
  nothing starts in between. With `"list"` in `Lags` the second is false: the
  run `leak`.
- `ResultsRead`: of the pod that stays, a plan that deletes it has its result in
  the status it goes on with; `PlanWritten`: once the plan is no longer dirty,
  that status is the one that was written. So what `DeleteStale` deletes is
  recorded in the status the incident has (`CopiesFollow`). With `"list"` in
  `Lags` it is false: two checks may run at once, and of two results the last
  one read wins.
- `PlanApplied`: a plan that consumes an apply recorded it at its own `now`, and
  stays in the window that began then, whatever runs it has recorded since.
  `SettleWindow` 0 is allowed by the code, and then the window is over at once:
  a verify that exits 1 may take the incident back to `Open` in the very write
  that records the apply. `AppliedNotLost` says so (`MovedOn`).

- `Safe` is why a run never starts twice although its request is read from an
  informer that lags. What admits a second run is a copy without a phase while
  no pod is there. Either the first run's request has no phase itself, and then
  its pod is still there, as nothing deletes the pod of a request before it has
  a phase or is deleted (`PodRunsOnce`); or the copy is not the latest version
  (`CopiesFollow`), and the create-pending annotation conflicts. So when `Create`
  is called nothing has started (`WorkerKnows`). `Vouching` carries what
  admission found to the pod that starts, and time only goes on, so a policy
  created before the request was there when the request was.
- `InStep` adds that a copy has the request's status and that what is planned
  may follow it (`MayFollow`). It needs a list that does not lag; the refinement
  is then one step of `ApplyPhases`, or none, per action.
- `AllReported` is what remains true of reports when the list does lag. A status
  in the API, in the informer, in a worker's copy or in its plan tells nothing
  untrue of the run (`Honest`): it ended, at some time, with this script, or with
  none after a failed call (`KnowsScript`). Two of
  the four disagree when a copy is old, and a merge patch may mix them; it
  writes an honest status all the same, because nothing that was told is taken
  back (`Upheld`) and a dirty plan changes the phase of a copy that was not
  terminal (`PlanHolds`). What a pod runs is in its ConfigMap, which is created
  last and once (`CreatedInOrder`, `RunsItsScript`).
- `Exclusive`: the informer's list is one the API had (`WholeList`), so an older
  request is missing from it only when the younger one is missing too, or when
  it is gone; and what was over when a younger request was admitted stays over
  (`YoungerWaits`). `busy` needs no newer list than that.
- `NotAnnouncedYet`: a plan that will announce belongs to a request that was not
  announced. It needs a list that does not lag: the run `lateread` ends a
  request twice.
- `Recorded` relates a request to its incident. The informer's incident never
  goes back (`IncidentBehind`); the analysis a request was admitted for has
  ended, so the incident does not return to it (`AdmittedInPast`); a run of exit
  0 in a plan or on the incident ended when its pod says, or when the pod that
  is gone said (`PlansItsRun`, `EntryIsTrue`). The hard step is a
  `RecordOnIncident` that writes nothing because an old copy of the incident has
  the run already: by `EntryIsTrue` the incident itself then has it or a later
  apply. Of two requests created in the same second and run at once, the one
  that ended first may be recorded last, so `IncidentGoesFirst` speaks of an
  incident that no other request was recorded on.

The runtime's write of a status is a case of each: `RuntimeReported` says that it
writes an honest one over the version it was computed from, and `OnlyUpdateEnds`
and `EndIsPlanned` that a request ends only as a worker's `Update` planned,
through its patch or the runtime.

These invariants were checked by TLC on small instances, at several bounds and
with both informers lagging, before they were proved.

`MachineProofs` has the lemmas on the types of what `IncidentMachine` and
`CheckPods` return, and on what its functions do to the `apply` entry and the
settle window.

Every safety invariant and action property of the passing runs has its theorem.
Only model-checked: the liveness properties, which are out of the prover's
reach. The theorems with a hypothesis on `Lags` need it: without it the property
is false, of `NothingOutlivesTheIncident` by the run `leak`, of `KeepsPromise`
and `AnnouncedOnce` by what `lateread` shows, of `OneCheckAtATime` and the
Incident's `ResultNotLost` by the check that an informer has not shown yet.

## What is not modelled

- The two controllers composed. `IncidentController` has the runs recorded on an
  Incident (`ApplyRecorded`), `IncidentApply` the moves of its incident; both are
  more than what the other controller does, and the same operators.
- An apply pod removed by someone else after it started and before its request
  says `Running`: the code cannot tell such a request from a new one and would
  admit it again. `PodRemoved` assumes that it does not happen; it is listed as
  a hazard.
- That every finished request gets its Event, and every one that succeeds its
  script: a failed call may lose either (above).
- A requester's login is a time fixed with the request: it may be replaced
  between request and admission, which the time, being any of `LoginEnds`,
  covers. The reasons of a rejection are one.
- `pollIntervalHook` and `applyPollIntervalHook`: they only say when the next
  reconcile is, which fairness covers.
- Check output, logs, the Incident's Events and conditions other than
  `Reproduced`: `Synced` and `Ready` are read by neither controller, and the
  runtime's write of them after a reconcile that succeeded writes a status that
  is there already. After one that failed it is `RuntimeWrites`.
- Several replicas (leader election runs one), `krateo.io/paused`, adding the
  finalizer, and provider-runtime's rate limiting.
- In `startCheck`, the create that finds an existing pod and the get that
  follows are one step. When the pod goes between them the get fails: a
  `CallFails` before the ConfigMap.
- The pod template, the sandbox settings, flags, charts and generated code,
  which keep no state.

## Plan

Done: the Incident, its controller and its check pods; IncidentApplies and
their controller; the check reader role; their theorems.
Next: the two controllers composed on one Incident, that `ApplyRecorded` is
implemented by `RecordOnIncident`, and `HumanDecides` and `CheckEnds` by
`UpdateStatus`.
