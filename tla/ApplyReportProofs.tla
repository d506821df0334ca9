--------------------------- MODULE ApplyReportProofs ---------------------------
(***************************************************************************)
(* What requests report is what happened, and one of them runs at a time:  *)
(* AllReported and Exclusive are inductive beside TypeOK and Safe,         *)
(* whatever the informers lag behind and whichever calls fail.  Recorded   *)
(* is, beside them: what a request reports, its incident had first.        *)
(***************************************************************************)
EXTENDS ApplyPromiseProofs

USE DEF None, Time, NoExit

-----------------------------------------------------------------------------
(* What a step leaves to the requests it is not about, and what no step    *)
(* does to any request but the one it creates.                             *)
ClusterStays(x) ==
  /\ pods'[x] = pods[x] /\ configs'[x] = configs[x]
  /\ starts'[x] = starts[x] /\ ran'[x] = ran[x]

Stays(x) ==
  /\ requests'[x] = requests[x] /\ WorkersStay(x) /\ ClusterStays(x)
  /\ announced'[x] = announced[x]

GoesOn(x) ==
  /\ requests'[x].created = requests[x].created
  /\ ~requests[x].there => ~requests'[x].there
  /\ Over(requests[x]) => Over(requests'[x])

ClockGoesOn == clock' \in Nat /\ clock <= clock'

FaultsStay == NothingFailed' => NothingFailed

TimePasses == ClockGoesOn /\ FaultsStay

ListGoesOn == cache' \in {cache, requests'}

LEMMA StatusTypes ==
  ASSUME TypeOK, NEW r \in Requests
  PROVE  /\ requests[r].status \in ApplyStatuses /\ cache[r].status \in ApplyStatuses
         /\ copy[r].status \in ApplyStatuses /\ plan[r].status \in ApplyStatuses
         /\ pods[r] \in ApplyPods /\ configs[r] \in ConfigMaps /\ starts[r] \in Nat
         /\ announced[r] \in 0..2 /\ plan[r].script \in Fixes \union {NoFix}
         /\ clock \in Nat /\ requests[r].created \in Nat
BY RequestTypes DEF TypeOK, ClusterTypes, HistoryTypes, Objects, Plans

(* A pod that stays the same, ends or goes.                                *)
PodGoesOn(r) ==
  \/ Absent(pods'[r])
  \/ /\ ~Absent(pods[r]) /\ configs'[r].body = configs[r].body
     /\ pods'[r].created = pods[r].created
     /\ pods[r].phase = "Ended" => pods'[r].phase = "Ended"

LEMMA RunStaysOver ==
  ASSUME TypeOK, NEW r \in Requests, PodGoesOn(r), TimePasses, RunIsOver(r)
  PROVE  RunIsOver(r)'
<1>1. pods[r].created \in Nat /\ clock \in Nat
  BY StatusTypes DEF ApplyPods
<1> QED BY <1>1, ApplyAssumption, ConfigAssumption
   DEF PodGoesOn, TimePasses, ClockGoesOn, RunIsOver, Finished, Overdue, Absent

LEMMA StaysHonest ==
  ASSUME TypeOK, NEW r \in Requests, PodGoesOn(r), TimePasses,
         starts'[r] = starts[r], ran'[r] = ran[r],
         NEW st, Honest(r, st)
  PROVE  Honest(r, st)'
<1>1. RunIsOver(r) => RunIsOver(r)'
  BY RunStaysOver
<1> QED BY <1>1 DEF Honest, KnowsScript, PodGoesOn, Absent, TimePasses, FaultsStay

(* Nothing that happens to a pod is told by a status without a phase. *)
LEMMA BlankIsHonest ==
  ASSUME NEW r \in Requests, NEW st, st.phase = NoPhase, Honest(r, st)
  PROVE  Honest(r, st)'
BY DEF Honest, KnowsScript, Terminal, NoPhase

LEMMA NoStatusIsHonest ==
  ASSUME NEW r \in Requests
  PROVE  Honest(r, NoStatus) /\ Honest(r, NoStatus)'
BY DEF Honest, KnowsScript, NoStatus, Terminal, NoPhase

LEMMA NewStatuses ==
  /\ NoObject.status = NoStatus /\ NoPlan.status = NoStatus
  /\ NoPlan.dirty = FALSE /\ NoPlan.announce = FALSE /\ NoPlan.pod = FALSE /\ NoPlan.run = NoRun
  /\ NoStatus.phase = NoPhase /\ ~Terminal(NoStatus) /\ NoStatus.script = NoFix
BY DEF NoObject, NoPlan, NoStatus, Terminal, NoPhase

-----------------------------------------------------------------------------
(* A request nothing happens to. *)
LEMMA StaysReported ==
  ASSUME TypeOK, NEW r \in Requests, Reported(r), Stays(r), TimePasses, ListGoesOn
  PROVE  Reported(r)' /\ GoesOn(r)
<1>1. PodGoesOn(r)
  BY DEF Stays, ClusterStays, PodGoesOn, Absent
<1>2. cache'[r] \in {cache[r], requests[r]} /\ copy'[r] = copy[r] /\ plan'[r] = plan[r]
  BY DEF Stays, ListGoesOn, WorkersStay
<1>3. \A st : Honest(r, st) => Honest(r, st)'
  BY <1>1, StaysHonest DEF Stays, ClusterStays
<1>4. AllHonest(r)'
  BY <1>2, <1>3 DEF Reported, AllHonest, Stays
<1>5. Upheld(requests[r].status, requests[r].status)
  BY DEF Upheld
<1>6. Upheld(cache[r].status, requests[r].status)' /\ Upheld(copy[r].status, requests[r].status)'
  BY <1>2, <1>5 DEF Reported, Stays, Upheld
<1>7. PlanHolds(r)' /\ CreatedInOrder(r)' /\ RunsItsScript(r)'
  BY DEF Reported, PlanHolds, CreatedInOrder, RunsItsScript, Stays, WorkersStay, ClusterStays, Absent
<1>8. GoesOn(r)
  BY DEF Stays, GoesOn
<1> QED BY <1>4, <1>6, <1>7, <1>8 DEF Reported, Stays

(* What was admitted once stays exclusive. *)
LEMMA StaysExclusive ==
  ASSUME TypeOK, Exclusive, ListGoesOn,
         \A x \in Requests :
           /\ GoesOn(x)
           /\ Admitted(x)' =>
                Admitted(x) \/ \A a \in Requests : OlderThan(a, x) => Over(requests[a])
  PROVE  Exclusive'
<1>1. \A a, b \in Requests : OlderThan(a, b)' <=> OlderThan(a, b)
  BY DEF GoesOn, OlderThan
<1>2. YoungerWaits'
  <2> SUFFICES ASSUME NEW a \in Requests, NEW b \in Requests, OlderThan(a, b)', Admitted(b)'
               PROVE  Over(requests'[a])
    BY DEF YoungerWaits
  <2>1. Over(requests[a])
    BY <1>1 DEF Exclusive, YoungerWaits
  <2> QED BY <2>1 DEF GoesOn
<1>3. WholeList'
  <2> SUFFICES ASSUME NEW a \in Requests, NEW b \in Requests
               PROVE  /\ OlderThan(a, b)' /\ cache'[b].created # None => cache'[a].created # None
                      /\ cache'[a].created # None /\ ~cache'[a].there => ~requests'[a].there
    BY DEF WholeList
  <2>1. CASE cache' = cache
    BY <1>1, <2>1 DEF Exclusive, WholeList, GoesOn
  <2>2. CASE cache' = requests'
    BY <2>2 DEF OlderThan
  <2> QED BY <2>1, <2>2 DEF ListGoesOn
<1> QED BY <1>2, <1>3 DEF Exclusive

(* A step about one request. *)
LEMMA FocusReported ==
  ASSUME TypeOK, AllReported, Exclusive, TimePasses, ListGoesOn, NEW r \in Requests,
         \A x \in Requests \ {r} : Stays(x),
         Reported(r)', GoesOn(r),
         Admitted(r)' => Admitted(r) \/ \A a \in Requests : OlderThan(a, r) => Over(requests[a])
  PROVE  AllReported' /\ Exclusive'
<1>1. \A x \in Requests \ {r} : Reported(x)' /\ GoesOn(x)
  BY StaysReported DEF AllReported
<1>2. \A x \in Requests \ {r} : Admitted(x)' => Admitted(x)
  BY DEF Stays, WorkersStay, ClusterStays, Admitted, Absent
<1>3. AllReported'
  BY <1>1 DEF AllReported
<1>4. Exclusive'
  BY <1>1, <1>2, StaysExclusive
<1> QED BY <1>3, <1>4

-----------------------------------------------------------------------------
(* A step of the worker alone: its copy is what it was, what it read, or   *)
(* nothing; its plan tells no more than is so.                             *)
ReportStep ==
  UNCHANGED <<requests, cache, pods, configs, starts, ran, announced, clock>> /\ FaultsStay

LEMMA ReportStepFrame ==
  ASSUME TypeOK, ReportStep, NEW r \in Requests,
         \A x \in Requests \ {r} : WorkersStay(x)
  PROVE  /\ TimePasses /\ ListGoesOn /\ \A x \in Requests \ {r} : Stays(x)
         /\ GoesOn(r)
<1>1. clock \in Nat
  BY DEF TypeOK, BoundTypes
<1> QED BY <1>1 DEF ReportStep, TimePasses, ClockGoesOn, ListGoesOn, Stays, ClusterStays, GoesOn,
   Over

LEMMA WorkerKeepsReport ==
  ASSUME TypeOK, ReportStep, NEW r \in Requests, Reported(r),
         copy'[r].status \in {copy[r].status, cache[r].status, NoStatus},
         Honest(r, plan'[r].status), PlanHolds(r)', CreatedInOrder(r)'
  PROVE  Reported(r)'
<1>1. TimePasses /\ PodGoesOn(r)
  BY DEF ReportStep, TimePasses, ClockGoesOn, PodGoesOn, Absent, TypeOK, BoundTypes
<1>2. \A st : Honest(r, st) => Honest(r, st)'
  BY <1>1, StaysHonest DEF ReportStep
<1>3. AllHonest(r)'
  BY <1>2, NoStatusIsHonest DEF Reported, AllHonest, ReportStep
<1>4. Upheld(NoStatus, requests[r].status)
  BY NewStatuses DEF Upheld
<1>5. Upheld(cache[r].status, requests[r].status)' /\ Upheld(copy[r].status, requests[r].status)'
  BY <1>4 DEF Reported, Upheld, ReportStep
<1>6. RunsItsScript(r)'
  BY DEF Reported, RunsItsScript, ReportStep, Absent, Settled
<1> QED BY <1>3, <1>5, <1>6 DEF Reported, ReportStep

LEMMA WorkerReported ==
  ASSUME TypeOK, AllReported, Exclusive, ReportStep, NEW r \in Requests,
         \A x \in Requests \ {r} : WorkersStay(x),
         copy'[r].status \in {copy[r].status, cache[r].status, NoStatus},
         Honest(r, plan'[r].status), PlanHolds(r)', CreatedInOrder(r)',
         Admitted(r)' => Admitted(r) \/ \A a \in Requests : OlderThan(a, r) => Over(requests[a])
  PROVE  AllReported' /\ Exclusive'
<1>1. /\ TimePasses /\ ListGoesOn /\ \A x \in Requests \ {r} : Stays(x)
      /\ GoesOn(r)
  BY ReportStepFrame
<1>2. Reported(r)'
  BY WorkerKeepsReport DEF AllReported
<1> QED BY <1>1, <1>2, FocusReported

LEMMA IdlePlanHolds ==
  ASSUME NEW r \in Requests, pc'[r] \notin {"update", "pending", "pod", "secret", "configmap"},
         plan'[r].status = NoStatus, plan'[r].dirty = FALSE,
         plan'[r].announce = FALSE, plan'[r].pod = FALSE, plan'[r].run = NoRun
  PROVE  PlanHolds(r)' /\ CreatedInOrder(r)'
BY NewStatuses DEF PlanHolds, CreatedInOrder, NoPhase

LEMMA EndValues ==
  ASSUME TypeOK, NEW r \in Requests, EndReconcile(r)
  PROVE  /\ pc'[r] = "idle" /\ copy'[r] = NoObject /\ plan'[r] = NoPlan
         /\ \A x \in Requests \ {r} : WorkersStay(x)
         /\ PlanHolds(r)' /\ CreatedInOrder(r)' /\ (Admitted(r)' => ~Absent(pods'[r]))
<1>1. /\ pc'[r] = "idle" /\ copy'[r] = NoObject /\ plan'[r] = NoPlan
      /\ \A x \in Requests \ {r} : WorkersStay(x)
  BY DEF EndReconcile, WorkersStay, TypeOK, WorkerTypes
<1>2. PlanHolds(r)' /\ CreatedInOrder(r)'
  BY <1>1, NewStatuses, IdlePlanHolds
<1> QED BY <1>1, <1>2 DEF Admitted

LEMMA EndReported ==
  ASSUME TypeOK, AllReported, Exclusive, ReportStep, NEW r \in Requests, EndReconcile(r)
  PROVE  AllReported' /\ Exclusive'
<1>1. /\ pc'[r] = "idle" /\ copy'[r] = NoObject /\ plan'[r] = NoPlan
      /\ \A x \in Requests \ {r} : WorkersStay(x)
      /\ PlanHolds(r)' /\ CreatedInOrder(r)' /\ (Admitted(r)' => ~Absent(pods'[r]))
  BY EndValues
<1>2. Admitted(r)' => Admitted(r)
  BY <1>1 DEF Admitted, ReportStep, Absent
<1> QED BY <1>1, <1>2, NewStatuses, NoStatusIsHonest, WorkerReported

LEMMA ConcludeReported ==
  ASSUME TypeOK, AllReported, Exclusive, ReportStep, NEW r \in Requests,
         NEW st \in ApplyStatuses, NEW run, Conclude(r, st, run),
         Honest(r, st), run # NoRun => st # cache[r].status,
         st.phase = "Running" => ~Terminal(requests[r].status),
         \/ st = cache[r].status
         \/ /\ st.phase # cache[r].status.phase /\ ~Terminal(cache[r].status)
            /\ cache[r].status.script # NoFix => st.script = cache[r].status.script
  PROVE  AllReported' /\ Exclusive'
<1> DEFINE dirty == st # cache[r].status
           announce == Terminal(st) /\ ~Terminal(cache[r].status)
           pod == Terminal(st) /\ ~Absent(pods[r]) /\ ~pods[r].leaving
           expired == Terminal(st) /\ clock >= st.finishedAt + TTL
           p == [NoPlan EXCEPT !.status = st, !.run = run, !.dirty = dirty,
                               !.announce = announce, !.pod = pod, !.expired = expired]
<1>1. /\ p.status = st /\ p.dirty = dirty /\ p.run = run
      /\ p.announce = announce /\ p.pod = pod
  <2> HIDE DEF dirty, announce, pod, expired
  <2> QED BY DEF NoPlan
<1>2. Continue(r, cache[r], p)
  BY DEF Conclude
<1> HIDE DEF p
<1>3. CASE EndReconcile(r)
  BY <1>3, EndReported
<1>4. CASE GoOn(r, "update", cache[r], p)
  <2>1. /\ pc'[r] = "update" /\ copy'[r] = cache[r] /\ plan'[r] = p
        /\ \A x \in Requests \ {r} : WorkersStay(x)
    BY <1>4, WorkerGoesOn
  <2>2. UNCHANGED requests /\ Upheld(cache[r].status, requests[r].status)
    BY DEF ReportStep, AllReported, Reported
  <2>3. PlanHolds(r)'
    BY <1>1, <2>1, <2>2 DEF PlanHolds, Upheld
  <2>4. CreatedInOrder(r)'
    BY <2>1 DEF CreatedInOrder
  <2>5. Admitted(r)' => Admitted(r)
    BY <2>1 DEF Admitted, ReportStep, Absent
  <2> QED BY <1>1, <2>1, <2>3, <2>4, <2>5, WorkerReported
<1> QED BY <1>2, <1>3, <1>4 DEF Continue

-----------------------------------------------------------------------------
(* Observe. *)
LEMMA EndingValues ==
  ASSUME NEW st \in ApplyStatuses, NEW phase, NEW exit, NEW at
  PROVE  /\ Ending(st, phase, exit, at).phase = phase
         /\ Ending(st, phase, exit, at).finishedAt = at
         /\ Ending(st, phase, exit, at).script = st.script
BY DEF Ending, ApplyStatuses

LEMMA EndingIsHonest ==
  ASSUME NEW r \in Requests, NEW st \in ApplyStatuses, Honest(r, st), RunIsOver(r),
         NEW phase \in {"Succeeded", "Failed", "Rejected"}, NEW exit, NEW at, at # None,
         phase = "Succeeded" => starts[r] > 0 /\ st.phase = "Running"
  PROVE  Honest(r, Ending(st, phase, exit, at))
<1> DEFINE new == Ending(st, phase, exit, at)
<1>1. new.phase = phase /\ new.finishedAt = at /\ new.script = st.script
  BY EndingValues
<1> HIDE DEF new
<1>2. Honest(r, new)
  BY <1>1 DEF Honest, KnowsScript, Terminal, NoPhase
<1> QED BY <1>2 DEF new

LEMMA EndedAtSomeTime ==
  ASSUME NEW p \in ApplyPods
  PROVE  EndedAt(p, ApplyTimeout) # None
<1>1. p.created \in Nat /\ p.start \in Nat /\ p.finished \in Nat
  BY DEF ApplyPods
<1> QED BY <1>1, ApplyAssumption, ConfigAssumption DEF EndedAt, Overdue

(* admit lets a request in only when every older one is over. *)
LEMMA AdmittedLast ==
  ASSUME TypeOK, Safe, Exclusive, AllReported, NEW r \in Requests, Observing(r), Admissible(r),
         NEW a \in Requests, OlderThan(a, r)
  PROVE  Over(requests[a])
<1>1. /\ cache[r].created # None => cache[r].created = requests[r].created
      /\ cache[a].created # None => cache[a].created = requests[a].created
      /\ cache[a].deleted => requests[a].deleted
  BY DEF Safe, CopiesFollow, Follows
<1>2. cache[r].created # None
  <2>1. cache[r].created \in Nat /\ policies["policy"] \in Nat
    BY RequestTypes DEF TypeOK, ObjectTypes, Objects
  <2> QED BY <2>1 DEF Admissible, Vouched, TypeOK, ObjectTypes
<1>3. cache[a].created # None
  BY <1>2 DEF Exclusive, WholeList
<1>4. a # r /\ Older(a, r)
  BY <1>1, <1>2, <1>3, StatusTypes DEF OlderThan, Older
<1>5. ~cache[a].there \/ cache[a].deleted \/ Terminal(cache[a].status)
  BY <1>4 DEF Admissible, Busy
<1>6. Terminal(cache[a].status) => Terminal(requests[a].status)
  BY DEF AllReported, Reported, Upheld
<1>7. ~cache[a].there => ~requests[a].there
  BY <1>3 DEF Exclusive, WholeList
<1> QED BY <1>1, <1>5, <1>6, <1>7 DEF Over

LEMMA ObserveReported ==
  ASSUME TypeOK, Safe, AllReported, Exclusive, NEW r \in Requests,
         (\E allowed \in Answers : ObserveNew(r, allowed)) \/ ObserveRun(r) \/ ObserveDeleted(r)
  PROVE  AllReported' /\ Exclusive'
<1> DEFINE old == cache[r].status
<1>1. /\ Observing(r) /\ ReportStep
  BY DEF ObserveNew, ObserveRun, ObserveDeleted, ReportStep, objects, cluster, history, bounds,
     FaultsStay, NothingFailed
<1>2. /\ old \in ApplyStatuses /\ pods[r] \in ApplyPods /\ clock \in Nat /\ clock # None
      /\ configs[r] \in ConfigMaps
  BY StatusTypes DEF Safe
<1>3. /\ Honest(r, old) /\ Honest(r, requests[r].status) /\ RunsItsScript(r)
      /\ Upheld(old, requests[r].status)
  BY DEF AllReported, Reported, AllHonest
<1>4. ASSUME NEW allowed \in Answers, ObserveNew(r, allowed)
      PROVE  AllReported' /\ Exclusive'
  <2>1. CASE Admissible(r) /\ GoOn(r, "pending", cache[r],
                                   [NoPlan EXCEPT !.script = incidentCache.status.howToFix])
    <3> DEFINE p == [NoPlan EXCEPT !.script = incidentCache.status.howToFix]
    <3>1. /\ p.status = NoStatus /\ p.dirty = FALSE /\ p.announce = FALSE /\ p.pod = FALSE
          /\ p.run = NoRun /\ p.script # NoFix
      BY <2>1, ApplyAssumption, FixesAssumption DEF NoPlan, Admissible
    <3> HIDE DEF p
    <3>2. GoOn(r, "pending", cache[r], p)
      BY <2>1 DEF p
    <3>3. /\ pc'[r] = "pending" /\ copy'[r] = cache[r] /\ plan'[r] = p
          /\ \A x \in Requests \ {r} : WorkersStay(x)
      BY <3>2, WorkerGoesOn
    <3>4. PlanHolds(r)' /\ CreatedInOrder(r)'
      BY <3>1, <3>3, NewStatuses DEF PlanHolds, CreatedInOrder, NoPhase
    <3>5. \A a \in Requests : OlderThan(a, r) => Over(requests[a])
      BY <1>1, <2>1, AdmittedLast
    <3> QED BY <1>1, <3>1, <3>3, <3>4, <3>5, NoStatusIsHonest, WorkerReported
  <2>2. CASE Conclude(r, Ending(old, "Rejected", NoExit, clock), NoRun)
    <3> DEFINE st == Ending(old, "Rejected", NoExit, clock)
    <3>1. old.phase = NoPhase /\ RunIsOver(r)
      BY <1>4 DEF ObserveNew, RunIsOver
    <3>2. /\ st \in ApplyStatuses /\ st.phase = "Rejected" /\ st.script = old.script
      <4>1. "Rejected" \in Phases /\ NoExit \in Exits
        BY DEF Phases, Exits
      <4> QED BY <1>2, <4>1, EndingTypes, EndingValues
    <3>3. Honest(r, st)
      BY <1>2, <1>3, <3>1, EndingIsHonest
    <3>4. Conclude(r, st, NoRun)
      BY <2>2
    <3> HIDE DEF st
    <3> QED BY <1>1, <3>1, <3>2, <3>3, <3>4, ConcludeReported, PhasesDiffer DEF Terminal
  <2> QED BY <1>4, <2>1, <2>2 DEF ObserveNew
<1>5. CASE ObserveRun(r)
  <2> DEFINE st == IF old.phase = NoPhase THEN Started(r) ELSE old
             run == [exit |-> ExitOf(pods[r]), at |-> EndedAt(pods[r], ApplyTimeout)]
  <2>1. /\ Started(r) \in ApplyStatuses /\ Started(r).phase = "Running"
        /\ Started(r).script = configs[r].body /\ Started(r).finishedAt = old.finishedAt
    BY <1>2 DEF Started, ApplyStatuses, Phases, ConfigMaps
  <2>2. st \in ApplyStatuses /\ st.phase # NoPhase
    BY <1>2, <2>1, PhasesDiffer
  <2>3. Honest(r, st)
    <3>1. CASE old.phase = NoPhase
      <4>1. ~Absent(pods[r]) /\ ~Terminal(old)
        BY <1>5, <3>1, PhasesDiffer DEF ObserveRun, Terminal
      <4>2. Honest(r, Started(r))
        BY <1>3, <2>1, <4>1, PhasesDiffer DEF Honest, KnowsScript, Terminal, RunsItsScript
      <4> QED BY <3>1, <4>2
    <3> QED BY <1>3, <3>1
  <2>4. /\ old.phase = NoPhase => old.script = NoFix /\ st.phase = "Running" /\ st # old
        /\ old.phase # NoPhase => st = old
    BY <1>3, <2>1, PhasesDiffer DEF Honest
  <2>5. \/ st.phase = "Running" /\ Absent(pods[r]) /\ Conclude(r, Ending(st, "Failed", NoExit, clock), NoRun)
        \/ /\ st.phase = "Running" /\ ~Absent(pods[r]) /\ Finished(pods[r], ApplyTimeout, clock)
           /\ Conclude(r, FinishedRun(r, st), run)
        \/ (st.phase = "Running" => ~RunIsOver(r)) /\ Conclude(r, st, NoRun)
    BY <1>5 DEF ObserveRun, RunIsOver
  <2> HIDE DEF st, run
  <2>6. ASSUME st.phase = "Running", RunIsOver(r),
               NEW phase \in {"Succeeded", "Failed"}, NEW exit \in Exits, NEW at \in Nat, at # None,
               phase = "Succeeded" => starts[r] > 0, NEW run1,
               Conclude(r, Ending(st, phase, exit, at), run1)
        PROVE  AllReported' /\ Exclusive'
    <3> DEFINE end == Ending(st, phase, exit, at)
    <3>1. end \in ApplyStatuses /\ end.phase = phase /\ end.script = st.script
      BY <2>2, <2>6, EndingTypes, EndingValues DEF Phases
    <3>2. Honest(r, end)
      BY <2>2, <2>3, <2>6, EndingIsHonest
    <3> HIDE DEF end
    <3>3. end.phase # "Running" /\ end.phase # old.phase /\ ~Terminal(old)
      BY <2>4, <2>6, <3>1, PhasesDiffer DEF Terminal
    <3>4. old.script # NoFix => end.script = old.script
      BY <2>4, <3>1
    <3>5. Conclude(r, end, run1)
      BY <2>6 DEF end
    <3> QED BY <1>1, <3>1, <3>2, <3>3, <3>4, <3>5, ConcludeReported
  <2>7. CASE st.phase = "Running" /\ Absent(pods[r]) /\ Conclude(r, Ending(st, "Failed", NoExit, clock), NoRun)
    BY <1>2, <2>6, <2>7 DEF RunIsOver, Exits
  <2>8. CASE /\ st.phase = "Running" /\ ~Absent(pods[r]) /\ Finished(pods[r], ApplyTimeout, clock)
             /\ Conclude(r, FinishedRun(r, st), run)
    <3> DEFINE phase == IF ExitOf(pods[r]) = 0 THEN "Succeeded" ELSE "Failed"
               at == EndedAt(pods[r], ApplyTimeout)
    <3>1. ExitOf(pods[r]) \in Exits /\ at \in Nat /\ at # None
      BY <1>2, RunTypes, EndedAtSomeTime
    <3>2. phase = "Succeeded" => starts[r] > 0
      BY <1>3 DEF ExitOf, RunsItsScript
    <3>3. Conclude(r, Ending(st, phase, ExitOf(pods[r]), at), run)
      BY <2>8 DEF FinishedRun
    <3>4. phase \in {"Succeeded", "Failed"}
      OBVIOUS
    <3> HIDE DEF phase, at
    <3> QED BY <2>6, <2>8, <3>1, <3>2, <3>3, <3>4 DEF RunIsOver
  <2>9. CASE (st.phase = "Running" => ~RunIsOver(r)) /\ Conclude(r, st, NoRun)
    <3>1. st.phase = "Running" => ~Terminal(requests[r].status)
      BY <1>3, <2>9 DEF Honest
    <3>2. \/ st = old
          \/ st.phase # old.phase /\ ~Terminal(old) /\ (old.script # NoFix => st.script = old.script)
      BY <2>2, <2>4, PhasesDiffer DEF Terminal
    <3> QED BY <1>1, <2>2, <2>3, <2>9, <3>1, <3>2, ConcludeReported
  <2> QED BY <2>5, <2>7, <2>8, <2>9
<1>6. CASE ObserveDeleted(r)
  <2>1. /\ pc'[r] \in {"finalize", "delete"} /\ copy'[r] = cache[r] /\ plan'[r] = NoPlan
        /\ \A x \in Requests \ {r} : WorkersStay(x)
    BY <1>6, WorkerGoesOn DEF ObserveDeleted
  <2>2. PlanHolds(r)' /\ CreatedInOrder(r)'
    BY <2>1, NewStatuses, IdlePlanHolds
  <2>3. Admitted(r)' => Admitted(r)
    BY <1>1, <2>1 DEF Admitted, ReportStep, Absent
  <2> QED BY <1>1, <2>1, <2>2, <2>3, NewStatuses, NoStatusIsHonest, WorkerReported
<1> QED BY <1>4, <1>5, <1>6

-----------------------------------------------------------------------------
(* A write of the request. *)
OnlyRequests == UNCHANGED <<pods, configs, starts, ran, announced, clock>> /\ FaultsStay

LEMMA WriteFrame ==
  ASSUME TypeOK, OnlyRequests, NEW r \in Requests, NEW o \in Objects, SetRequest(r, o),
         \A x \in Requests \ {r} : WorkersStay(x)
  PROVE  /\ TimePasses /\ ListGoesOn /\ \A x \in Requests \ {r} : Stays(x)
         /\ PodGoesOn(r)
         /\ requests'[r].there = o.there /\ requests'[r].deleted = o.deleted
         /\ requests'[r].created = o.created /\ requests'[r].status = o.status
<1> DEFINE new == [o EXCEPT !.version = @ + 1]
<1>1. /\ new.there = o.there /\ new.deleted = o.deleted
      /\ new.created = o.created /\ new.status = o.status
  BY DEF Objects
<1>2. (requests' = requests /\ o = requests[r]) \/ requests' = [requests EXCEPT ![r] = new]
  BY DEF SetRequest
<1> HIDE DEF new
<1>3. /\ requests'[r].there = o.there /\ requests'[r].deleted = o.deleted
      /\ requests'[r].created = o.created /\ requests'[r].status = o.status
      /\ \A x \in Requests \ {r} : requests'[x] = requests[x]
  BY <1>1, <1>2 DEF TypeOK, ObjectTypes
<1>4. ListGoesOn
  BY DEF SetRequest, ListGoesOn
<1>5. clock \in Nat
  BY DEF TypeOK, BoundTypes
<1> QED BY <1>3, <1>4, <1>5 DEF OnlyRequests, TimePasses, ClockGoesOn, Stays, ClusterStays,
   PodGoesOn, Absent

(* One that tells what is so, and takes nothing back. *)
LEMMA StatusReported ==
  ASSUME TypeOK, AllReported, Exclusive, OnlyRequests, NEW r \in Requests, NEW o \in Objects,
         SetRequest(r, o), o.created = requests[r].created,
         requests[r].deleted => o.deleted, ~requests[r].there => ~o.there,
         Honest(r, o.status)', Upheld(requests[r].status, o.status),
         requests[r].status.phase # NoPhase => o.status.phase # NoPhase,
         \A x \in Requests \ {r} : WorkersStay(x),
         copy'[r].status \in {copy[r].status, o.status, NoStatus},
         Honest(r, plan'[r].status), PlanHolds(r)', CreatedInOrder(r)',
         Admitted(r)' => Admitted(r)
  PROVE  AllReported' /\ Exclusive'
<1>1. /\ TimePasses /\ ListGoesOn /\ \A x \in Requests \ {r} : Stays(x)
      /\ PodGoesOn(r)
      /\ requests'[r].there = o.there /\ requests'[r].deleted = o.deleted
      /\ requests'[r].created = o.created /\ requests'[r].status = o.status
  BY WriteFrame
<1>2. Reported(r)
  BY DEF AllReported
<1>3. \A st : Honest(r, st) => Honest(r, st)'
  BY <1>1, StaysHonest DEF OnlyRequests
<1>4. cache'[r].status \in {cache[r].status, o.status}
  BY <1>1 DEF ListGoesOn
<1>5. AllHonest(r)'
  BY <1>1, <1>2, <1>3, <1>4, NoStatusIsHonest DEF Reported, AllHonest
<1>6. Upheld(NoStatus, o.status) /\ Upheld(o.status, o.status)
  BY NewStatuses DEF Upheld
<1>7. Upheld(cache[r].status, requests[r].status)' /\ Upheld(copy[r].status, requests[r].status)'
  BY <1>1, <1>2, <1>4, <1>6 DEF Reported, Upheld
<1>8. RunsItsScript(r)'
  BY <1>1, <1>2 DEF Reported, RunsItsScript, OnlyRequests, Absent, Settled
<1>9. GoesOn(r)
  BY <1>1 DEF GoesOn, Over, Upheld
<1>10. Reported(r)'
  BY <1>1, <1>2, <1>5, <1>7, <1>8 DEF Reported, OnlyRequests, Upheld
<1> QED BY <1>1, <1>9, <1>10, FocusReported

LEMMA WriteReported ==
  ASSUME TypeOK, AllReported, Exclusive, OnlyRequests, NEW r \in Requests, NEW o \in Objects,
         SetRequest(r, o),
         o.created = requests[r].created, o.status = requests[r].status,
         requests[r].deleted => o.deleted, ~requests[r].there => ~o.there,
         \A x \in Requests \ {r} : WorkersStay(x),
         copy'[r].status \in {copy[r].status, requests[r].status, NoStatus},
         Honest(r, plan'[r].status), PlanHolds(r)', CreatedInOrder(r)',
         Admitted(r)' => Admitted(r)
  PROVE  AllReported' /\ Exclusive'
<1>1. TimePasses /\ PodGoesOn(r)
  BY WriteFrame
<1>2. PICK st : st = o.status
  OBVIOUS
<1>3. Honest(r, st)
  BY <1>2 DEF AllReported, Reported, AllHonest
<1>4. Honest(r, o.status)'
  BY <1>1, <1>2, <1>3, StaysHonest DEF OnlyRequests
<1>5. Upheld(requests[r].status, o.status)
  BY DEF Upheld
<1> QED BY <1>4, <1>5, StatusReported

LEMMA WriteEndReported ==
  ASSUME TypeOK, AllReported, Exclusive, OnlyRequests, NEW r \in Requests, NEW o \in Objects,
         SetRequest(r, o),
         o.created = requests[r].created, o.status = requests[r].status,
         requests[r].deleted => o.deleted, ~requests[r].there => ~o.there,
         EndReconcile(r)
  PROVE  AllReported' /\ Exclusive'
<1>1. /\ pc'[r] = "idle" /\ copy'[r] = NoObject /\ plan'[r] = NoPlan
      /\ \A x \in Requests \ {r} : WorkersStay(x)
      /\ PlanHolds(r)' /\ CreatedInOrder(r)' /\ (Admitted(r)' => ~Absent(pods'[r]))
  BY EndValues
<1>2. Admitted(r)' => Admitted(r)
  BY <1>1 DEF Admitted, OnlyRequests, Absent
<1> QED BY <1>1, <1>2, NewStatuses, NoStatusIsHonest, WriteReported

LEMMA MarkDeletedReported ==
  ASSUME TypeOK, AllReported, Exclusive, NEW r \in Requests, MarkDeleted(r), OnlyRequests,
         EndReconcile(r) \/ UNCHANGED workers
  PROVE  AllReported' /\ Exclusive'
<1>1. requests[r] \in Objects /\ Reported(r)
  BY RequestTypes DEF AllReported
<1>2. CASE KeepRequests
  <2>1. ReportStep
    BY <1>2 DEF ReportStep, KeepRequests, OnlyRequests
  <2>2. CASE EndReconcile(r)
    BY <2>1, <2>2, EndReported
  <2>3. CASE UNCHANGED workers
    <3>1. /\ WorkersStay(r) /\ \A x \in Requests \ {r} : WorkersStay(x)
      BY <2>3 DEF workers, WorkersStay
    <3>2. PlanHolds(r)' /\ CreatedInOrder(r)'
      BY <1>1, <2>1, <3>1 DEF Reported, PlanHolds, CreatedInOrder, WorkersStay, ReportStep, Absent,
         Settled
    <3>3. Admitted(r)' => Admitted(r)
      BY <2>1, <3>1 DEF Admitted, ReportStep, WorkersStay, Absent
    <3> QED BY <1>1, <2>1, <3>1, <3>2, <3>3, WorkerReported DEF WorkersStay, Reported, AllHonest
  <2> QED BY <2>2, <2>3
<1>3. CASE requests[r].there /\ SetRequest(r, [requests[r] EXCEPT !.deleted = TRUE])
  <2> DEFINE o == [requests[r] EXCEPT !.deleted = TRUE]
  <2>1. /\ o \in Objects /\ o.created = requests[r].created /\ o.deleted = TRUE
        /\ o.status = requests[r].status /\ o.there = requests[r].there
    BY <1>1 DEF Objects
  <2>2. SetRequest(r, o)
    BY <1>3
  <2> HIDE DEF o
  <2>3. CASE EndReconcile(r)
    BY <2>1, <2>2, <2>3, WriteEndReported
  <2>4. CASE UNCHANGED workers
    <3>1. /\ WorkersStay(r) /\ \A x \in Requests \ {r} : WorkersStay(x)
      BY <2>4 DEF workers, WorkersStay
    <3>2. requests'[r].status = requests[r].status /\ requests'[r].deleted = TRUE
      BY <2>1, <2>2, <3>1, WriteFrame
    <3>3. PlanHolds(r)'
      BY <1>1, <3>1, <3>2 DEF Reported, PlanHolds, WorkersStay
    <3>4. CreatedInOrder(r)'
      BY <1>1, <3>1, <3>2 DEF Reported, CreatedInOrder, WorkersStay, OnlyRequests, Absent, Settled
    <3>5. Admitted(r)' => Admitted(r)
      BY <3>1 DEF Admitted, OnlyRequests, WorkersStay, Absent
    <3> QED BY <1>1, <2>1, <2>2, <3>1, <3>3, <3>4, <3>5, WriteReported DEF WorkersStay, Reported,
       AllHonest
  <2> QED BY <2>3, <2>4
<1> QED BY <1>2, <1>3 DEF MarkDeleted

-----------------------------------------------------------------------------
(* A step that changes what the cluster has of a request.                  *)
OnlyCluster == UNCHANGED <<requests, cache, announced, clock>> /\ FaultsStay

ToldNow(r) == {requests[r].status, cache[r].status, copy[r].status, plan[r].status}

LEMMA ClusterReported ==
  ASSUME TypeOK, AllReported, Exclusive, OnlyCluster, NEW r \in Requests,
         \A x \in Requests \ {r} : WorkersStay(x) /\ ClusterStays(x),
         copy'[r].status \in {copy[r].status, NoStatus},
         plan'[r].status \in {plan[r].status, NoStatus},
         \A st \in ToldNow(r) : Honest(r, st)',
         PlanHolds(r)', CreatedInOrder(r)', RunsItsScript(r)', Admitted(r)' => Admitted(r)
  PROVE  AllReported' /\ Exclusive'
<1>1. Reported(r) /\ clock \in Nat
  BY DEF AllReported, TypeOK, BoundTypes
<1>2. AllHonest(r)'
  BY NoStatusIsHonest DEF AllHonest, OnlyCluster, ToldNow
<1>3. Upheld(NoStatus, requests[r].status)
  BY NewStatuses DEF Upheld
<1>4. Upheld(cache[r].status, requests[r].status)' /\ Upheld(copy[r].status, requests[r].status)'
  BY <1>1, <1>3 DEF Reported, Upheld, OnlyCluster
<1>5. Reported(r)'
  BY <1>1, <1>2, <1>4 DEF Reported, OnlyCluster
<1>6. /\ TimePasses /\ ListGoesOn /\ GoesOn(r) /\ \A x \in Requests \ {r} : Stays(x)
  BY <1>1 DEF OnlyCluster, TimePasses, ClockGoesOn, ListGoesOn, GoesOn, Over, Stays
<1> QED BY <1>5, <1>6, FocusReported

(* Before a request has a phase no status tells anything of it. *)
LEMMA NothingTold ==
  ASSUME TypeOK, Safe, AllReported, NEW r \in Requests, requests[r].status.phase = NoPhase,
         pc[r] \in {"pod", "secret", "configmap"}
  PROVE  \A st \in ToldNow(r) : Honest(r, st)'
<1>1. \A st \in ToldNow(r) : Honest(r, st)
  BY DEF AllReported, Reported, AllHonest, ToldNow
<1>2. cache[r].status.phase = NoPhase /\ copy[r].status.phase = NoPhase
  BY DEF Safe, CopiesFollow, Follows
<1>3. plan[r].status.phase = NoPhase
  BY NewStatuses DEF AllReported, Reported, PlanHolds
<1>4. \A st \in ToldNow(r) : st.phase = NoPhase
  BY <1>2, <1>3 DEF ToldNow
<1> QED BY <1>1, <1>4, BlankIsHonest

LEMMA CreateReported ==
  ASSUME TypeOK, Safe, AllReported, Exclusive, NEW r \in Requests,
         WritePending(r) \/ CreatePod(r) \/ CreateSecret(r) \/ CreateConfigMap(r) \/ Annotate(r)
  PROVE  AllReported' /\ Exclusive'
<1>1. /\ pc[r] \in {"pending", "pod", "secret", "configmap", "annotate"}
      /\ Reported(r) /\ WorkerKnows(r) /\ CopiesFollow(r)
      /\ requests[r] \in Objects /\ copy[r] \in Objects /\ pods[r] \in ApplyPods
      /\ configs[r] \in ConfigMaps
      /\ PlanHolds(r) /\ CreatedInOrder(r) /\ RunsItsScript(r) /\ AllHonest(r)
      /\ Honest(r, plan[r].status)
  BY RequestTypes, StatusTypes DEF Safe, AllReported, Reported, AllHonest, WritePending, CreatePod,
     CreateSecret, CreateConfigMap, Annotate
<1>2. CASE WritePending(r)
  <2> DEFINE o == [copy[r] EXCEPT !.incomplete = TRUE]
  <2>1. CASE KeepRequests /\ EndReconcile(r)
    <3>1. ReportStep
      BY <1>2, <2>1 DEF WritePending, ReportStep, KeepRequests, cluster, history, bounds,
         FaultsStay, NothingFailed
    <3> QED BY <2>1, <3>1, EndReported
  <2>2. CASE /\ requests[r].there /\ copy[r].version = requests[r].version
             /\ SetRequest(r, o) /\ GoOn(r, "pod", requests'[r], plan[r])
    <3>1. copy[r] = requests[r] /\ pc[r] = "pending"
      BY <1>1, <1>2, <2>2 DEF CopiesFollow, Follows, WritePending
    <3>2. /\ o \in Objects /\ o.created = requests[r].created /\ o.there = requests[r].there
          /\ o.deleted = requests[r].deleted /\ o.status = requests[r].status
      BY <1>1, <3>1 DEF Objects
    <3> HIDE DEF o
    <3>3. OnlyRequests
      BY <1>2 DEF WritePending, OnlyRequests, cluster, history, bounds, FaultsStay, NothingFailed
    <3>4. /\ pc'[r] = "pod" /\ copy'[r] = requests'[r] /\ plan'[r] = plan[r]
          /\ \A x \in Requests \ {r} : WorkersStay(x)
      BY <2>2, WorkerGoesOn
    <3>5. requests'[r].status = requests[r].status
      BY <2>2, <3>2, <3>3, <3>4, WriteFrame
    <3>6. requests[r].status.phase = NoPhase /\ configs[r].owner = "none" /\ plan[r].script # NoFix
      BY <1>1, <3>1 DEF WorkerKnows, RunsItsScript, CreatedInOrder, Settled
    <3>7. PlanHolds(r)'
      BY <1>1, <3>1, <3>4, <3>5 DEF PlanHolds
    <3>8. CreatedInOrder(r)'
      BY <3>3, <3>4, <3>5, <3>6 DEF CreatedInOrder, OnlyRequests
    <3>9. Admitted(r)
      BY <3>1 DEF Admitted
    <3> QED BY <1>1, <2>2, <3>2, <3>3, <3>4, <3>5, <3>7, <3>8, <3>9, WriteReported
  <2> QED BY <1>2, <2>1, <2>2 DEF WritePending
<1>3. CASE CreatePod(r)
  <2>1. /\ pc[r] = "pod" /\ Absent(pods[r]) /\ requests[r].status.phase = NoPhase /\ starts[r] = 0
        /\ configs[r].owner = "none" /\ plan[r].script # NoFix
    BY <1>1, <1>3 DEF CreatePod, WorkerKnows, CreatedInOrder
  <2>2. pods' = [pods EXCEPT ![r] = ApplyPod(clock)]
    BY <1>3, <2>1 DEF CreatePod
  <2>3. pods'[r].phase = "Pending" /\ pods'[r].code = NoExit
    BY <2>2 DEF ApplyPod, NoPod, TypeOK, ClusterTypes
  <2>4. /\ pc'[r] = "secret" /\ copy'[r] = copy[r] /\ plan'[r] = plan[r]
        /\ \A x \in Requests \ {r} : WorkersStay(x)
    BY <1>3, WorkerGoesOn DEF CreatePod
  <2>5. OnlyCluster /\ UNCHANGED <<configs, starts, ran>>
    BY <1>3 DEF CreatePod, OnlyCluster, objects, history, bounds, FaultsStay, NothingFailed
  <2>6. \A x \in Requests \ {r} : ClusterStays(x)
    BY <2>2, <2>5 DEF ClusterStays, TypeOK, ClusterTypes
  <2>7. \A st \in ToldNow(r) : Honest(r, st)'
    BY <2>1, NothingTold
  <2>8. PlanHolds(r)'
    BY <1>1, <2>1, <2>4, <2>5 DEF PlanHolds, OnlyCluster
  <2>9. CreatedInOrder(r)' /\ RunsItsScript(r)'
    BY <1>1, <2>1, <2>3, <2>4, <2>5 DEF CreatedInOrder, RunsItsScript, OnlyCluster, Absent
  <2>10. Admitted(r)
    BY <2>1 DEF Admitted
  <2> QED BY <2>4, <2>5, <2>6, <2>7, <2>8, <2>9, <2>10, ClusterReported
<1>4. CASE CreateSecret(r)
  <2>1. ReportStep /\ pc[r] = "secret"
    BY <1>4 DEF CreateSecret, ReportStep, objects, history, bounds, FaultsStay, NothingFailed
  <2>2. /\ pc'[r] = "configmap" /\ copy'[r] = copy[r] /\ plan'[r] = plan[r]
        /\ \A x \in Requests \ {r} : WorkersStay(x)
    BY <1>4, WorkerGoesOn DEF CreateSecret
  <2>3. PlanHolds(r)' /\ CreatedInOrder(r)'
    BY <1>1, <2>1, <2>2 DEF PlanHolds, CreatedInOrder, ReportStep, Absent, Settled
  <2>4. Admitted(r)' => Admitted(r)
    BY <2>1, <2>2 DEF Admitted, ReportStep, Absent
  <2> QED BY <1>1, <2>1, <2>2, <2>3, <2>4, WorkerReported
<1>5. CASE CreateConfigMap(r)
  <2>1. /\ pc[r] = "configmap" /\ requests[r].status.phase = NoPhase /\ plan[r].script # NoFix
        /\ Absent(pods[r]) => Settled(requests[r])
    BY <1>1, <1>5 DEF CreateConfigMap, CreatedInOrder
  <2>2. /\ pc'[r] = "annotate" /\ copy'[r] = copy[r] /\ plan'[r] = plan[r]
        /\ \A x \in Requests \ {r} : WorkersStay(x)
    BY <1>5, WorkerGoesOn DEF CreateConfigMap
  <2>3. OnlyCluster /\ UNCHANGED <<pods, starts, ran>>
    BY <1>5 DEF CreateConfigMap, OnlyCluster, objects, history, bounds, FaultsStay, NothingFailed
  <2>4. \/ configs' = configs
        \/ /\ configs[r].owner = "none"
           /\ configs' = [configs EXCEPT ![r] = [owner |-> OwnerOf(r), body |-> plan[r].script]]
    BY <1>5 DEF CreateConfigMap
  <2>5. \A x \in Requests \ {r} : ClusterStays(x)
    BY <2>3, <2>4 DEF ClusterStays, TypeOK, ClusterTypes
  <2>6. \A st \in ToldNow(r) : Honest(r, st)'
    BY <2>1, NothingTold
  <2>7. PlanHolds(r)' /\ CreatedInOrder(r)'
    BY <1>1, <2>1, <2>2, <2>3 DEF PlanHolds, CreatedInOrder, OnlyCluster
  <2>8. RunsItsScript(r)'
    <3>1. CASE configs' = configs
      BY <1>1, <2>3, <3>1 DEF RunsItsScript, OnlyCluster, Absent, Settled
    <3>2. CASE /\ configs[r].owner = "none"
               /\ configs'[r] = [owner |-> OwnerOf(r), body |-> plan[r].script]
      BY <1>1, <2>1, <2>3, <3>2 DEF RunsItsScript, OnlyCluster, OwnerOf, Absent, Settled
    <3> QED BY <2>4, <3>1, <3>2 DEF TypeOK, ClusterTypes
  <2>9. Admitted(r)' => Admitted(r)
    BY <2>2, <2>3 DEF Admitted, Absent
  <2> QED BY <2>2, <2>3, <2>5, <2>6, <2>7, <2>8, <2>9, ClusterReported
<1>6. CASE Annotate(r)
  <2> DEFINE o == [requests[r] EXCEPT !.incomplete = FALSE]
  <2>1. CASE KeepRequests
    <3>1. ReportStep /\ EndReconcile(r)
      BY <1>6, <2>1 DEF Annotate, ReportStep, KeepRequests, cluster, history, bounds, FaultsStay,
         NothingFailed
    <3> QED BY <3>1, EndReported
  <2>2. CASE SetRequest(r, o)
    <3>1. /\ o \in Objects /\ o.created = requests[r].created /\ o.there = requests[r].there
          /\ o.deleted = requests[r].deleted /\ o.status = requests[r].status
      BY <1>1 DEF Objects
    <3> HIDE DEF o
    <3>2. OnlyRequests /\ EndReconcile(r)
      BY <1>6 DEF Annotate, OnlyRequests, cluster, history, bounds, FaultsStay, NothingFailed
    <3> QED BY <2>2, <3>1, <3>2, WriteEndReported
  <2> QED BY <1>6, <2>1, <2>2 DEF Annotate
<1> QED BY <1>2, <1>3, <1>4, <1>5, <1>6

-----------------------------------------------------------------------------
(* Update: the patch writes what the plan says, and takes nothing back.    *)
LEMMA PatchValues ==
  ASSUME TypeOK, Safe, AllReported, NEW r \in Requests, pc[r] = "update", plan[r].dirty,
         NEW st, st = Patched(requests[r].status, copy[r].status, plan[r].status)
  PROVE  /\ st \in ApplyStatuses /\ st.phase = plan[r].status.phase
         /\ Honest(r, st) /\ Upheld(requests[r].status, st)
<1> DEFINE old == requests[r].status
           from == copy[r].status
           to == plan[r].status
<1>1. old \in ApplyStatuses /\ from \in ApplyStatuses /\ to \in ApplyStatuses
  BY StatusTypes
<1>2. Honest(r, old) /\ Honest(r, from) /\ Honest(r, to) /\ Upheld(from, old)
  BY DEF AllReported, Reported, AllHonest
<1>3. /\ to.phase = "Running" => ~Terminal(old)
      /\ to.phase # from.phase /\ ~Terminal(from)
      /\ from.script # NoFix => to.script = from.script
  BY DEF AllReported, Reported, PlanHolds
<1>4. to.phase # NoPhase
  BY DEF Safe, WorkerKnows
<1> HIDE DEF old, from, to
<1>5. st = Patched(old, from, to)
  BY DEF old, from, to
<1>6. /\ st.phase = IF to.phase # from.phase THEN to.phase ELSE old.phase
      /\ st.script = IF to.script # from.script THEN to.script ELSE old.script
      /\ st.finishedAt = IF to.finishedAt # from.finishedAt THEN to.finishedAt ELSE old.finishedAt
  BY <1>1, <1>5 DEF Patched, ApplyStatuses
<1>7. st \in ApplyStatuses
  BY <1>1, <1>5, PatchedType
<1>8. st.phase = to.phase
  BY <1>3, <1>6
<1>9. Terminal(to) \/ to.phase = "Running"
  BY <1>1, <1>4 DEF Terminal, ApplyStatuses, Phases, NoPhase
<1>10. Terminal(old) => Terminal(st)
  BY <1>3, <1>8, <1>9 DEF Terminal
<1>11. old.script # NoFix => st.script # NoFix
  BY <1>3, <1>6
<1>12. Terminal(st) <=> st.finishedAt # None
  <2>1. from.finishedAt = None
    BY <1>2, <1>3 DEF Honest
  <2>2. CASE Terminal(to)
    BY <1>2, <1>6, <1>8, <2>1, <2>2 DEF Honest, Terminal
  <2>3. CASE ~Terminal(to)
    BY <1>2, <1>3, <1>6, <1>8, <1>9, <2>3 DEF Honest, Terminal
  <2> QED BY <2>2, <2>3
<1>13. Terminal(st) => RunIsOver(r)
  BY <1>2, <1>8 DEF Honest, Terminal
<1>14. /\ KnowsScript(st) /\ ~Absent(pods[r]) => st.script = configs[r].body
       /\ KnowsScript(st) /\ starts[r] > 0 => st.script = ran[r]
  <2>1. CASE to.script # from.script
    BY <1>2, <1>6, <1>8, <2>1 DEF Honest, KnowsScript
  <2>2. CASE to.script = from.script
    BY <1>2, <1>6, <1>8, <2>2 DEF Honest, KnowsScript, Upheld
  <2> QED BY <2>1, <2>2
<1>15. Honest(r, st)
  BY <1>2, <1>4, <1>8, <1>12, <1>13, <1>14 DEF Honest
<1>16. Upheld(old, st)
  BY <1>10, <1>11 DEF Upheld
<1> QED BY <1>7, <1>8, <1>15, <1>16 DEF old, to

LEMMA PatchReported ==
  ASSUME TypeOK, Safe, AllReported, Exclusive, NEW r \in Requests, PatchStatus(r)
  PROVE  AllReported' /\ Exclusive'
<1> DEFINE st == Patched(requests[r].status, copy[r].status, plan[r].status)
           o == [requests[r] EXCEPT !.status = st]
           clean == [plan[r] EXCEPT !.dirty = FALSE]
<1>1. /\ pc[r] = "update" /\ plan[r].dirty /\ plan[r].run = NoRun /\ Reported(r)
      /\ requests[r] \in Objects /\ plan[r] \in Plans /\ plan[r].status.phase # NoPhase
      /\ PlanHolds(r) /\ RunsItsScript(r) /\ AllHonest(r) /\ Upheld(cache[r].status, requests[r].status)
      /\ announced[r] > 0 => Terminal(requests[r].status)
  BY RequestTypes DEF PatchStatus, Safe, WorkerKnows, AllReported, Reported
<1>2. /\ st \in ApplyStatuses /\ st.phase = plan[r].status.phase
      /\ Honest(r, st) /\ Upheld(requests[r].status, st)
  BY <1>1, PatchValues
<1>3. CASE KeepRequests /\ EndReconcile(r)
  <2>1. ReportStep
    BY <1>3 DEF PatchStatus, ReportStep, KeepRequests, cluster, history, bounds, FaultsStay,
       NothingFailed
  <2> QED BY <1>3, <2>1, EndReported
<1>4. CASE SetRequest(r, o) /\ Continue(r, requests'[r], clean)
  <2> HIDE DEF st
  <2>1. /\ o \in Objects /\ o.created = requests[r].created /\ o.there = requests[r].there
        /\ o.deleted = requests[r].deleted /\ o.status = st
    BY <1>1, <1>2 DEF Objects
  <2>2. /\ clean.status = plan[r].status /\ clean.dirty = FALSE
        /\ clean.announce = plan[r].announce /\ clean.pod = plan[r].pod /\ clean.run = NoRun
    BY <1>1 DEF Plans
  <2> HIDE DEF o, clean
  <2>3. OnlyRequests
    BY DEF PatchStatus, OnlyRequests, cluster, history, bounds, FaultsStay, NothingFailed
  <2>4. /\ EndReconcile(r)
             \/ (pc'[r] = "update" /\ copy'[r] = requests'[r] /\ plan'[r] = clean)
        /\ \A x \in Requests \ {r} : WorkersStay(x)
    BY <1>4, WorkerContinues, WorkerGoesOn DEF Continue
  <2>5. TimePasses /\ PodGoesOn(r) /\ requests'[r].status = st
    BY <1>4, <2>1, <2>3, <2>4, WriteFrame
  <2>6. copy'[r].status \in {st, NoStatus} /\ plan'[r].status \in {plan[r].status, NoStatus}
    BY <2>2, <2>4, <2>5, EndValues, NewStatuses
  <2>7. PlanHolds(r)' /\ CreatedInOrder(r)'
    <3>1. CASE EndReconcile(r)
      BY <3>1, EndValues
    <3>2. CASE pc'[r] = "update" /\ plan'[r] = clean
      <4>1. PlanHolds(r)'
        BY <1>1, <1>2, <2>2, <2>5, <3>2 DEF PlanHolds, Terminal
      <4>2. CreatedInOrder(r)'
        BY <3>2 DEF CreatedInOrder
      <4> QED BY <4>1, <4>2
    <3> QED BY <2>4, <3>1, <3>2
  <2>8. /\ \E new : new = st /\ Honest(r, new)'
        /\ Honest(r, plan'[r].status)
    <3>1. PICK new : new = st
      OBVIOUS
    <3>2. Honest(r, new)'
      BY <1>2, <2>3, <2>5, <3>1, StaysHonest DEF OnlyRequests
    <3>3. Honest(r, plan'[r].status)
      BY <1>1, <2>6, NoStatusIsHonest DEF AllHonest
    <3> QED BY <3>1, <3>2, <3>3
  <2>9. Admitted(r)' => Admitted(r)
    BY <2>3, <2>4, EndValues DEF Admitted, OnlyRequests, Absent
  <2> QED BY <1>1, <1>2, <1>4, <2>1, <2>3, <2>4, <2>6, <2>7, <2>8, <2>9, StatusReported
<1> QED BY <1>3, <1>4 DEF PatchStatus

(* The runtime's write after a failure, over the version that was read.    *)
LEMMA RuntimeReported ==
  ASSUME TypeOK, AllReported, Exclusive, OnlyRequests, NEW r \in Requests, NEW o,
         NEW st \in ApplyStatuses, RuntimeWrites(r, o, st), st.phase # NoPhase,
         o.version = requests[r].version => Honest(r, st)' /\ Upheld(requests[r].status, st),
         \A x \in Requests \ {r} : WorkersStay(x),
         copy'[r].status \in {copy[r].status, NoStatus},
         Honest(r, plan'[r].status), PlanHolds(r)', CreatedInOrder(r)',
         Admitted(r)' => Admitted(r)
  PROVE  AllReported' /\ Exclusive'
<1>1. CASE KeepRequests
  <2>1. ReportStep
    BY <1>1 DEF ReportStep, OnlyRequests, KeepRequests
  <2> QED BY <2>1, WorkerReported
<1>2. CASE o.version = requests[r].version /\ SetRequest(r, [requests[r] EXCEPT !.status = st])
  <2> DEFINE new == [requests[r] EXCEPT !.status = st]
  <2>1. /\ new \in Objects /\ new.created = requests[r].created /\ new.there = requests[r].there
        /\ new.deleted = requests[r].deleted /\ new.status = st
    BY RequestTypes DEF Objects
  <2>2. SetRequest(r, new)
    BY <1>2
  <2> HIDE DEF new
  <2> QED BY <1>2, <2>1, <2>2, StatusReported
<1> QED BY <1>1, <1>2 DEF RuntimeWrites

LEMMA EndWritten ==
  ASSUME TypeOK, Safe, AllReported, Exclusive, OnlyRequests, NEW r \in Requests,
         pc[r] = "update", plan[r].dirty, RuntimeWrites(r, copy[r], plan[r].status),
         EndReconcile(r)
  PROVE  AllReported' /\ Exclusive'
<1>1. PICK st : st = plan[r].status
  OBVIOUS
<1>2. st \in ApplyStatuses /\ Honest(r, st) /\ PlanHolds(r) /\ st.phase # NoPhase
  BY <1>1, StatusTypes DEF AllReported, Reported, AllHonest, Safe, WorkerKnows
<1>3. TimePasses /\ PodGoesOn(r)
  BY DEF OnlyRequests, TimePasses, ClockGoesOn, PodGoesOn, Absent, TypeOK, BoundTypes
<1>4. Honest(r, st)'
  BY <1>2, <1>3, StaysHonest DEF OnlyRequests
<1>5. copy[r].version = requests[r].version => Upheld(requests[r].status, st)
  <2>1. copy[r].version = requests[r].version => copy[r] = requests[r]
    BY DEF Safe, CopiesFollow, Follows
  <2> QED BY <1>1, <1>2, <2>1 DEF PlanHolds, Upheld
<1>6. /\ copy'[r] = NoObject /\ plan'[r] = NoPlan
      /\ \A x \in Requests \ {r} : WorkersStay(x)
      /\ PlanHolds(r)' /\ CreatedInOrder(r)' /\ (Admitted(r)' => ~Absent(pods'[r]))
  BY EndValues
<1>7. Admitted(r)' => Admitted(r)
  BY <1>6 DEF Admitted, OnlyRequests, Absent
<1>8. RuntimeWrites(r, copy[r], st)
  BY <1>1
<1> QED BY <1>2, <1>4, <1>5, <1>6, <1>7, <1>8, NewStatuses, NoStatusIsHonest, RuntimeReported

(* The rest of Update drops what it has done from its plan. *)
LEMMA ContinueValues ==
  ASSUME TypeOK, AllReported, NEW r \in Requests, pc[r] = "update", UNCHANGED requests,
         NEW p, Continue(r, copy[r], p) \/ EndReconcile(r),
         p.status = plan[r].status, p.dirty = plan[r].dirty,
         p.announce => plan[r].announce, p.pod => plan[r].pod, p.run \in {plan[r].run, NoRun}
  PROVE  /\ PlanHolds(r)' /\ CreatedInOrder(r)'
         /\ copy'[r].status \in {copy[r].status, NoStatus}
         /\ plan'[r].status \in {plan[r].status, NoStatus}
         /\ Admitted(r)' => ~Absent(pods'[r])
         /\ \A x \in Requests \ {r} : WorkersStay(x)
<1>1. CASE EndReconcile(r)
  BY <1>1, EndValues, NewStatuses
<1>2. CASE GoOn(r, "update", copy[r], p)
  <2>1. /\ pc'[r] = "update" /\ copy'[r] = copy[r] /\ plan'[r] = p
        /\ \A x \in Requests \ {r} : WorkersStay(x)
    BY <1>2, WorkerGoesOn
  <2>2. PlanHolds(r)'
    BY <2>1 DEF AllReported, Reported, PlanHolds
  <2>3. CreatedInOrder(r)' /\ (Admitted(r)' => ~Absent(pods'[r]))
    BY <2>1 DEF CreatedInOrder, Admitted
  <2> QED BY <2>1, <2>2, <2>3
<1> QED BY <1>1, <1>2 DEF Continue

(* The pod of a settled request may go, and what it owns is left behind.   *)
LEMMA PodLeavesScript ==
  ASSUME TypeOK, AllReported, NEW r \in Requests, DeletePod(r) \/ PodGoes(r),
         OnlyCluster, UNCHANGED <<starts, ran>>, ~Absent(pods[r]) => Settled(requests[r])
  PROVE  /\ \A x \in Requests \ {r} : ClusterStays(x)
         /\ PodGoesOn(r) /\ RunsItsScript(r)'
         /\ configs[r].owner = "none" => configs'[r].owner = "none"
         /\ Absent(pods[r]) => Absent(pods'[r])
<1>1. RunsItsScript(r) /\ pods[r] \in ApplyPods /\ configs[r] \in ConfigMaps
  BY StatusTypes DEF AllReported, Reported
<1>2. CASE PodGoes(r)
  <2>1. /\ pods'[r] = NoPod /\ configs'[r].body = configs[r].body
        /\ configs'[r].owner = Orphaned(configs[r].owner)
        /\ \A x \in Requests \ {r} : ClusterStays(x)
    BY <1>1, <1>2 DEF PodGoes, ClusterStays, TypeOK, ClusterTypes, ConfigMaps
  <2>2. NoPod.phase = "None" /\ NoPod.code = NoExit
    BY DEF NoPod
  <2>3. Orphaned("none") = "none" /\ (configs'[r].owner # "none" => configs[r].owner # "none")
    BY <2>1 DEF Orphaned
  <2> QED BY <1>1, <2>1, <2>2, <2>3 DEF RunsItsScript, PodGoesOn, Absent, OnlyCluster, Settled
<1>3. CASE ~Absent(pods[r]) /\ pods' = [pods EXCEPT ![r].leaving = TRUE] /\ UNCHANGED configs
  <2>1. /\ pods'[r].phase = pods[r].phase /\ pods'[r].code = pods[r].code
        /\ pods'[r].created = pods[r].created
        /\ \A x \in Requests \ {r} : ClusterStays(x)
    BY <1>1, <1>3 DEF ClusterStays, TypeOK, ClusterTypes, ApplyPods
  <2> QED BY <1>1, <1>3, <2>1 DEF RunsItsScript, PodGoesOn, Absent, OnlyCluster, Settled
<1>4. CASE Absent(pods[r]) /\ UNCHANGED cluster
  BY <1>1, <1>4 DEF RunsItsScript, PodGoesOn, Absent, OnlyCluster, Settled, ClusterStays, cluster
<1> QED BY <1>2, <1>3, <1>4 DEF DeletePod

LEMMA PodLeavesReported ==
  ASSUME TypeOK, AllReported, Exclusive, NEW r \in Requests, DeletePod(r) \/ PodGoes(r),
         OnlyCluster, UNCHANGED <<starts, ran>>, ~Absent(pods[r]) => Settled(requests[r]),
         \A x \in Requests \ {r} : WorkersStay(x),
         copy'[r].status \in {copy[r].status, NoStatus},
         plan'[r].status \in {plan[r].status, NoStatus},
         PlanHolds(r)', CreatedInOrder(r)',
         Admitted(r)' => Admitted(r) \/ ~Absent(pods'[r])
  PROVE  AllReported' /\ Exclusive'
<1>1. /\ \A x \in Requests \ {r} : ClusterStays(x)
      /\ PodGoesOn(r) /\ RunsItsScript(r)'
      /\ Absent(pods[r]) => Absent(pods'[r])
  BY PodLeavesScript
<1>2. TimePasses /\ \A st \in ToldNow(r) : Honest(r, st)
  BY DEF AllReported, Reported, AllHonest, ToldNow, TimePasses, ClockGoesOn, OnlyCluster, TypeOK,
     BoundTypes
<1>3. \A st \in ToldNow(r) : Honest(r, st)'
  BY <1>1, <1>2, StaysHonest
<1>4. Admitted(r)' => Admitted(r)
  BY <1>1 DEF Admitted
<1> QED BY <1>1, <1>3, <1>4, ClusterReported

LEMMA UpdateReported ==
  ASSUME TypeOK, Safe, AllReported, Exclusive, NEW r \in Requests,
         RecordOnIncident(r) \/ Announce(r) \/ DeleteApplyPod(r) \/ DeleteExpired(r)
  PROVE  AllReported' /\ Exclusive'
<1>1. /\ pc[r] = "update" /\ Reported(r) /\ plan[r] \in Plans /\ WorkerKnows(r)
      /\ Honest(r, plan[r].status) /\ Honest(r, NoStatus) /\ PlanHolds(r)
  BY RequestTypes, NoStatusIsHonest DEF Safe, AllReported, Reported, AllHonest, RecordOnIncident,
     Announce, DeleteApplyPod, DeleteExpired, Persisted
<1>2. CASE RecordOnIncident(r)
  <2> DEFINE done == [plan[r] EXCEPT !.run = NoRun]
  <2>1. /\ done.status = plan[r].status /\ done.dirty = plan[r].dirty /\ done.run = NoRun
        /\ done.announce = plan[r].announce /\ done.pod = plan[r].pod
    BY <1>1 DEF Plans
  <2>2. \/ KeepRequests /\ Continue(r, copy[r], done)
        \/ RuntimeWrites(r, copy[r], plan[r].status) /\ EndReconcile(r)
    BY <1>2 DEF RecordOnIncident
  <2> HIDE DEF done
  <2>3. OnlyRequests
    BY <1>2 DEF RecordOnIncident, OnlyRequests, cluster, bounds, FaultsStay, NothingFailed
  <2>4. CASE KeepRequests /\ Continue(r, copy[r], done)
    <3>1. ReportStep
      BY <2>3, <2>4 DEF ReportStep, OnlyRequests, KeepRequests
    <3>2. /\ PlanHolds(r)' /\ CreatedInOrder(r)'
          /\ copy'[r].status \in {copy[r].status, NoStatus}
          /\ plan'[r].status \in {plan[r].status, NoStatus}
          /\ Admitted(r)' => ~Absent(pods'[r])
          /\ \A x \in Requests \ {r} : WorkersStay(x)
      BY <1>1, <2>1, <2>4, <3>1, ContinueValues DEF ReportStep
    <3>3. Admitted(r)' => Admitted(r)
      BY <3>1, <3>2 DEF Admitted, ReportStep
    <3> QED BY <1>1, <3>1, <3>2, <3>3, WorkerReported
  <2>5. CASE RuntimeWrites(r, copy[r], plan[r].status) /\ EndReconcile(r)
    <3>1. plan[r].dirty
      BY <1>1, <1>2 DEF RecordOnIncident, PlanHolds
    <3> QED BY <1>1, <2>3, <2>5, <3>1, EndWritten
  <2> QED BY <2>2, <2>4, <2>5
<1>3. CASE Announce(r)
  <2> DEFINE done == [plan[r] EXCEPT !.announce = FALSE]
  <2>1. /\ done.status = plan[r].status /\ done.dirty = plan[r].dirty
        /\ done.announce = FALSE /\ done.pod = plan[r].pod /\ done.run = plan[r].run
    BY <1>1 DEF Plans
  <2>2. Continue(r, copy[r], done)
    BY <1>3 DEF Announce
  <2> HIDE DEF done
  <2>3. /\ UNCHANGED <<requests, cache, pods, configs, starts, ran, clock, faults>>
        /\ \A x \in Requests \ {r} : announced'[x] = announced[x]
    BY <1>3 DEF Announce, objects, cluster, bounds, TypeOK, HistoryTypes, FaultsStay, NothingFailed
  <2>4. /\ PlanHolds(r)' /\ CreatedInOrder(r)'
        /\ copy'[r].status \in {copy[r].status, NoStatus}
        /\ plan'[r].status \in {plan[r].status, NoStatus}
        /\ Admitted(r)' => ~Absent(pods'[r])
        /\ \A x \in Requests \ {r} : WorkersStay(x)
    BY <1>1, <2>1, <2>2, <2>3, ContinueValues
  <2>5. Terminal(requests[r].status)
    BY <1>1, <1>3 DEF Announce, Persisted, PlanHolds
  <2>6. /\ TimePasses /\ ListGoesOn /\ GoesOn(r) /\ \A x \in Requests \ {r} : Stays(x)
        /\ PodGoesOn(r)
    BY <2>3, <2>4 DEF TimePasses, ClockGoesOn, FaultsStay, NothingFailed, ListGoesOn, GoesOn, Over,
       Stays, ClusterStays,
       PodGoesOn, Absent, TypeOK, BoundTypes
  <2>7. \A st : Honest(r, st) => Honest(r, st)'
    BY <2>3, <2>6, StaysHonest
  <2>8. AllHonest(r)'
    BY <1>1, <2>3, <2>4, <2>7 DEF Reported, AllHonest
  <2>9. Upheld(cache[r].status, requests[r].status)' /\ Upheld(copy[r].status, requests[r].status)'
    BY <1>1, <2>3, <2>4, NewStatuses DEF Reported, Upheld
  <2>10. RunsItsScript(r)'
    BY <1>1, <2>3 DEF Reported, RunsItsScript, Absent, Settled
  <2>11. Reported(r)'
    BY <2>3, <2>4, <2>5, <2>8, <2>9, <2>10 DEF Reported
  <2>12. Admitted(r)' => Admitted(r)
    BY <2>3, <2>4 DEF Admitted
  <2> QED BY <2>6, <2>11, <2>12, FocusReported
<1>4. CASE DeleteApplyPod(r)
  <2> DEFINE done == [plan[r] EXCEPT !.pod = FALSE]
  <2>1. /\ done.status = plan[r].status /\ done.dirty = plan[r].dirty
        /\ done.announce = plan[r].announce /\ done.pod = FALSE /\ done.run = plan[r].run
    BY <1>1 DEF Plans
  <2>2. Continue(r, copy[r], done) /\ DeletePod(r)
    BY <1>4 DEF DeleteApplyPod
  <2> HIDE DEF done
  <2>3. OnlyCluster /\ UNCHANGED <<requests, starts, ran>>
    BY <1>4 DEF DeleteApplyPod, OnlyCluster, objects, history, bounds, FaultsStay, NothingFailed
  <2>4. /\ PlanHolds(r)' /\ CreatedInOrder(r)'
        /\ copy'[r].status \in {copy[r].status, NoStatus}
        /\ plan'[r].status \in {plan[r].status, NoStatus}
        /\ Admitted(r)' => ~Absent(pods'[r])
        /\ \A x \in Requests \ {r} : WorkersStay(x)
    BY <1>1, <2>1, <2>2, <2>3, ContinueValues
  <2>5. Settled(requests[r])
    BY <1>1, <1>4 DEF DeleteApplyPod, Persisted, WorkerKnows, Settled
  <2> QED BY <2>2, <2>3, <2>4, <2>5, PodLeavesReported
<1>5. CASE DeleteExpired(r)
  <2>1. OnlyRequests /\ MarkDeleted(r) /\ EndReconcile(r)
    BY <1>5 DEF DeleteExpired, OnlyRequests, cluster, history, bounds, FaultsStay, NothingFailed
  <2> QED BY <2>1, MarkDeletedReported
<1> QED BY <1>2, <1>3, <1>4, <1>5

LEMMA DeleteReported ==
  ASSUME TypeOK, Safe, AllReported, Exclusive, NEW r \in Requests,
         DeleteRun(r) \/ RemoveFinalizer(r)
  PROVE  AllReported' /\ Exclusive'
<1>1. /\ pc[r] \in {"delete", "finalize"} /\ CopiesFollow(r) /\ WorkerKnows(r)
      /\ requests[r] \in Objects /\ copy[r] \in Objects /\ EndReconcile(r)
  BY RequestTypes DEF Safe, DeleteRun, RemoveFinalizer
<1>2. /\ pc'[r] = "idle" /\ copy'[r] = NoObject /\ plan'[r] = NoPlan
      /\ \A x \in Requests \ {r} : WorkersStay(x)
      /\ PlanHolds(r)' /\ CreatedInOrder(r)' /\ (Admitted(r)' => ~Absent(pods'[r]))
  BY <1>1, EndValues
<1>3. CASE DeleteRun(r)
  <2>1. OnlyCluster /\ UNCHANGED <<starts, ran>> /\ DeletePod(r) /\ Settled(requests[r])
    BY <1>1, <1>3 DEF DeleteRun, OnlyCluster, objects, history, bounds, WorkerKnows, Settled,
       FaultsStay, NothingFailed
  <2> QED BY <1>2, <2>1, NewStatuses, PodLeavesReported
<1>4. CASE RemoveFinalizer(r)
  <2> DEFINE o == [copy[r] EXCEPT !.there = FALSE]
  <2>1. OnlyRequests
    BY <1>4 DEF RemoveFinalizer, OnlyRequests, cluster, history, bounds, FaultsStay, NothingFailed
  <2>2. CASE KeepRequests
    BY <1>1, <2>1, <2>2, EndReported DEF ReportStep, OnlyRequests, KeepRequests
  <2>3. CASE copy[r].version = requests[r].version /\ SetRequest(r, o)
    <3>1. copy[r] = requests[r]
      BY <1>1, <2>3 DEF CopiesFollow, Follows
    <3>2. /\ o \in Objects /\ o.created = requests[r].created /\ o.there = FALSE
          /\ o.deleted = requests[r].deleted /\ o.status = requests[r].status
      BY <1>1, <3>1 DEF Objects
    <3> HIDE DEF o
    <3> QED BY <1>1, <2>1, <2>3, <3>2, WriteEndReported
  <2> QED BY <1>4, <2>2, <2>3 DEF RemoveFinalizer
<1> QED BY <1>3, <1>4

-----------------------------------------------------------------------------
(* Faults, the kubelet and the collector.                                  *)
LEMMA AllStay ==
  ASSUME TypeOK, AllReported, Exclusive, TimePasses, ListGoesOn, \A x \in Requests : Stays(x)
  PROVE  AllReported' /\ Exclusive'
<1>1. \A x \in Requests : Reported(x)' /\ GoesOn(x)
  BY StaysReported DEF AllReported
<1>2. \A x \in Requests : Admitted(x)' => Admitted(x)
  BY DEF Stays, WorkersStay, ClusterStays, Admitted, Absent
<1> QED BY <1>1, <1>2, StaysExclusive DEF AllReported

(* A fault is spent, so what is known only while nothing failed is not.    *)
LEMMA FaultIsSpent ==
  ASSUME TypeOK, faults' = faults - 1
  PROVE  ~NothingFailed' /\ FaultsStay
<1>1. faults \in Nat /\ faults <= MaxFaults /\ MaxFaults \in Nat
  BY ApplyAssumption DEF TypeOK, BoundTypes
<1> QED BY <1>1 DEF NothingFailed, FaultsStay

LEMMA ObserveFailsReported ==
  ASSUME TypeOK, Safe, AllReported, Exclusive, NEW r \in Requests, ObserveFails(r)
  PROVE  AllReported' /\ Exclusive'
<1>1. PICK st : st = [cache[r].status EXCEPT !.phase = "Running"]
  OBVIOUS
<1>2. /\ cache[r].status \in ApplyStatuses /\ Honest(r, cache[r].status)
      /\ cache[r].status.phase = NoPhase /\ Reported(r)
  BY StatusTypes DEF ObserveFails, AllReported, Reported, AllHonest
<1>3. /\ st \in ApplyStatuses /\ st.phase = "Running" /\ st.script = cache[r].status.script
      /\ st.finishedAt = cache[r].status.finishedAt
  BY <1>1, <1>2 DEF ApplyStatuses, Phases
<1>4. OnlyRequests /\ ~NothingFailed' /\ UNCHANGED workers /\ RuntimeWrites(r, cache[r], st)
  BY <1>1, FaultIsSpent DEF ObserveFails, OnlyRequests, cluster, history
<1>5. st.script = NoFix /\ st.finishedAt = None /\ ~Terminal(cache[r].status)
  BY <1>2, <1>3, PhasesDiffer DEF Honest, Terminal
<1>6. Honest(r, st)'
  BY <1>3, <1>4, <1>5, PhasesDiffer DEF Honest, KnowsScript, Terminal
<1>7. cache[r].version = requests[r].version => Upheld(requests[r].status, st)
  <2>1. cache[r].version = requests[r].version => cache[r] = requests[r]
    BY DEF Safe, CopiesFollow, Follows
  <2> QED BY <1>3, <1>5, <2>1 DEF Upheld
<1>8. /\ pc[r] = "idle" /\ WorkersStay(r) /\ \A x \in Requests \ {r} : WorkersStay(x)
  BY <1>4 DEF ObserveFails, Observing, workers, WorkersStay
<1>9. PlanHolds(r)' /\ CreatedInOrder(r)'
  BY <1>2, <1>8, NewStatuses DEF Reported, PlanHolds, CreatedInOrder, WorkersStay, NoPhase
<1>10. Admitted(r)' => Admitted(r)
  BY <1>4, <1>8 DEF Admitted, OnlyRequests, WorkersStay, Absent
<1>11. Honest(r, plan'[r].status) /\ st.phase # NoPhase
  BY <1>2, <1>3, <1>8, PhasesDiffer DEF Reported, AllHonest, WorkersStay
<1> QED BY <1>3, <1>4, <1>6, <1>7, <1>8, <1>9, <1>10, <1>11, RuntimeReported DEF WorkersStay

LEMMA CallFailsReported ==
  ASSUME TypeOK, Safe, AllReported, Exclusive, NEW r \in Requests, CallFails(r)
  PROVE  AllReported' /\ Exclusive'
<1>1. OnlyRequests
  BY FaultIsSpent DEF CallFails, OnlyRequests, cluster, history
<1>2. CASE KeepRequests /\ EndReconcile(r)
  BY <1>1, <1>2, EndReported DEF ReportStep, OnlyRequests, KeepRequests
<1>3. CASE /\ pc[r] = "update" /\ plan[r].dirty /\ RuntimeWrites(r, copy[r], plan[r].status)
           /\ EndReconcile(r)
  BY <1>1, <1>3, EndWritten
<1>4. CASE /\ KeepRequests /\ pc[r] \in {"pod", "secret", "configmap"}
           /\ GoOn(r, "annotate", copy[r], plan[r])
  <2>1. ReportStep
    BY <1>1, <1>4 DEF ReportStep, OnlyRequests, KeepRequests
  <2>2. /\ pc'[r] = "annotate" /\ copy'[r] = copy[r] /\ plan'[r] = plan[r]
        /\ \A x \in Requests \ {r} : WorkersStay(x)
    BY <1>4, WorkerGoesOn
  <2>3. Reported(r)
    BY DEF AllReported
  <2>4. PlanHolds(r)' /\ CreatedInOrder(r)'
    BY <1>4, <2>1, <2>2, <2>3 DEF Reported, PlanHolds, CreatedInOrder, ReportStep
  <2>5. Admitted(r)' => Admitted(r)
    BY <2>1, <2>2 DEF Admitted, ReportStep, Absent
  <2> QED BY <2>1, <2>2, <2>3, <2>4, <2>5, WorkerReported DEF Reported, AllHonest
<1> QED BY <1>2, <1>3, <1>4 DEF CallFails

LEMMA FaultReported ==
  ASSUME TypeOK, Safe, AllReported, Exclusive,
         (\E r \in Requests : ObserveFails(r) \/ CallFails(r)) \/ Restart
  PROVE  AllReported' /\ Exclusive'
<1>1. CASE Restart
  <2> ReportStep
    BY <1>1, FaultIsSpent DEF Restart, ReportStep, objects, cluster, history
  <2>1. ASSUME NEW x \in Requests
        PROVE  Reported(x)' /\ GoesOn(x) /\ (Admitted(x)' => Admitted(x))
    <3>1. pc'[x] = "idle" /\ copy'[x] = NoObject /\ plan'[x] = NoPlan
      BY <1>1 DEF Restart
    <3>2. PlanHolds(x)' /\ CreatedInOrder(x)'
      BY <3>1, NewStatuses, IdlePlanHolds
    <3>3. Reported(x)'
      BY <3>1, <3>2, NewStatuses, NoStatusIsHonest, WorkerKeepsReport DEF AllReported
    <3> QED BY <3>1, <3>3 DEF GoesOn, Over, Admitted, ReportStep, Absent
  <2>2. ListGoesOn
    BY DEF ListGoesOn, ReportStep
  <2> QED BY <2>1, <2>2, StaysExclusive DEF AllReported
<1> QED BY <1>1, ObserveFailsReported, CallFailsReported

LEMMA KubeletReported ==
  ASSUME TypeOK, Safe, AllReported, Exclusive, NEW r \in Requests, Kubelet(r)
  PROVE  AllReported' /\ Exclusive'
<1>1. /\ Reported(r) /\ PodRunsOnce(r) /\ pods[r] \in ApplyPods /\ starts[r] \in Nat
      /\ configs[r] \in ConfigMaps /\ RunsItsScript(r) /\ PlanHolds(r) /\ CreatedInOrder(r)
      /\ \A st \in ToldNow(r) : Honest(r, st)
  BY StatusTypes DEF Safe, AllReported, Reported, AllHonest, ToldNow
<1>2. ASSUME NEW p, SetPod(r, p), ~Absent(pods[r]), ~Absent(p), p.created = pods[r].created,
             pods[r].phase = "Ended" => p.phase = "Ended",
             \A x \in Requests \ {r} : starts'[x] = starts[x] /\ ran'[x] = ran[x],
             RunsItsScript(r)',
             \A st \in ToldNow(r) : Honest(r, st)'
      PROVE  AllReported' /\ Exclusive'
  <2>1. /\ pods'[r] = p /\ UNCHANGED <<workers, configs>> /\ OnlyCluster
        /\ \A x \in Requests \ {r} : WorkersStay(x) /\ ClusterStays(x)
    BY <1>2 DEF SetPod, objects, workers, bounds, OnlyCluster, WorkersStay, ClusterStays, TypeOK,
       ClusterTypes, FaultsStay, NothingFailed
  <2>2. PlanHolds(r)' /\ CreatedInOrder(r)'
    BY <1>1, <1>2, <2>1 DEF PlanHolds, CreatedInOrder, OnlyCluster, workers, Absent, Settled
  <2>3. Admitted(r)
    BY <1>2 DEF Admitted
  <2> QED BY <1>2, <2>1, <2>2, <2>3, ClusterReported DEF workers
<1>3. CASE PodStarts(r)
  <2> DEFINE p == StartedPod(pods[r], configs[r].body, clock)
  <2>1. /\ ~Absent(pods[r]) /\ ~Absent(p) /\ p.phase = "Running" /\ pods[r].phase = "Pending"
        /\ p.created = pods[r].created /\ p.code = pods[r].code
    BY <1>1, <1>3 DEF PodStarts, MayStart, StartedPod, ApplyPods, Absent
  <2>2. SetPod(r, p)
    BY <1>3 DEF PodStarts
  <2> HIDE DEF p
  <2>3. /\ starts[r] = 0 /\ starts'[r] = 1 /\ ran'[r] = configs[r].body
        /\ configs[r].owner # "none"
        /\ \A x \in Requests \ {r} : starts'[x] = starts[x] /\ ran'[x] = ran[x]
    BY <1>1, <1>3, <2>1 DEF PodStarts, PodRunsOnce, TypeOK, HistoryTypes
  <2>4. pods'[r] = p /\ UNCHANGED <<configs, requests, clock, faults>>
    BY <2>2 DEF SetPod, objects, bounds, TypeOK, ClusterTypes, FaultsStay, NothingFailed
  <2>5. RunsItsScript(r)'
    BY <1>1, <2>1, <2>3, <2>4 DEF RunsItsScript, Absent, Settled
  <2>6. ASSUME NEW st \in ToldNow(r)
        PROVE  Honest(r, st)'
    <3>1. RunIsOver(r) => RunIsOver(r)'
      BY <2>1, <2>4 DEF RunIsOver, Finished, Overdue, Absent
    <3>2. Honest(r, st)
      BY <1>1
    <3> QED BY <2>1, <2>3, <2>4, <3>1, <3>2 DEF Honest, KnowsScript, NothingFailed
  <2> QED BY <1>2, <2>1, <2>2, <2>3, <2>5, <2>6
<1>4. ASSUME NEW p, SetPod(r, p), ~Absent(pods[r]), p.phase = "Ended",
             p.created = pods[r].created, UNCHANGED <<starts, ran>>,
             pods[r].phase = "Running" \/ p.code = pods[r].code
      PROVE  AllReported' /\ Exclusive'
  <2>1. pods'[r] = p /\ UNCHANGED <<configs, requests, clock, faults>> /\ ~Absent(p)
    BY <1>4 DEF SetPod, objects, bounds, TypeOK, ClusterTypes, Absent, FaultsStay, NothingFailed
  <2>2. RunsItsScript(r)'
    BY <1>1, <1>4, <2>1 DEF RunsItsScript, Absent, Settled
  <2>3. PodGoesOn(r) /\ TimePasses
    BY <1>4, <2>1 DEF PodGoesOn, TimePasses, ClockGoesOn, FaultsStay, NothingFailed, TypeOK,
       BoundTypes
  <2>4. \A st \in ToldNow(r) : Honest(r, st)'
    BY <1>1, <1>4, <2>3, StaysHonest
  <2> QED BY <1>2, <1>4, <2>1, <2>2, <2>4
<1>5. ASSUME NEW code \in ExitCodes, ContainerExits(r, code)
      PROVE  AllReported' /\ Exclusive'
  <2>1. /\ ExitedPod(pods[r], code, clock).phase = "Ended"
        /\ ExitedPod(pods[r], code, clock).created = pods[r].created
    BY <1>1 DEF ExitedPod, ApplyPods
  <2> QED BY <1>4, <1>5, <2>1 DEF ContainerExits, MayExit, Absent
<1>6. CASE DeadlineStops(r)
  <2>1. /\ StoppedPod(pods[r], clock).phase = "Ended"
        /\ StoppedPod(pods[r], clock).created = pods[r].created
    BY <1>1 DEF StoppedPod, ExitedPod, ApplyPods
  <2> QED BY <1>4, <1>6, <2>1 DEF DeadlineStops, MayStop, MayExit, Absent
<1>7. ASSUME NEW start, PodFails(r, start)
      PROVE  AllReported' /\ Exclusive'
  <2>1. /\ FailedPod(pods[r], start).phase = "Ended"
        /\ FailedPod(pods[r], start).created = pods[r].created
        /\ FailedPod(pods[r], start).code = pods[r].code
    BY <1>1 DEF FailedPod, ApplyPods
  <2> QED BY <1>4, <1>7, <2>1 DEF PodFails, MayFail, Absent
<1>8. CASE PodGone(r)
  <2>1. /\ PodGoes(r) /\ OnlyCluster /\ UNCHANGED <<starts, ran, pc, copy, plan>>
        /\ Settled(requests[r])
    BY <1>1, <1>8 DEF PodGone, OnlyCluster, objects, workers, history, bounds, PodRunsOnce,
       FaultsStay, NothingFailed
  <2>2. configs[r].owner = "none" => configs'[r].owner = "none"
    BY <2>1, PodLeavesScript
  <2>3. PlanHolds(r)' /\ CreatedInOrder(r)'
    BY <1>1, <2>1, <2>2 DEF PlanHolds, CreatedInOrder, OnlyCluster, Settled
  <2>4. Admitted(r)' => Admitted(r) \/ ~Absent(pods'[r])
    BY <2>1 DEF Admitted
  <2> QED BY <2>1, <2>3, <2>4, PodLeavesReported DEF WorkersStay
<1> QED BY <1>3, <1>5, <1>6, <1>7, <1>8 DEF Kubelet

LEMMA CollectReported ==
  ASSUME TypeOK, AllReported, Exclusive, NEW r \in Requests, Collect(r)
  PROVE  AllReported' /\ Exclusive'
<1>1. /\ Reported(r) /\ RunsItsScript(r) /\ PlanHolds(r) /\ CreatedInOrder(r)
      /\ \A st \in ToldNow(r) : Honest(r, st)
      /\ configs[r] \in ConfigMaps
  BY StatusTypes DEF AllReported, Reported, AllHonest, ToldNow
<1>2. /\ OnlyCluster /\ UNCHANGED <<pods, starts, ran, pc, copy, plan>>
      /\ \A x \in Requests \ {r} : WorkersStay(x) /\ ClusterStays(x)
      /\ configs'[r] = IF configs[r].owner = "orphan" THEN NoConfigMap ELSE configs[r]
  BY DEF Collect, OnlyCluster, objects, workers, history, bounds, WorkersStay, ClusterStays, TypeOK,
     ClusterTypes, FaultsStay, NothingFailed
<1>3. configs'[r] = configs[r] \/ (Absent(pods[r]) /\ configs'[r].owner = "none")
  BY <1>1, <1>2 DEF RunsItsScript, NoConfigMap
<1>4. PodGoesOn(r) /\ TimePasses
  BY <1>2, <1>3 DEF PodGoesOn, TimePasses, ClockGoesOn, OnlyCluster, Absent, TypeOK, BoundTypes
<1>5. \A st \in ToldNow(r) : Honest(r, st)'
  BY <1>1, <1>2, <1>4, StaysHonest
<1>6. RunsItsScript(r)'
  BY <1>1, <1>2, <1>3 DEF RunsItsScript, OnlyCluster, Absent, Settled
<1>7. PlanHolds(r)' /\ CreatedInOrder(r)'
  BY <1>1, <1>2, <1>3 DEF PlanHolds, CreatedInOrder, OnlyCluster, Absent, Settled
<1>8. Admitted(r)' => Admitted(r)
  BY <1>2 DEF Admitted, Absent
<1> QED BY <1>2, <1>5, <1>6, <1>7, <1>8, ClusterReported

-----------------------------------------------------------------------------
(* The users, the policy, the incident and time.                           *)
LEMMA CreatedReported ==
  ASSUME TypeOK, Safe, AllReported, Exclusive, NEW r \in Requests, NEW login \in LoginEnds,
         RequestCreated(r, login)
  PROVE  AllReported' /\ Exclusive'
<1> DEFINE o == [NoObject EXCEPT !.there = TRUE, !.created = clock, !.login = login]
<1>1. /\ requests[r] = NoObject /\ cache[r] = NoObject /\ pc[r] = "idle" /\ Absent(pods[r])
      /\ Reported(r) /\ clock \in Nat /\ clock # None
  BY DEF RequestCreated, Safe, CopiesFollow, Untouched, AllReported, TypeOK, BoundTypes
<1>2. /\ o \in Objects /\ o.created = clock /\ o.status = NoStatus /\ o.deleted = FALSE
      /\ o.there = TRUE
  BY <1>1, NewValues, ApplyAssumption DEF Objects, NoObject
<1>3. SetRequest(r, o)
  BY DEF RequestCreated
<1> HIDE DEF o
<1>4. UNCHANGED workers /\ OnlyRequests
  BY DEF RequestCreated, OnlyRequests, cluster, bounds, FaultsStay, NothingFailed
<1>5. \A x \in Requests \ {r} : WorkersStay(x)
  BY <1>4 DEF workers, WorkersStay
<1>6. /\ TimePasses /\ ListGoesOn /\ \A x \in Requests \ {r} : Stays(x)
      /\ PodGoesOn(r)
      /\ requests'[r].there = TRUE /\ requests'[r].created = clock
      /\ requests'[r].status = NoStatus
  BY <1>2, <1>3, <1>4, <1>5, WriteFrame
<1>7. requests[r].status = NoStatus /\ cache[r].status = NoStatus /\ cache'[r].status = NoStatus
  BY <1>1, <1>6, NewStatuses DEF ListGoesOn
<1>8. Reported(r)'
  <2>1. \A st : Honest(r, st) => Honest(r, st)'
    BY <1>4, <1>6, StaysHonest DEF OnlyRequests
  <2>2. AllHonest(r)'
    BY <1>1, <1>4, <1>6, <1>7, <2>1 DEF Reported, AllHonest, workers
  <2>3. PlanHolds(r)' /\ CreatedInOrder(r)'
    BY <1>1, <1>4, <1>6, <1>7 DEF Reported, PlanHolds, CreatedInOrder, workers
  <2>4. RunsItsScript(r)'
    <3>1. ~Settled(requests[r])
      BY <1>1, NewStatuses DEF Settled, NoObject
    <3> QED BY <1>1, <1>4, <3>1 DEF Reported, RunsItsScript, OnlyRequests, Absent
  <2>5. Upheld(cache[r].status, requests[r].status)' /\ Upheld(copy[r].status, requests[r].status)'
    BY <1>1, <1>4, <1>6, <1>7 DEF Reported, Upheld, workers
  <2> QED BY <1>1, <1>4, <1>6, <1>7, <2>2, <2>3, <2>4, <2>5 DEF Reported, OnlyRequests
<1>9. ASSUME NEW a \in Requests, NEW b \in Requests, OlderThan(a, b)'
      PROVE  a # r /\ (b # r => OlderThan(a, b))
  <2>1. b # r => requests[b].created <= clock /\ requests'[b] = requests[b]
    BY <1>6 DEF Safe, Vouching, Stays
  <2>2. a # r => requests'[a] = requests[a]
    BY <1>6 DEF Stays
  <2> QED BY <1>1, <1>6, <1>9, <2>1, <2>2, StatusTypes DEF OlderThan
<1>10. YoungerWaits'
  <2> SUFFICES ASSUME NEW a \in Requests, NEW b \in Requests, OlderThan(a, b)', Admitted(b)'
               PROVE  Over(requests'[a])
    BY DEF YoungerWaits
  <2>1. b # r
    BY <1>1, <1>4 DEF Admitted, workers, OnlyRequests, Absent
  <2>2. OlderThan(a, b) /\ Admitted(b) /\ requests'[a] = requests[a]
    BY <1>4, <1>6, <1>9, <2>1 DEF Admitted, workers, OnlyRequests, Absent, Stays
  <2> QED BY <2>2 DEF Exclusive, YoungerWaits
<1>11. WholeList'
  <2> SUFFICES ASSUME NEW a \in Requests, NEW b \in Requests
               PROVE  /\ OlderThan(a, b)' /\ cache'[b].created # None => cache'[a].created # None
                      /\ cache'[a].created # None /\ ~cache'[a].there => ~requests'[a].there
    BY DEF WholeList
  <2>1. CASE cache' = requests'
    BY <2>1 DEF OlderThan
  <2>2. CASE cache' = cache
    <3>1. cache[r].created = None
      BY <1>1 DEF NoObject
    <3>2. \A x \in Requests \ {r} : requests'[x] = requests[x]
      BY <1>6 DEF Stays
    <3> QED BY <1>9, <2>2, <3>1, <3>2 DEF Exclusive, WholeList
  <2> QED BY <1>6, <2>1, <2>2 DEF ListGoesOn
<1>12. AllReported'
  BY <1>6, <1>8, StaysReported DEF AllReported
<1> QED BY <1>10, <1>11, <1>12 DEF Exclusive

LEMMA UserReported ==
  ASSUME TypeOK, Safe, AllReported, Exclusive, NEW r \in Requests, Users(r) \/ PodRemoved(r)
  PROVE  AllReported' /\ Exclusive'
<1>1. CASE RequestDeleted(r)
  <2>1. MarkDeleted(r) /\ OnlyRequests /\ UNCHANGED workers
    BY <1>1 DEF RequestDeleted, Happening, OnlyRequests, cluster, history, FaultsStay, NothingFailed
  <2> QED BY <2>1, MarkDeletedReported
<1>2. CASE PodRemoved(r)
  <2>1. /\ DeletePod(r) /\ OnlyCluster /\ UNCHANGED <<starts, ran, pc, copy, plan>>
        /\ Settled(requests[r])
    BY <1>2 DEF PodRemoved, Happening, OnlyCluster, objects, workers, history, Settled, FaultsStay,
       NothingFailed
  <2>2. configs[r].owner = "none" => configs'[r].owner = "none"
    BY <2>1, PodLeavesScript
  <2>3. PlanHolds(r)' /\ CreatedInOrder(r)'
    BY <2>1, <2>2 DEF AllReported, Reported, PlanHolds, CreatedInOrder, OnlyCluster, Settled
  <2>4. Admitted(r)' => Admitted(r) \/ ~Absent(pods'[r])
    BY <2>1 DEF Admitted
  <2> QED BY <2>1, <2>3, <2>4, PodLeavesReported DEF WorkersStay
<1> QED BY <1>1, <1>2, CreatedReported DEF Users

LEMMA OutsideReported ==
  ASSUME TypeOK, AllReported, Exclusive,
         \/ CacheSync \/ IncidentSync \/ Tick \/ IncidentChanges \/ UNCHANGED vars
         \/ \E x \in DOMAIN policies : PolicyChanges(x)
  PROVE  AllReported' /\ Exclusive'
<1>1. /\ UNCHANGED <<requests, workers, cluster, history, faults>>
      /\ cache' = cache \/ cache' = requests
      /\ clock' = clock \/ clock' = clock + 1
  <2>1. ASSUME NEW fix \in Fixes, WriterFinishes(fix)
        PROVE  UNCHANGED <<requests, cache, workers, cluster, history, clock, faults>>
    BY <2>1 DEF WriterFinishes, SetIncidentAlone, KeepRequests, bounds, FaultsStay, NothingFailed
  <2>2. ASSUME NEW kind, NEW i, IncidentMoves(kind, i)
        PROVE  UNCHANGED <<requests, cache, workers, cluster, history, clock, faults>>
    BY <2>2 DEF IncidentMoves, SetIncidentAlone, Happening, KeepRequests, FaultsStay, NothingFailed
  <2>3. CASE IncidentChanges
    BY <2>1, <2>2, <2>3 DEF IncidentChanges, HumanDecides, CheckEnds, WriterReanalyses,
       IncidentGone, StatusMoves
  <2>4. CASE CacheSync \/ IncidentSync \/ Tick
    BY <2>4 DEF CacheSync, IncidentSync, Tick, objects, bounds, FaultsStay, NothingFailed
  <2>5. CASE \E x \in DOMAIN policies : PolicyChanges(x)
    BY <2>5 DEF PolicyChanges, Happening, KeepRequests, FaultsStay, NothingFailed
  <2>6. CASE UNCHANGED vars
    BY <2>6 DEF vars, objects, bounds, FaultsStay, NothingFailed
  <2> QED BY <2>3, <2>4, <2>5, <2>6
<1>2. TimePasses /\ ListGoesOn
  BY <1>1 DEF TimePasses, ClockGoesOn, FaultsStay, NothingFailed, ListGoesOn, TypeOK, BoundTypes
<1>3. \A x \in Requests : Stays(x)
  BY <1>1 DEF Stays, WorkersStay, ClusterStays, workers, cluster, history
<1> QED BY <1>2, <1>3, AllStay

LEMMA InitReported == Init => AllReported /\ Exclusive
<1> SUFFICES ASSUME Init PROVE AllReported /\ Exclusive
  OBVIOUS
<1>1. ASSUME NEW r \in Requests
      PROVE  /\ requests[r] = NoObject /\ cache[r] = NoObject /\ pc[r] = "idle"
             /\ copy[r] = NoObject /\ plan[r] = NoPlan /\ pods[r] = NoPod
             /\ configs[r] = NoConfigMap /\ starts[r] = 0 /\ announced[r] = 0
  BY DEF Init
<1>2. /\ NoObject.created = None /\ NoPod.phase = "None" /\ NoPod.code = NoExit
      /\ NoConfigMap.owner = "none"
  BY DEF NoObject, NoPod, NoConfigMap
<1>3. ASSUME NEW r \in Requests
      PROVE  Reported(r)
  <2>1. AllHonest(r)
    BY <1>1, NewStatuses, NoStatusIsHonest DEF AllHonest
  <2>2. PlanHolds(r) /\ CreatedInOrder(r)
    BY <1>1, NewStatuses, PhasesDiffer DEF PlanHolds, CreatedInOrder
  <2>3. RunsItsScript(r)
    BY <1>1, <1>2 DEF RunsItsScript, Absent
  <2>4. Upheld(NoStatus, NoStatus)
    BY DEF Upheld
  <2> QED BY <1>1, <2>1, <2>2, <2>3, <2>4, NewStatuses DEF Reported
<1>4. Exclusive
  BY <1>1, <1>2 DEF Exclusive, WholeList, YoungerWaits, OlderThan
<1> QED BY <1>3, <1>4 DEF AllReported

LEMMA NextReported ==
  TypeOK /\ Safe /\ AllReported /\ Exclusive /\ [Next]_vars => AllReported' /\ Exclusive'
<1> SUFFICES ASSUME TypeOK, Safe, AllReported, Exclusive, [Next]_vars
             PROVE  AllReported' /\ Exclusive'
  OBVIOUS
<1>1. ASSUME NEW r \in Requests, Reconcile(r)
      PROVE  AllReported' /\ Exclusive'
  BY <1>1, ObserveReported, CreateReported, PatchReported, UpdateReported, DeleteReported
     DEF Reconcile
<1>2. ASSUME NEW r \in Requests,
             ObserveFails(r) \/ CallFails(r) \/ Kubelet(r) \/ Collect(r) \/ Users(r) \/ PodRemoved(r)
      PROVE  AllReported' /\ Exclusive'
  BY <1>2, FaultReported, KubeletReported, CollectReported, UserReported
<1>3. CASE \/ Restart \/ CacheSync \/ IncidentSync \/ Tick \/ IncidentChanges
           \/ (\E x \in DOMAIN policies : PolicyChanges(x)) \/ UNCHANGED vars
  BY <1>3, FaultReported, OutsideReported
<1> QED BY <1>1, <1>2, <1>3 DEF Next

LEMMA AlwaysReported == Spec => [](TypeOK /\ Safe /\ AllReported /\ Exclusive)
<1>1. Init => AllReported /\ Exclusive
  BY InitReported
<1>2. TypeOK /\ Safe /\ AllReported /\ Exclusive /\ [Next]_vars => AllReported' /\ Exclusive'
  BY NextReported
<1> QED BY <1>1, <1>2, AlwaysSafe, PTL DEF Spec

-----------------------------------------------------------------------------
(* admit lets one request of an incident run at a time: of two that were   *)
(* not created in the same second, the younger one was admitted only when  *)
(* the older one was over, however old the list was it read.               *)
THEOREM RunsExclude == Spec => []OneRunPerIncident
<1>1. TypeOK /\ Safe /\ AllReported /\ Exclusive => OneRunPerIncident
  <2> SUFFICES ASSUME TypeOK, Safe, Exclusive PROVE OneRunPerIncident
    OBVIOUS
  <2>1. ASSUME NEW a \in Requests, NEW b \in Requests, UnderWay(a), UnderWay(b)
        PROVE  ~(requests[a].created < requests[b].created)
    <3>1. requests[a].created # None /\ ~Over(requests[a]) /\ Admitted(b)
      BY <2>1, Touched DEF UnderWay, Over, Admitted
    <3> QED BY <3>1 DEF Exclusive, YoungerWaits, OlderThan
  <2>2. \A r \in Requests : requests[r].created \in Nat
    BY StatusTypes
  <2> QED BY <2>1, <2>2 DEF OneRunPerIncident
<1> QED BY <1>1, AlwaysReported, PTL

(* A request that succeeded reports the script its pod ran, whatever the   *)
(* incident's fix is by then and from however old a copy it was patched.   *)
THEOREM ReportsAreTrue == Spec => []ReportsWhatRan
<1>1. TypeOK /\ Safe /\ AllReported /\ Exclusive => ReportsWhatRan
  BY StatusTypes DEF AllReported, Reported, AllHonest, Honest, KnowsScript,
     ReportsWhatRan
<1> QED BY <1>1, AlwaysReported, PTL

(* While a worker carries out its Update, only its own DeleteApplyPod and   *)
(* what leaves its plan alone touch the pod.                               *)
LEMMA WorkerMoves ==
  ASSUME NEW x \in Requests, Reconcile(x)
  PROVE  EndReconcile(x) \/ \E to, o, p : GoOn(x, to, o, p)
<1>1. CASE (\E allowed \in Answers : ObserveNew(x, allowed)) \/ ObserveRun(x) \/ ObserveDeleted(x)
  BY <1>1 DEF ObserveNew, ObserveRun, ObserveDeleted, Conclude, Continue
<1>2. CASE \/ WritePending(x) \/ CreatePod(x) \/ CreateSecret(x) \/ CreateConfigMap(x) \/ Annotate(x)
           \/ DeleteRun(x) \/ RemoveFinalizer(x)
  BY <1>2 DEF WritePending, CreatePod, CreateSecret, CreateConfigMap, Annotate, DeleteRun,
     RemoveFinalizer
<1>3. CASE \/ RecordOnIncident(x) \/ PatchStatus(x) \/ Announce(x) \/ DeleteApplyPod(x)
           \/ DeleteExpired(x)
  BY <1>3 DEF RecordOnIncident, PatchStatus, Announce, DeleteApplyPod, DeleteExpired, Continue
<1> QED BY <1>1, <1>2, <1>3 DEF Reconcile

LEMMA OnlyUpdateDeletes ==
  ASSUME TypeOK, [Next]_vars, NEW r \in Requests, pc[r] = "update",
         plan'[r] # plan[r], pods'[r] # pods[r]
  PROVE  DeleteApplyPod(r)
<1>1. ASSUME NEW x \in Requests, Reconcile(x)
      PROVE  DeleteApplyPod(r)
  <2>1. \A y \in Requests \ {x} : WorkersStay(y)
    BY <1>1, WorkerMoves, EndValues, WorkerGoesOn
  <2>2. x = r
    BY <2>1 DEF WorkersStay
  <2>3. ~Observing(r) /\ ~UNCHANGED pods
    BY DEF Observing
  <2> QED BY <1>1, <2>2, <2>3 DEF Reconcile, ObserveNew, ObserveRun, ObserveDeleted, WritePending,
      CreatePod, CreateSecret, CreateConfigMap, Annotate, RecordOnIncident, PatchStatus, Announce,
      DeleteExpired, DeleteRun, RemoveFinalizer, cluster
<1>2. ASSUME NEW x \in Requests,
             ObserveFails(x) \/ CallFails(x) \/ Kubelet(x) \/ Collect(x) \/ Users(x) \/ PodRemoved(x)
      PROVE  UNCHANGED plan \/ UNCHANGED pods
  BY <1>2 DEF ObserveFails, CallFails, Kubelet, PodStarts, ContainerExits, DeadlineStops, PodFails,
     PodGone,
     SetPod, Collect, Users, RequestCreated, RequestDeleted, PodRemoved, Happening, workers,
     cluster, FaultsStay, NothingFailed
<1>3. CASE Restart \/ CacheSync \/ IncidentSync \/ Tick \/ IncidentChanges \/ UNCHANGED vars
           \/ (\E x \in DOMAIN policies : PolicyChanges(x))
  BY <1>3 DEF Restart, CacheSync, IncidentSync, Tick, IncidentChanges, HumanDecides, CheckEnds,
     WriterReanalyses, WriterFinishes, IncidentGone, StatusMoves, IncidentMoves, SetIncidentAlone,
     Happening, PolicyChanges, vars, workers, cluster, FaultsStay, NothingFailed
<1> QED BY <1>1, <1>2, <1>3 DEF Next

(* The controller deletes the pod of a run only when the request has the   *)
(* run's result: a patch that fails or finds an old copy never loses it.   *)
THEOREM ResultsAreKept == Spec => ResultNotLost
<1>1. ASSUME TypeOK, Safe, AllReported, Exclusive, [Next]_vars,
             NEW r \in Requests, pc[r] = "update", plan'[r] # plan[r],
             pods[r].phase = "Ended", ~pods[r].leaving, Absent(pods'[r]) \/ pods'[r].leaving
      PROVE  requests[r].status.finishedAt # None
  <2>1. DeleteApplyPod(r)
    BY <1>1, OnlyUpdateDeletes DEF Absent
  <2>2. Terminal(requests[r].status)
    BY <1>1, <2>1 DEF DeleteApplyPod, Persisted, AllReported, Reported, PlanHolds
  <2> QED BY <1>1, <2>2 DEF AllReported, Reported, AllHonest, Honest
<1>2. TypeOK /\ Safe /\ AllReported /\ Exclusive /\ [Next]_vars =>
        [ \A r \in Requests :
            /\ pc[r] = "update" /\ plan'[r] # plan[r]
            /\ pods[r].phase = "Ended" /\ ~pods[r].leaving
            /\ Absent(pods'[r]) \/ pods'[r].leaving
            /\ requests[r].there /\ ~requests[r].deleted
            => requests[r].status.finishedAt # None ]_vars
  BY <1>1
<1> QED BY <1>2, AlwaysReported, PTL DEF Spec, ResultNotLost

(* Only a reconcile that read a request before its end plans to announce.  *)
LEMMA AnnouncePlanned ==
  ASSUME TypeOK, cache = requests, [Next]_vars, NEW r \in Requests
  PROVE  plan'[r].announce => plan[r].announce \/ ~Terminal(requests[r].status)
<1>1. ASSUME NEW x \in Requests, Reconcile(x)
      PROVE  plan'[r].announce => plan[r].announce \/ ~Terminal(requests[r].status)
  <2>1. \A y \in Requests \ {x} : WorkersStay(y)
    BY <1>1, WorkerMoves, EndValues, WorkerGoesOn
  <2>2. CASE x # r
    BY <2>1, <2>2 DEF WorkersStay
  <2>3. CASE EndReconcile(r)
    BY <2>3, EndValues, NewStatuses
  <2>4. ASSUME NEW st, NEW run, Conclude(r, st, run)
        PROVE  plan'[r].announce => ~Terminal(requests[r].status)
    <3> DEFINE dirty == st # cache[r].status
               announce == Terminal(st) /\ ~Terminal(cache[r].status)
               pod == Terminal(st) /\ ~Absent(pods[r]) /\ ~pods[r].leaving
               expired == Terminal(st) /\ clock >= st.finishedAt + TTL
               p == [NoPlan EXCEPT !.status = st, !.run = run, !.dirty = dirty,
                                   !.announce = announce, !.pod = pod, !.expired = expired]
    <3>1. p.announce = announce
      <4> HIDE DEF dirty, announce, pod, expired
      <4> QED BY DEF NoPlan
    <3>2. Continue(r, cache[r], p)
      BY <2>4 DEF Conclude
    <3> HIDE DEF p
    <3>3. CASE plan'[r] = p
      BY <3>1, <3>3
    <3>4. CASE EndReconcile(r)
      BY <3>4, EndValues, NewStatuses
    <3> QED BY <3>2, <3>3, <3>4, WorkerGoesOn DEF Continue
  <2>5. ASSUME NEW to, NEW o, NEW p, GoOn(r, to, o, p), p.announce => plan[r].announce
        PROVE  plan'[r].announce => plan[r].announce
    BY <2>5, WorkerGoesOn
  <2>6. ASSUME NEW o, NEW p, Continue(r, o, p), p.announce => plan[r].announce
        PROVE  plan'[r].announce => plan[r].announce
    BY <2>3, <2>5, <2>6, EndValues, NewStatuses DEF Continue
  <2>7. CASE x = r /\ ((\E allowed \in Answers : ObserveNew(r, allowed)) \/ ObserveRun(r) \/ ObserveDeleted(r))
    <3>1. ~[NoPlan EXCEPT !.script = incidentCache.status.howToFix].announce /\ ~NoPlan.announce
      BY DEF NoPlan
    <3> QED BY <2>4, <2>5, <2>7, <3>1 DEF ObserveNew, ObserveRun, ObserveDeleted
  <2>8. CASE /\ x = r
             /\ \/ WritePending(r) \/ CreatePod(r) \/ CreateSecret(r) \/ CreateConfigMap(r)
                \/ Annotate(r) \/ DeleteRun(r) \/ RemoveFinalizer(r) \/ DeleteExpired(r)
    BY <2>3, <2>5, <2>8 DEF WritePending, CreatePod, CreateSecret, CreateConfigMap, Annotate,
       DeleteRun, RemoveFinalizer, DeleteExpired
  <2>9. CASE x = r /\ (RecordOnIncident(r) \/ PatchStatus(r) \/ Announce(r) \/ DeleteApplyPod(r))
    <3>1. /\ [plan[r] EXCEPT !.run = NoRun].announce = plan[r].announce
          /\ [plan[r] EXCEPT !.dirty = FALSE].announce = plan[r].announce
          /\ [plan[r] EXCEPT !.announce = FALSE].announce = FALSE
          /\ [plan[r] EXCEPT !.pod = FALSE].announce = plan[r].announce
      BY RequestTypes DEF Plans
    <3> QED BY <2>3, <2>6, <2>9, <3>1 DEF RecordOnIncident, PatchStatus, Announce, DeleteApplyPod
  <2> QED BY <1>1, <2>2, <2>7, <2>8, <2>9 DEF Reconcile
<1>2. ASSUME NEW x \in Requests, CallFails(x)
      PROVE  plan'[r].announce => plan[r].announce
  <2>1. CASE EndReconcile(x)
    BY <2>1, EndValues, NewStatuses DEF WorkersStay
  <2>2. CASE GoOn(x, "annotate", copy[x], plan[x])
    BY <2>2, WorkerGoesOn DEF WorkersStay
  <2> QED BY <1>2, <2>1, <2>2 DEF CallFails
<1>3. CASE Restart
  BY <1>3, NewStatuses DEF Restart
<1>4. ASSUME NEW x \in Requests,
             ObserveFails(x) \/ Kubelet(x) \/ Collect(x) \/ Users(x) \/ PodRemoved(x)
      PROVE  UNCHANGED plan
  BY <1>4 DEF ObserveFails, Kubelet, PodStarts, ContainerExits, DeadlineStops, PodFails, PodGone,
     SetPod, Collect,
     Users, RequestCreated, RequestDeleted, PodRemoved, Happening, workers, FaultsStay,
     NothingFailed
<1>5. CASE CacheSync \/ IncidentSync \/ Tick \/ IncidentChanges \/ UNCHANGED vars
           \/ (\E x \in DOMAIN policies : PolicyChanges(x))
  BY <1>5 DEF CacheSync, IncidentSync, Tick, IncidentChanges, HumanDecides, CheckEnds,
     WriterReanalyses, WriterFinishes, IncidentGone, StatusMoves, IncidentMoves, SetIncidentAlone,
     Happening, PolicyChanges, vars, workers, FaultsStay, NothingFailed
<1> QED BY <1>1, <1>2, <1>3, <1>4, <1>5 DEF Next

LEMMA OnlyAnnounceAnnounces ==
  ASSUME [Next]_vars
  PROVE  UNCHANGED announced \/ \E r \in Requests : Announce(r)
<1>1. ASSUME NEW x \in Requests, Reconcile(x)
      PROVE  UNCHANGED announced \/ Announce(x)
  BY <1>1 DEF Reconcile, ObserveNew, ObserveRun, ObserveDeleted, WritePending, CreatePod,
     CreateSecret, CreateConfigMap, Annotate, RecordOnIncident, PatchStatus, DeleteApplyPod,
     DeleteExpired, DeleteRun, RemoveFinalizer, history
<1>2. ASSUME NEW x \in Requests,
             ObserveFails(x) \/ CallFails(x) \/ Kubelet(x) \/ Collect(x) \/ Users(x) \/ PodRemoved(x)
      PROVE  UNCHANGED announced
  BY <1>2 DEF ObserveFails, CallFails, Kubelet, PodStarts, ContainerExits, DeadlineStops, PodFails,
     PodGone,
     SetPod, Collect, Users, RequestCreated, RequestDeleted, PodRemoved, Happening, history,
     FaultsStay, NothingFailed
<1>3. CASE Restart \/ CacheSync \/ IncidentSync \/ Tick \/ IncidentChanges \/ UNCHANGED vars
           \/ (\E x \in DOMAIN policies : PolicyChanges(x))
  BY <1>3 DEF Restart, CacheSync, IncidentSync, Tick, IncidentChanges, HumanDecides, CheckEnds,
     WriterReanalyses, WriterFinishes, IncidentGone, StatusMoves, IncidentMoves, SetIncidentAlone,
     Happening, PolicyChanges, vars, history, FaultsStay, NothingFailed
<1> QED BY <1>1, <1>2, <1>3 DEF Next

LEMMA NextNotAnnounced ==
  ASSUME TypeOK, AllReported, InStep, NotAnnouncedYet, [Next]_vars
  PROVE  NotAnnouncedYet'
<1>1. ASSUME NEW r \in Requests
      PROVE  /\ announced[r] \in 0..2 /\ (announced[r] > 0 => Terminal(requests[r].status))
             /\ plan'[r].announce => plan[r].announce \/ ~Terminal(requests[r].status)
  BY StatusTypes, AnnouncePlanned DEF AllReported, Reported, InStep
<1>2. CASE UNCHANGED announced
  BY <1>1, <1>2 DEF NotAnnouncedYet
<1>3. ASSUME NEW r \in Requests, Announce(r)
      PROVE  NotAnnouncedYet'
  <2>1. announced[r] = 0 /\ announced' = [announced EXCEPT ![r] = IF @ < 2 THEN @ + 1 ELSE @]
    BY <1>3 DEF Announce, NotAnnouncedYet
  <2>2. announced'[r] = 1 /\ \A x \in Requests \ {r} : announced'[x] = announced[x]
    BY <2>1 DEF TypeOK, HistoryTypes
  <2>3. ~plan'[r].announce
    <3> DEFINE done == [plan[r] EXCEPT !.announce = FALSE]
    <3>1. done.announce = FALSE
      BY RequestTypes DEF Plans
    <3>2. Continue(r, copy[r], done)
      BY <1>3 DEF Announce
    <3> HIDE DEF done
    <3>3. plan'[r] \in {done, NoPlan}
      BY <3>2, WorkerGoesOn, EndValues DEF Continue
    <3> QED BY <3>1, <3>3, NewStatuses
  <2> QED BY <1>1, <2>2, <2>3 DEF NotAnnouncedYet
<1> QED BY <1>2, <1>3, OnlyAnnounceAnnounces

(* A request gets one ApplyFinished Event at most, while the informer does *)
(* not lag behind the requests: a reconcile announces an end only when the *)
(* request it read had not reached one.                                    *)
THEOREM EndsAreAnnouncedOnce ==
  ASSUME "requests" \notin Lags
  PROVE  Spec => []AnnouncedOnce
<1>1. Prompt
  BY DEF Prompt
<1>2. Init => InStep /\ NotAnnouncedYet
  <2>1. Init => NotAnnouncedYet
    BY NewStatuses DEF Init, NotAnnouncedYet
  <2> QED BY <2>1, InitInStep
<1>3. /\ TypeOK /\ Safe /\ AllReported /\ Exclusive /\ InStep /\ NotAnnouncedYet /\ [Next]_vars
      => InStep' /\ NotAnnouncedYet'
  BY <1>1, NextInStep, NextNotAnnounced
<1>4. NotAnnouncedYet => AnnouncedOnce
  BY DEF NotAnnouncedYet, AnnouncedOnce
<1> QED BY <1>2, <1>3, <1>4, AlwaysReported, PTL DEF Spec
-----------------------------------------------------------------------------
(* The incident goes first.  Recorded is inductive beside the others: the  *)
(* incident goes forward and its copy follows it, a run of exit 0 stays    *)
(* what its pod says, and of an incident that takes runs only a decision,  *)
(* a new analysis or another run replaces a run it has.                    *)
IncidentForward ==
  /\ incident'.there => incident.there
  /\ incident.analysis <= incident'.analysis
  /\ incident'.status.state # ""
  /\ incident.status.state \in Ended => incident'.status.state \in Ended
  /\ incident'.analysis = incident.analysis /\ incident'.status.state = "Analyzing" =>
       incident.status.state = "Analyzing"
  /\ incidentCache' \in {incidentCache, incident'}

(* No run is recorded. *)
EntryMoves ==
  LET new == ApplyEntry(incident') IN
  /\ recorded' = recorded
  /\ \/ new = ApplyEntry(incident)
     \/ new.exit = NoExit /\ (new.since = clock \/ incident.analysis < incident'.analysis)

LEMMA IncidentValues ==
  ASSUME TypeOK
  PROVE  /\ incident \in Incidents /\ incidentCache \in Incidents
         /\ incident.analysis \in Nat /\ incidentCache.analysis \in Nat
         /\ incident.status \in Statuses /\ incidentCache.status \in Statuses
         /\ incident.status.state \in States /\ incidentCache.status.state \in States
         /\ ApplyEntry(incident) \in Checks /\ ApplyEntry(incidentCache) \in Checks
         /\ ApplyEntry(incident).since \in Nat /\ ApplyEntry(incidentCache).since \in Nat
BY DEF TypeOK, ObjectTypes, Incidents, Statuses, ApplyEntry, Checks, Scripts

LEMMA IncidentWritten ==
  ASSUME TypeOK, NEW i \in Incidents, SetIncident(i)
  PROVE  /\ incident'.there = i.there /\ incident'.analysis = i.analysis
         /\ incident'.status = i.status
         /\ incidentCache' \in {incidentCache, incident'}
<1> DEFINE new == [i EXCEPT !.version = @ + 1]
<1>1. new.there = i.there /\ new.analysis = i.analysis /\ new.status = i.status
  BY DEF Incidents
<1> HIDE DEF new
<1>2. (incident' = incident /\ i = incident) \/ incident' = new
  BY DEF SetIncident, new
<1> QED BY <1>1, <1>2 DEF SetIncident

LEMMA IncidentStaysForward ==
  ASSUME TypeOK, IncidentBehind, incident' = incident, recorded' = recorded,
         incidentCache' \in {incidentCache, incident}
  PROVE  IncidentForward /\ EntryMoves
<1>1. incident.analysis <= incident'.analysis
  BY IncidentValues
<1>2. incident'.status.state # "" /\ ApplyEntry(incident') = ApplyEntry(incident)
  BY DEF IncidentBehind, ApplyEntry
<1>3. IncidentForward
  BY <1>1, <1>2 DEF IncidentForward
<1> QED BY <1>2, <1>3 DEF EntryMoves

(* What its controller, its writer and its users do to it. *)
LEMMA IncidentMovesForward ==
  ASSUME TypeOK, IncidentBehind, IncidentChanges
  PROVE  IncidentForward /\ EntryMoves
<1> DEFINE old == incident.status
<1>0. incident.analysis \in Nat
  BY IncidentValues
<1>1. /\ incident \in Incidents /\ old \in Statuses
      /\ old.state \in States /\ old.state # "" /\ clock \in Nat
  BY IncidentValues DEF IncidentBehind, TypeOK, BoundTypes
<1>2. UNCHANGED <<recorded, clock>>
  BY DEF IncidentChanges, HumanDecides, CheckEnds, WriterReanalyses, WriterFinishes, IncidentGone,
     StatusMoves, IncidentMoves, Happening, SetIncidentAlone, history, bounds
<1>3. ASSUME NEW kind, NEW st \in Statuses, StatusMoves(kind, st), st.state # "",
             old.state \in Ended => st.state \in Ended,
             st.state = "Analyzing" => old.state = "Analyzing",
             \/ st.lastChecks["apply"] = old.lastChecks["apply"]
             \/ st.lastChecks["apply"] = [exit |-> NoExit, since |-> clock]
      PROVE  IncidentForward /\ EntryMoves
  <2> DEFINE i == [incident EXCEPT !.status = st]
  <2>1. i \in Incidents /\ i.there = incident.there /\ i.analysis = incident.analysis /\ i.status = st
    BY <1>1 DEF Incidents
  <2>2. SetIncident(i)
    BY <1>3 DEF StatusMoves, IncidentMoves, SetIncidentAlone
  <2> HIDE DEF i
  <2>3. /\ incident'.there = incident.there /\ incident'.analysis = incident.analysis
        /\ incident'.status = st /\ incidentCache' \in {incidentCache, incident'}
    BY <2>1, <2>2, IncidentWritten
  <2>4. incident.analysis <= incident'.analysis
    BY <1>0, <2>3
  <2>5. IncidentForward
    BY <1>3, <2>3, <2>4 DEF IncidentForward
  <2>6. \/ ApplyEntry(incident') = ApplyEntry(incident)
        \/ ApplyEntry(incident') = [exit |-> NoExit, since |-> clock]
    BY <1>3, <2>3 DEF ApplyEntry
  <2> QED BY <1>2, <2>5, <2>6 DEF EntryMoves
<1>4. ASSUME NEW sp \in Decisions, HumanDecides(sp)
      PROVE  IncidentForward /\ EntryMoves
  <2> DEFINE st == ApplySpec(sp, old, clock)
  <2>1. st \in Statuses
    BY <1>1, ApplySpecType DEF Decisions
  <2>2. \/ st.state = "Closed" /\ st.lastChecks["apply"] = old.lastChecks["apply"]
        \/ /\ old.state \in {"Open", "Verifying"} /\ st.state = "Verifying"
           /\ st.lastChecks["apply"] = [exit |-> NoExit, since |-> clock]
        \/ st = old
    BY <1>1, DecidesApply
  <2>3. StatusMoves("decision", st)
    BY <1>4 DEF HumanDecides
  <2> HIDE DEF st
  <2> QED BY <1>1, <1>3, <2>1, <2>2, <2>3 DEF Ended
<1>5. ASSUME NEW exit \in {0, 1}, CheckEnds(exit)
      PROVE  IncidentForward /\ EntryMoves
  <2> DEFINE r == [script |-> CurrentScript(old), exit |-> exit, at |-> clock]
             st == Record(old, r)
  <2>1. r \in Results /\ old.state \in {"Open", "Verifying"}
    BY <1>1, <1>5 DEF CheckEnds, CurrentScript, Results, Checked, Exits
  <2>2. StatusMoves("check", st)
    BY <1>5 DEF CheckEnds
  <2> HIDE DEF r
  <2>3. /\ st \in Statuses /\ st.state \in {old.state, "Open", "Verifying", "Resolved"}
        /\ st.lastChecks["apply"] = old.lastChecks["apply"]
    BY <1>1, <2>1, RecordType, RecordsCheck
  <2> HIDE DEF st
  <2> QED BY <1>3, <2>1, <2>2, <2>3 DEF Ended
<1>6. CASE WriterReanalyses
  <2> DEFINE st == [NewStatus EXCEPT !.state = "Analyzing"]
             i == [incident EXCEPT !.analysis = @ + 1, !.status = st]
  <2>1. st \in Statuses /\ st.state = "Analyzing" /\ st.lastChecks["apply"] = NoCheck
    BY NewStatusType DEF NewStatus, Statuses, States, Scripts
  <2>2. SetIncident(i)
    BY <1>6 DEF WriterReanalyses, IncidentMoves, SetIncidentAlone
  <2> HIDE DEF st
  <2>3. /\ i \in Incidents /\ i.there = incident.there /\ i.analysis = incident.analysis + 1
        /\ i.status = st
    <3>1. incident.analysis + 1 \in Nat
      BY <1>0
    <3> QED BY <1>1, <2>1, <3>1 DEF Incidents
  <2> HIDE DEF i
  <2>4. /\ incident'.there = incident.there /\ incident'.analysis = incident.analysis + 1
        /\ incident'.status = st /\ incidentCache' \in {incidentCache, incident'}
    BY <2>2, <2>3, IncidentWritten
  <2>5. /\ incident.analysis < incident'.analysis /\ incident.analysis <= incident'.analysis
        /\ incident.analysis # incident'.analysis
    BY <1>0, <2>4
  <2>6. IncidentForward
    BY <1>6, <2>1, <2>4, <2>5 DEF IncidentForward, WriterReanalyses, Ended
  <2>7. ApplyEntry(incident') = NoCheck
    BY <2>1, <2>4 DEF ApplyEntry
  <2> QED BY <1>2, <2>5, <2>6, <2>7 DEF EntryMoves, NoCheck
<1>7. ASSUME NEW fix \in Fixes, WriterFinishes(fix)
      PROVE  IncidentForward /\ EntryMoves
  <2> DEFINE i == [incident EXCEPT !.status.state = "Open", !.status.howToFix = fix]
  <2>1. /\ i \in Incidents /\ i.there = incident.there /\ i.analysis = incident.analysis
        /\ i.status.state = "Open" /\ i.status.lastChecks["apply"] = old.lastChecks["apply"]
    BY <1>1 DEF Incidents, Statuses, States
  <2>2. SetIncident(i)
    BY <1>7 DEF WriterFinishes, SetIncidentAlone
  <2> HIDE DEF i
  <2>3. /\ incident'.there = incident.there /\ incident'.analysis = incident.analysis
        /\ incident'.status = i.status /\ incidentCache' \in {incidentCache, incident'}
    BY <2>1, <2>2, IncidentWritten
  <2>4. incident.analysis <= incident'.analysis
    BY <1>0, <2>3
  <2>5. IncidentForward
    BY <1>7, <2>1, <2>3, <2>4 DEF IncidentForward, WriterFinishes, Ended
  <2> QED BY <1>2, <2>1, <2>3, <2>5 DEF EntryMoves, ApplyEntry
<1>8. CASE IncidentGone
  <2> DEFINE i == [incident EXCEPT !.there = FALSE]
  <2>1. i \in Incidents /\ ~i.there /\ i.analysis = incident.analysis /\ i.status = old
    BY <1>1 DEF Incidents
  <2>2. SetIncident(i)
    BY <1>8 DEF IncidentGone, IncidentMoves, SetIncidentAlone
  <2> HIDE DEF i
  <2>3. /\ ~incident'.there /\ incident'.analysis = incident.analysis
        /\ incident'.status = old /\ incidentCache' \in {incidentCache, incident'}
    BY <2>1, <2>2, IncidentWritten
  <2>4. incident.analysis <= incident'.analysis
    BY <1>0, <2>3
  <2> QED BY <1>1, <1>2, <2>3, <2>4 DEF IncidentForward, EntryMoves, ApplyEntry
<1> QED BY <1>4, <1>5, <1>6, <1>7, <1>8 DEF IncidentChanges

(* What a run does to it: only an incident that takes it is written. *)
LEMMA RecordMovesForward ==
  ASSUME TypeOK, IncidentBehind, NEW r \in Requests, RecordOnIncident(r)
  PROVE  /\ IncidentForward
         /\ \/ incident' = incident /\ incidentCache' = incidentCache /\ recorded' = recorded
            \/ /\ incidentCache = incident /\ recorded'[r] > 0
               /\ \A x \in Requests \ {r} : recorded'[x] = recorded[x]
               /\ incident'.analysis = incident.analysis
               /\ ApplyEntry(incident') = [exit |-> plan[r].run.exit, since |-> plan[r].run.at]
<1> DEFINE st == RecordApply(incidentCache.status, plan[r].run.exit, plan[r].run.at)
           old == incident.status
<1>0. incident.analysis \in Nat /\ recorded[r] \in Nat
  BY IncidentValues DEF TypeOK, HistoryTypes
<1>1. /\ incident \in Incidents /\ incidentCache.status \in Statuses
      /\ plan[r].run.exit \in Exits /\ plan[r].run.at \in Time
  BY IncidentValues, RequestTypes DEF Plans, Runs
<1>2. CASE UNCHANGED <<incident, incidentCache, recorded>>
  BY <1>2, IncidentStaysForward
<1>3. CASE /\ st # incidentCache.status /\ incidentCache = incident
           /\ SetIncident([incident EXCEPT !.status = st])
           /\ recorded' = [recorded EXCEPT ![r] = IF @ < 2 THEN @ + 1 ELSE @]
  <2> DEFINE i == [incident EXCEPT !.status = st]
  <2>1. /\ st \in Statuses /\ old.state \in {"Open", "Verifying"}
        /\ st.state \in {"Open", "Verifying"}
        /\ st.lastChecks["apply"] = [exit |-> plan[r].run.exit, since |-> plan[r].run.at]
    BY <1>1, <1>3, RecordApplyType, RecordsApply DEF Time
  <2>2. SetIncident(i)
    BY <1>3
  <2> HIDE DEF st
  <2>3. i \in Incidents /\ i.there = incident.there /\ i.analysis = incident.analysis /\ i.status = st
    BY <1>1, <2>1 DEF Incidents
  <2> HIDE DEF i
  <2>4. /\ incident'.there = incident.there /\ incident'.analysis = incident.analysis
        /\ incident'.status = st /\ incidentCache' \in {incidentCache, incident'}
    BY <2>2, <2>3, IncidentWritten
  <2>5. IncidentForward
    <3>1. incident.analysis <= incident'.analysis
      BY <1>0, <2>4
    <3> QED BY <2>1, <2>4, <3>1 DEF IncidentForward, Ended
  <2>6. recorded'[r] > 0 /\ \A x \in Requests \ {r} : recorded'[x] = recorded[x]
    BY <1>0, <1>3 DEF TypeOK, HistoryTypes
  <2>7. ApplyEntry(incident') = [exit |-> plan[r].run.exit, since |-> plan[r].run.at]
    BY <2>1, <2>4 DEF ApplyEntry
  <2> QED BY <1>3, <2>4, <2>5, <2>6, <2>7
<1> QED BY <1>2, <1>3 DEF RecordOnIncident
-----------------------------------------------------------------------------
(* A pod that ended keeps its end until it goes, and no pod starts again.  *)
PodTold(p) == p.code # NoExit => p.finished \in 1..clock

RunKept(r) ==
  /\ \A at \in Nat : ExitedZero(r, at) => ExitedZero(r, at)'
  /\ PodTold(pods[r])'

LEMMA PodStaysKept ==
  ASSUME TypeOK, ClockGoesOn, NEW r \in Requests, PodTold(pods[r]), starts'[r] = starts[r],
         pods'[r] = pods[r]
  PROVE  RunKept(r)
<1>1. clock \in Nat /\ pods[r].finished \in Nat
  BY RequestTypes DEF ApplyPods
<1> QED BY <1>1 DEF RunKept, ExitedZero, PodTold, ClockGoesOn, Absent, EndedAt, Overdue

LEMMA PodLeavesKept ==
  ASSUME TypeOK, NEW r \in Requests, PodTold(pods[r]), UNCHANGED <<starts, clock>>,
         NEW x \in Requests, DeletePod(x) \/ PodGoes(x)
  PROVE  RunKept(r)
<1>1. clock \in Nat /\ pods[r] \in ApplyPods
  BY RequestTypes
<1>2. CASE pods'[r] = pods[r]
  BY <1>1, <1>2, PodStaysKept DEF ClockGoesOn
<1>3. CASE pods'[r] = NoPod
  BY <1>3 DEF NoPod, RunKept, ExitedZero, PodTold, Absent
<1>4. CASE pods'[r] = [pods[r] EXCEPT !.leaving = TRUE]
  <2>1. /\ pods'[r].phase = pods[r].phase /\ pods'[r].code = pods[r].code
        /\ pods'[r].finished = pods[r].finished /\ pods'[r].deadline = pods[r].deadline
        /\ pods'[r].start = pods[r].start /\ pods'[r].created = pods[r].created
    BY <1>1, <1>4 DEF ApplyPods
  <2>2. /\ Absent(pods[r])' <=> Absent(pods[r])
        /\ ExitOf(pods[r])' = ExitOf(pods[r])
        /\ EndedAt(pods[r], ApplyTimeout)' = EndedAt(pods[r], ApplyTimeout)
    BY <2>1 DEF Absent, ExitOf, EndedAt, Overdue
  <2> QED BY <2>1, <2>2 DEF RunKept, ExitedZero, PodTold
<1>5. \/ pods' = [pods EXCEPT ![x] = NoPod] \/ pods' = [pods EXCEPT ![x].leaving = TRUE]
      \/ pods' = pods
  BY DEF DeletePod, PodGoes, cluster
<1> QED BY <1>2, <1>3, <1>4, <1>5 DEF TypeOK, ClusterTypes

(* No run of r ended in time yet. *)
LEMMA NotYetKept ==
  ASSUME TypeOK, NEW r \in Requests,
         starts[r] = 0 \/ (~Absent(pods[r]) /\ pods[r].phase # "Ended"),
         PodTold(pods[r])'
  PROVE  RunKept(r)
BY DEF RunKept, ExitedZero, ExitOf

LEMMA KubeletKept ==
  ASSUME TypeOK, Safe, AllReported, NEW r \in Requests, NEW x \in Requests, PodTold(pods[r]),
         Kubelet(x)
  PROVE  RunKept(r)
<1>1. /\ clock \in Nat /\ clock # None /\ pods[r] \in ApplyPods /\ PodRunsOnce(r)
      /\ pods \in [Requests -> ApplyPods] /\ starts \in [Requests -> Nat]
  BY RequestTypes DEF Safe, TypeOK, ClusterTypes, HistoryTypes
<1>2. CASE PodGone(x)
  BY <1>2, PodLeavesKept DEF PodGone, history, bounds
<1>3. ASSUME NEW p, SetPod(x, p),
             \A y \in Requests \ {x} : starts'[y] = starts[y],
             pods[x].phase \in {"Pending", "Running"},
             pods[x].phase = "Pending" \/ ~Absent(pods[x]),
             p.code # NoExit => p.finished = clock \/ (p.code = pods[x].code /\ p.finished = pods[x].finished)
      PROVE  RunKept(r)
  <2>1. pods' = [pods EXCEPT ![x] = p] /\ UNCHANGED clock
    BY <1>3 DEF SetPod, bounds
  <2>2. CASE r # x
    <3>1. pods'[r] = pods[r] /\ starts'[r] = starts[r]
      BY <1>1, <1>3, <2>1, <2>2
    <3> QED BY <1>1, <2>1, <3>1, PodStaysKept DEF ClockGoesOn
  <2>3. CASE r = x
    <3>1. pods'[r] = p
      BY <1>1, <2>1, <2>3
    <3>2. PodTold(pods[r])'
      <4>1. clock \in 1..clock
        BY <1>1
      <4> QED BY <1>3, <2>1, <2>3, <3>1, <4>1 DEF PodTold
    <3>3. ~Absent(pods[r]) /\ pods[r].phase # "Ended"
      BY <1>3, <2>3 DEF Absent
    <3> QED BY <3>2, <3>3, NotYetKept
  <2> QED BY <2>2, <2>3
<1>4. CASE PodStarts(x)
  <2> DEFINE p == StartedPod(pods[x], configs[x].body, clock)
  <2>1. p.code = pods[x].code /\ p.finished = pods[x].finished
    BY <1>1 DEF StartedPod, ApplyPods
  <2>2. SetPod(x, p) /\ pods[x].phase = "Pending"
    BY <1>4 DEF PodStarts, MayStart
  <2>3. \A y \in Requests \ {x} : starts'[y] = starts[y]
    BY <1>1, <1>4 DEF PodStarts
  <2> HIDE DEF p
  <2> QED BY <1>3, <2>1, <2>2, <2>3
<1>5. ASSUME NEW code \in ExitCodes, ContainerExits(x, code)
      PROVE  RunKept(r)
  <2>1. ExitedPod(pods[x], code, clock).finished = clock
    BY <1>1 DEF ExitedPod, ApplyPods
  <2> QED BY <1>3, <1>5, <2>1 DEF ContainerExits, MayExit, Absent
<1>6. CASE DeadlineStops(x)
  <2>1. StoppedPod(pods[x], clock).finished = clock
    BY <1>1 DEF StoppedPod, ExitedPod, ApplyPods
  <2> QED BY <1>3, <1>6, <2>1 DEF DeadlineStops, MayStop, MayExit, Absent
<1>7. ASSUME NEW start, PodFails(x, start)
      PROVE  RunKept(r)
  <2>1. /\ FailedPod(pods[x], start).code = pods[x].code
        /\ FailedPod(pods[x], start).finished = pods[x].finished
    BY <1>1 DEF FailedPod, ApplyPods
  <2> QED BY <1>3, <1>7, <2>1 DEF PodFails, MayFail, Absent
<1> QED BY <1>2, <1>4, <1>5, <1>6, <1>7 DEF Kubelet

LEMMA RunsAreKept ==
  ASSUME TypeOK, Safe, AllReported, [Next]_vars, NEW r \in Requests, PodTold(pods[r])
  PROVE  RunKept(r) /\ ClockGoesOn
<1>1. clock \in Nat /\ pods \in [Requests -> ApplyPods]
  BY DEF TypeOK, BoundTypes, ClusterTypes
<1>2. ASSUME UNCHANGED <<pods, starts>>, clock' = clock \/ clock' = clock + 1
      PROVE  RunKept(r) /\ ClockGoesOn
  BY <1>1, <1>2, PodStaysKept DEF ClockGoesOn
<1>3. ASSUME NEW x \in Requests, DeleteApplyPod(x) \/ DeleteRun(x) \/ PodRemoved(x)
      PROVE  RunKept(r) /\ ClockGoesOn
  <2>1. DeletePod(x) /\ UNCHANGED <<starts, clock>>
    BY <1>3 DEF DeleteApplyPod, DeleteRun, PodRemoved, Happening, history, bounds
  <2> QED BY <1>1, <2>1, PodLeavesKept DEF ClockGoesOn
<1>4. ASSUME NEW x \in Requests, CreatePod(x)
      PROVE  RunKept(r) /\ ClockGoesOn
  <2>1. UNCHANGED <<starts, clock>> /\ ClockGoesOn
    BY <1>1, <1>4 DEF CreatePod, history, bounds, ClockGoesOn
  <2>2. CASE pods'[r] = pods[r]
    BY <2>1, <2>2, PodStaysKept
  <2>3. CASE x = r /\ pods'[r] = ApplyPod(clock)
    <3>1. starts[r] = 0
      BY <1>4, <2>3 DEF CreatePod, Safe, WorkerKnows
    <3>2. ApplyPod(clock).code = NoExit
      BY DEF ApplyPod, NoPod
    <3> QED BY <2>1, <2>3, <3>1, <3>2, NotYetKept DEF PodTold
  <2> QED BY <1>1, <1>4, <2>2, <2>3 DEF CreatePod
<1>5. ASSUME NEW x \in Requests, Reconcile(x)
      PROVE  RunKept(r) /\ ClockGoesOn
  <2>1. CASE \/ (\E allowed \in Answers : ObserveNew(x, allowed)) \/ ObserveRun(x) \/ ObserveDeleted(x)
             \/ WritePending(x) \/ CreateSecret(x) \/ CreateConfigMap(x) \/ Annotate(x)
             \/ RecordOnIncident(x) \/ PatchStatus(x) \/ Announce(x) \/ DeleteExpired(x)
             \/ RemoveFinalizer(x)
    BY <1>2, <2>1 DEF ObserveNew, ObserveRun, ObserveDeleted, WritePending, CreateSecret,
       CreateConfigMap, Annotate, RecordOnIncident, PatchStatus, Announce, DeleteExpired,
       RemoveFinalizer, cluster, history, bounds
  <2> QED BY <1>3, <1>4, <1>5, <2>1 DEF Reconcile
<1>6. ASSUME NEW x \in Requests, ObserveFails(x) \/ CallFails(x) \/ Collect(x) \/ Users(x)
      PROVE  RunKept(r) /\ ClockGoesOn
  BY <1>2, <1>6 DEF ObserveFails, CallFails, Collect, Users, RequestCreated, RequestDeleted,
     Happening, cluster,
     history, bounds
<1>7. ASSUME NEW x \in Requests, Kubelet(x)
      PROVE  RunKept(r) /\ ClockGoesOn
  <2>1. UNCHANGED clock
    BY <1>7 DEF Kubelet, PodStarts, ContainerExits, DeadlineStops, PodFails, PodGone, SetPod, bounds
  <2> QED BY <1>1, <1>7, <2>1, KubeletKept DEF ClockGoesOn
<1>8. CASE \/ Restart \/ CacheSync \/ IncidentSync \/ Tick \/ IncidentChanges \/ UNCHANGED vars
           \/ (\E x \in DOMAIN policies : PolicyChanges(x))
  BY <1>2, <1>8 DEF Restart, CacheSync, IncidentSync, Tick, IncidentChanges, HumanDecides, CheckEnds,
     WriterReanalyses, WriterFinishes, IncidentGone, StatusMoves, IncidentMoves, SetIncidentAlone,
     Happening, PolicyChanges, vars, cluster, history, bounds
<1> QED BY <1>3, <1>5, <1>6, <1>7, <1>8 DEF Next
-----------------------------------------------------------------------------
(* What a worker plans: what its pod says, or less than it did.            *)
PlanKept(r) ==
  /\ plan'[r].run \in {plan[r].run, NoRun}
  /\ plan'[r].dirty /\ plan'[r].status.phase = "Succeeded" =>
       plan[r].dirty /\ plan'[r].status = plan[r].status /\ plan'[r].run = plan[r].run
  /\ admittedFor'[r] = admittedFor[r]

PodsRun(r) == [exit |-> ExitOf(pods[r]), at |-> EndedAt(pods[r], ApplyTimeout)]

PlanRead(r) ==
  /\ \/ plan'[r].run = NoRun
     \/ ~Absent(pods[r]) /\ plan'[r].run = PodsRun(r)
  /\ plan'[r].dirty /\ plan'[r].status.phase = "Succeeded" =>
       plan'[r].run = [exit |-> 0, at |-> plan'[r].status.finishedAt]
  /\ \/ admittedFor'[r] = admittedFor[r]
     \/ admittedFor'[r] = incidentCache.analysis /\ incidentCache.status.state = "Open"
  /\ UNCHANGED <<incident, incidentCache, recorded, pods, starts, clock>>

LEMMA NoPlanValues ==
  /\ NoPlan.run = NoRun /\ NoPlan.dirty = FALSE /\ NoRun.exit # 0
  /\ \A fix : LET p == [NoPlan EXCEPT !.script = fix] IN p.run = NoRun /\ p.dirty = FALSE
BY DEF NoPlan, NoRun

LEMMA ConcludeReads ==
  ASSUME TypeOK, NEW r \in Requests, NEW st \in ApplyStatuses, NEW run, Conclude(r, st, run),
         run = NoRun \/ (~Absent(pods[r]) /\ run = PodsRun(r)),
         st # cache[r].status /\ st.phase = "Succeeded" => run = [exit |-> 0, at |-> st.finishedAt],
         \/ admittedFor'[r] = admittedFor[r]
         \/ admittedFor'[r] = incidentCache.analysis /\ incidentCache.status.state = "Open",
         UNCHANGED <<incident, incidentCache, recorded, pods, starts, clock>>
  PROVE  PlanRead(r)
<1> DEFINE dirty == st # cache[r].status
           announce == Terminal(st) /\ ~Terminal(cache[r].status)
           pod == Terminal(st) /\ ~Absent(pods[r]) /\ ~pods[r].leaving
           expired == Terminal(st) /\ clock >= st.finishedAt + TTL
           p == [NoPlan EXCEPT !.status = st, !.run = run, !.dirty = dirty,
                               !.announce = announce, !.pod = pod, !.expired = expired]
<1>1. p.run = run /\ p.dirty = dirty /\ p.status = st
  <2> HIDE DEF dirty, announce, pod, expired
  <2> QED BY DEF NoPlan
<1>2. Continue(r, cache[r], p)
  BY DEF Conclude
<1> HIDE DEF p
<1>3. CASE plan'[r] = p
  BY <1>1, <1>3 DEF PlanRead
<1>4. CASE plan'[r] = NoPlan
  BY <1>4, NoPlanValues DEF PlanRead
<1> QED BY <1>2, <1>3, <1>4, WorkerGoesOn, EndValues DEF Continue

LEMMA ObserveReads ==
  ASSUME TypeOK, NEW r \in Requests,
         (\E allowed \in Answers : ObserveNew(r, allowed)) \/ ObserveRun(r) \/ ObserveDeleted(r)
  PROVE  PlanRead(r)
<1> DEFINE old == cache[r].status
<1>1. UNCHANGED <<incident, incidentCache, recorded, pods, starts, clock>>
  BY DEF ObserveNew, ObserveRun, ObserveDeleted, objects, cluster, history, bounds
<1>2. /\ old \in ApplyStatuses /\ pods[r] \in ApplyPods /\ clock \in Time
      /\ configs[r] \in ConfigMaps /\ admittedFor \in [Requests -> Nat]
  BY StatusTypes DEF TypeOK, HistoryTypes
<1>3. ASSUME NEW to, NEW p, GoOn(r, to, cache[r], p), p.run = NoRun, p.dirty = FALSE,
             \/ admittedFor'[r] = admittedFor[r]
             \/ admittedFor'[r] = incidentCache.analysis /\ incidentCache.status.state = "Open"
      PROVE  PlanRead(r)
  BY <1>1, <1>3, WorkerGoesOn DEF PlanRead
<1>4. ASSUME NEW st \in ApplyStatuses, Conclude(r, st, NoRun),
             st # old => st.phase # "Succeeded",
             \/ admittedFor'[r] = admittedFor[r]
             \/ admittedFor'[r] = incidentCache.analysis /\ incidentCache.status.state = "Open"
      PROVE  PlanRead(r)
  BY <1>1, <1>4, ConcludeReads
<1>5. ASSUME NEW allowed \in Answers, ObserveNew(r, allowed)
      PROVE  PlanRead(r)
  <2>1. \/ admittedFor'[r] = admittedFor[r]
        \/ admittedFor'[r] = incidentCache.analysis /\ incidentCache.status.state = "Open"
    BY <1>2, <1>5 DEF ObserveNew, Admissible
  <2>2. CASE GoOn(r, "pending", cache[r], [NoPlan EXCEPT !.script = incidentCache.status.howToFix])
    BY <1>3, <2>1, <2>2, NoPlanValues
  <2>3. CASE Conclude(r, Ending(old, "Rejected", NoExit, clock), NoRun)
    <3> DEFINE st == Ending(old, "Rejected", NoExit, clock)
    <3>1. "Rejected" \in Phases /\ NoExit \in Exits
      BY DEF Phases, Exits
    <3>2. st \in ApplyStatuses /\ st.phase = "Rejected"
      BY <1>2, <3>1, EndingTypes, EndingValues
    <3>3. Conclude(r, st, NoRun)
      BY <2>3
    <3> HIDE DEF st
    <3> QED BY <1>4, <2>1, <3>2, <3>3
  <2> QED BY <1>5, <2>2, <2>3 DEF ObserveNew
<1>6. CASE ObserveRun(r)
  <2> DEFINE st == IF old.phase = NoPhase THEN Started(r) ELSE old
             end == FinishedRun(r, st)
  <2>1. UNCHANGED admittedFor
    BY <1>6 DEF ObserveRun, history
  <2>2. Started(r) \in ApplyStatuses /\ Started(r).phase = "Running"
    BY <1>2 DEF Started, ApplyStatuses, Phases, ConfigMaps
  <2>3. st \in ApplyStatuses /\ (st # old => st.phase = "Running")
    BY <1>2, <2>2
  <2>4. \/ Conclude(r, Ending(st, "Failed", NoExit, clock), NoRun)
        \/ ~Absent(pods[r]) /\ Conclude(r, end, PodsRun(r))
        \/ Conclude(r, st, NoRun)
    BY <1>6 DEF ObserveRun, PodsRun
  <2> HIDE DEF st
  <2>5. ASSUME Conclude(r, Ending(st, "Failed", NoExit, clock), NoRun)
        PROVE  PlanRead(r)
    <3>1. "Failed" \in Phases /\ NoExit \in Exits
      BY DEF Phases, Exits
    <3>2. Ending(st, "Failed", NoExit, clock) \in ApplyStatuses
          /\ Ending(st, "Failed", NoExit, clock).phase = "Failed"
      BY <1>2, <2>3, <3>1, EndingTypes, EndingValues
    <3> QED BY <1>4, <2>1, <2>5, <3>2
  <2>6. ASSUME ~Absent(pods[r]), Conclude(r, end, PodsRun(r))
        PROVE  PlanRead(r)
    <3> DEFINE phase == IF ExitOf(pods[r]) = 0 THEN "Succeeded" ELSE "Failed"
    <3>1. ExitOf(pods[r]) \in Exits /\ EndedAt(pods[r], ApplyTimeout) \in Time /\ phase \in Phases
      BY <1>2, RunTypes DEF Phases
    <3>2. /\ end \in ApplyStatuses /\ end.phase = phase
          /\ end.finishedAt = EndedAt(pods[r], ApplyTimeout)
      BY <2>3, <3>1, EndingTypes, EndingValues DEF FinishedRun
    <3> HIDE DEF end
    <3>3. end.phase = "Succeeded" => PodsRun(r) = [exit |-> 0, at |-> end.finishedAt]
      BY <3>2 DEF PodsRun
    <3> QED BY <1>1, <2>1, <2>6, <3>2, <3>3, ConcludeReads
  <2>7. ASSUME Conclude(r, st, NoRun)
        PROVE  PlanRead(r)
    BY <1>4, <2>1, <2>3, <2>7
  <2> QED BY <2>4, <2>5, <2>6, <2>7
<1>7. CASE ObserveDeleted(r)
  <2>1. admittedFor' = admittedFor
    BY <1>7 DEF ObserveDeleted, history
  <2> QED BY <1>3, <1>7, <2>1, NoPlanValues DEF ObserveDeleted
<1> QED BY <1>5, <1>6, <1>7

LEMMA PlansMove ==
  ASSUME TypeOK, [Next]_vars, NEW r \in Requests
  PROVE  PlanKept(r) \/ PlanRead(r) \/ RecordOnIncident(r)
<1>1. ASSUME plan'[r] = plan[r], admittedFor'[r] = admittedFor[r]
      PROVE  PlanKept(r)
  BY <1>1 DEF PlanKept
<1>2. ASSUME plan'[r] = NoPlan, admittedFor'[r] = admittedFor[r]
      PROVE  PlanKept(r)
  BY <1>2, NoPlanValues DEF PlanKept
<1>3. ASSUME NEW x \in Requests \ {r}, Reconcile(x)
      PROVE  PlanKept(r)
  <2>1. WorkersStay(r)
    BY <1>3, WorkerMoves, EndValues, WorkerGoesOn
  <2>2. admittedFor'[r] = admittedFor[r]
    <3>1. admittedFor' = admittedFor \/ admittedFor' = [admittedFor EXCEPT ![x] = incidentCache.analysis]
      BY <1>3 DEF Reconcile, ObserveNew, ObserveRun, ObserveDeleted, WritePending, CreatePod,
         CreateSecret, CreateConfigMap, Annotate, RecordOnIncident, PatchStatus, Announce,
         DeleteApplyPod, DeleteExpired, DeleteRun, RemoveFinalizer, history
    <3> QED BY <3>1 DEF TypeOK, HistoryTypes
  <2> QED BY <1>1, <2>1, <2>2 DEF WorkersStay
<1>4. CASE Reconcile(r)
  <2>1. CASE (\E allowed \in Answers : ObserveNew(r, allowed)) \/ ObserveRun(r) \/ ObserveDeleted(r)
    BY <2>1, ObserveReads
  <2>2. ASSUME UNCHANGED admittedFor, NEW to, NEW o, NEW p, GoOn(r, to, o, p) \/ Continue(r, o, p),
               p.run = plan[r].run, p.status = plan[r].status, p.dirty => plan[r].dirty
        PROVE  PlanKept(r)
    <3>1. plan'[r] = p \/ plan'[r] = NoPlan
      BY <2>2, WorkerGoesOn, EndValues DEF Continue
    <3> QED BY <1>2, <2>2, <3>1 DEF PlanKept
  <2>3. ASSUME UNCHANGED admittedFor, EndReconcile(r)
        PROVE  PlanKept(r)
    BY <1>2, <2>3, EndValues
  <2>4. CASE \/ WritePending(r) \/ CreatePod(r) \/ CreateSecret(r) \/ CreateConfigMap(r)
             \/ Annotate(r) \/ DeleteRun(r) \/ RemoveFinalizer(r) \/ DeleteExpired(r)
    <3>1. UNCHANGED admittedFor
      BY <2>4 DEF WritePending, CreatePod, CreateSecret, CreateConfigMap, Annotate, DeleteRun,
         RemoveFinalizer, DeleteExpired, history
    <3>2. EndReconcile(r) \/ \E to, o : GoOn(r, to, o, plan[r])
      BY <2>4 DEF WritePending, CreatePod, CreateSecret, CreateConfigMap, Annotate, DeleteRun,
         RemoveFinalizer, DeleteExpired
    <3> QED BY <2>2, <2>3, <3>1, <3>2
  <2>5. CASE PatchStatus(r) \/ Announce(r) \/ DeleteApplyPod(r)
    <3>1. UNCHANGED admittedFor
      BY <2>5 DEF PatchStatus, Announce, DeleteApplyPod, history
    <3>2. \A p \in { [plan[r] EXCEPT !.dirty = FALSE], [plan[r] EXCEPT !.announce = FALSE],
                     [plan[r] EXCEPT !.pod = FALSE] } :
            p.run = plan[r].run /\ p.status = plan[r].status /\ (p.dirty => plan[r].dirty)
      BY RequestTypes DEF Plans
    <3>3. EndReconcile(r) \/ \E o, p : Continue(r, o, p) /\
            p \in { [plan[r] EXCEPT !.dirty = FALSE], [plan[r] EXCEPT !.announce = FALSE],
                    [plan[r] EXCEPT !.pod = FALSE] }
      BY <2>5 DEF PatchStatus, Announce, DeleteApplyPod
    <3> QED BY <2>2, <2>3, <3>1, <3>2, <3>3
  <2> QED BY <1>4, <2>1, <2>4, <2>5 DEF Reconcile
<1>5. ASSUME NEW x \in Requests, CallFails(x)
      PROVE  PlanKept(r)
  <2>1. UNCHANGED admittedFor
    BY <1>5 DEF CallFails, history
  <2>2. plan'[r] = plan[r] \/ plan'[r] = NoPlan
    BY <1>5, EndValues, WorkerGoesOn DEF CallFails, WorkersStay
  <2> QED BY <1>1, <1>2, <2>1, <2>2
<1>6. CASE Restart
  BY <1>2, <1>6 DEF Restart, history
<1>7. ASSUME NEW x \in Requests,
             ObserveFails(x) \/ Kubelet(x) \/ Collect(x) \/ Users(x) \/ PodRemoved(x)
      PROVE  PlanKept(r)
  <2>1. UNCHANGED <<plan, admittedFor>>
    BY <1>7 DEF ObserveFails, Kubelet, PodStarts, ContainerExits, DeadlineStops, PodFails, PodGone,
       SetPod,
       Collect, Users, RequestCreated, RequestDeleted, PodRemoved, Happening, workers, history
  <2> QED BY <1>1, <2>1
<1>8. CASE CacheSync \/ IncidentSync \/ Tick \/ IncidentChanges \/ UNCHANGED vars
           \/ (\E x \in DOMAIN policies : PolicyChanges(x))
  <2>1. UNCHANGED <<plan, admittedFor>>
    BY <1>8 DEF CacheSync, IncidentSync, Tick, IncidentChanges, HumanDecides, CheckEnds,
       WriterReanalyses, WriterFinishes, IncidentGone, StatusMoves, IncidentMoves, SetIncidentAlone,
       Happening, PolicyChanges, vars, workers, history
  <2> QED BY <1>1, <2>1
<1> QED BY <1>3, <1>4, <1>5, <1>6, <1>7, <1>8 DEF Next
-----------------------------------------------------------------------------
(* Each part of Recorded is kept. *)
LEMMA AnalysesGoOn ==
  ASSUME TypeOK, IncidentBehind, NEW r \in Requests, AdmittedInPast(r)
  PROVE  /\ incident.analysis = admittedFor[r] =>
              /\ incidentCache.analysis = incident.analysis
              /\ incidentCache.status.state # "Analyzing" /\ incident.status.state # "Analyzing"
         /\ IncidentForward /\ incident'.analysis = admittedFor[r] /\ incident'.analysis \in Nat =>
              incident.analysis = admittedFor[r]
<1>1. /\ incident.analysis \in Nat /\ incidentCache.analysis \in Nat /\ admittedFor[r] \in Nat
  BY IncidentValues DEF TypeOK, HistoryTypes
<1>2. incidentCache.analysis <= incident.analysis /\ admittedFor[r] <= incidentCache.analysis
  BY DEF IncidentBehind, AdmittedInPast
<1>3. incident.analysis = admittedFor[r] => incidentCache.analysis = incident.analysis
  BY <1>1, <1>2
<1>4. ASSUME IncidentForward, incident'.analysis = admittedFor[r], incident'.analysis \in Nat
      PROVE  incident.analysis = admittedFor[r]
  <2>1. incident.analysis <= incident'.analysis
    BY <1>4 DEF IncidentForward
  <2> QED BY <1>1, <1>2, <1>4, <2>1
<1>5. incident.analysis = admittedFor[r] =>
        incidentCache.status.state # "Analyzing" /\ incident.status.state # "Analyzing"
  BY <1>3 DEF IncidentBehind, AdmittedInPast
<1> QED BY <1>3, <1>4, <1>5

LEMMA BehindStays ==
  ASSUME TypeOK, TypeOK', IncidentBehind, IncidentForward
  PROVE  IncidentBehind'
<1>1. /\ incident.analysis \in Nat /\ incidentCache.analysis \in Nat
      /\ incident'.analysis \in Nat /\ incidentCache'.analysis \in Nat
  BY IncidentValues DEF TypeOK, ObjectTypes, Incidents
<1>2. incidentCache.analysis <= incident.analysis /\ incident.analysis <= incident'.analysis
  BY DEF IncidentBehind, IncidentForward
<1>3. CASE incidentCache' = incident'
  <2>1. incidentCache'.analysis <= incident'.analysis
    BY <1>1, <1>3
  <2> QED BY <1>3, <2>1 DEF IncidentBehind, IncidentForward
<1>4. CASE incidentCache' = incidentCache
  <2>1. incidentCache'.analysis <= incident'.analysis
    BY <1>1, <1>2, <1>4
  <2>2. incidentCache'.analysis = incident'.analysis =>
          incidentCache.analysis = incident.analysis /\ incident'.analysis = incident.analysis
    BY <1>1, <1>2, <1>4
  <2> QED BY <1>4, <2>1, <2>2 DEF IncidentBehind, IncidentForward
<1> QED BY <1>3, <1>4 DEF IncidentForward

LEMMA AdmittedStaysInPast ==
  ASSUME TypeOK, TypeOK', IncidentBehind, IncidentForward, NEW r \in Requests, AdmittedInPast(r),
         \/ admittedFor'[r] = admittedFor[r]
         \/ /\ admittedFor'[r] = incidentCache.analysis /\ incidentCache.status.state = "Open"
            /\ incidentCache' = incidentCache
  PROVE  AdmittedInPast(r)'
<1>1. /\ incident.analysis \in Nat /\ incidentCache.analysis \in Nat /\ admittedFor[r] \in Nat
      /\ incident'.analysis \in Nat
  BY IncidentValues DEF TypeOK, ObjectTypes, Incidents, HistoryTypes
<1>2. CASE admittedFor'[r] = incidentCache.analysis /\ incidentCache.status.state = "Open"
           /\ incidentCache' = incidentCache
  <2>1. admittedFor'[r] <= incidentCache'.analysis
    BY <1>1, <1>2
  <2> QED BY <1>2, <2>1 DEF AdmittedInPast
<1>3. CASE admittedFor'[r] = admittedFor[r] /\ incidentCache' = incidentCache
  BY <1>3 DEF AdmittedInPast
<1>4. CASE admittedFor'[r] = admittedFor[r] /\ incidentCache' = incident'
  <2>1. /\ incidentCache.analysis <= incident.analysis /\ incident.analysis <= incident'.analysis
        /\ admittedFor[r] <= incidentCache.analysis
    BY DEF IncidentBehind, IncidentForward, AdmittedInPast
  <2>2. admittedFor'[r] <= incidentCache'.analysis
    BY <1>1, <1>4, <2>1
  <2>3. admittedFor'[r] = incidentCache'.analysis =>
          incident.analysis = admittedFor[r] /\ incident'.analysis = incident.analysis
    BY <1>1, <1>4, <2>1
  <2>4. admittedFor'[r] = incidentCache'.analysis => incidentCache'.status.state # "Analyzing"
    BY <1>4, <2>3, AnalysesGoOn DEF IncidentForward
  <2> QED BY <2>2, <2>4 DEF AdmittedInPast
<1> QED BY <1>2, <1>3, <1>4 DEF IncidentForward

(* An incident that takes runs now took them before. *)
LEMMA TookRuns ==
  ASSUME TypeOK, TypeOK', IncidentBehind, IncidentForward, NEW r \in Requests, AdmittedInPast(r),
         incident'.there, incident'.status.state \in {"Open", "Verifying"},
         incident'.analysis = admittedFor[r]
  PROVE  /\ incident.there /\ incident.status.state \in {"Open", "Verifying"}
         /\ incident.analysis = admittedFor[r]
<1>1. incident.analysis = admittedFor[r] /\ incident.status.state # "Analyzing"
  BY AnalysesGoOn DEF TypeOK, ObjectTypes, Incidents
<1>2. incident.status.state \notin Ended /\ incident.status.state # ""
  BY DEF IncidentForward, IncidentBehind, Ended
<1>3. incident.status.state \in States
  BY IncidentValues
<1> QED BY <1>1, <1>2, <1>3 DEF IncidentForward, States, Ended

LEMMA HasRunStays ==
  ASSUME TypeOK, TypeOK', IncidentBehind, IncidentForward, EntryMoves,
         NEW r \in Requests, AdmittedInPast(r), admittedFor'[r] = admittedFor[r],
         NEW at \in Nat, at <= clock, HasRun(r, at)
  PROVE  HasRun(r, at)'
<1> SUFFICES ASSUME incident'.there, incident'.status.state \in {"Open", "Verifying"},
                    incident'.analysis = admittedFor[r], OthersUnrecorded(r)'
             PROVE  ApplyEntry(incident').since >= at
  BY DEF HasRun, ApplyEntry
<1>1. /\ incident.there /\ incident.status.state \in {"Open", "Verifying"}
      /\ incident.analysis = admittedFor[r]
  BY TookRuns
<1>2. ApplyEntry(incident).since >= at
  BY <1>1 DEF HasRun, OthersUnrecorded, EntryMoves
<1>3. clock >= at
  BY RequestTypes
<1>4. ~(incident.analysis < incident'.analysis)
  <2>1. incident.analysis = incident'.analysis /\ incident.analysis \in Nat
    BY <1>1, IncidentValues
  <2> QED BY <2>1
<1> QED BY <1>2, <1>3, <1>4 DEF EntryMoves

(* A step that records no run and reads no pod. *)
LEMMA PlanStaysTrue ==
  ASSUME TypeOK, TypeOK', ClockGoesOn, IncidentBehind, IncidentForward, EntryMoves,
         NEW r \in Requests, AdmittedInPast(r), PlansItsRun(r), PlanKept(r), RunKept(r)
  PROVE  PlansItsRun(r)'
<1>1. plan[r].run.at \in Nat /\ plan[r].status.finishedAt \in Nat /\ clock \in Nat
  BY RequestTypes DEF Plans, Runs, ApplyStatuses
<1>2. plan'[r].run.exit = 0 => ExitedZero(r, plan[r].run.at)'
  BY <1>1, NoPlanValues DEF PlansItsRun, PlanKept, RunKept, ExitedZero
<1>3. ASSUME plan'[r].dirty, plan'[r].status.phase = "Succeeded"
      PROVE  LET at == plan'[r].status.finishedAt IN
             /\ at <= clock'
             /\ \/ plan'[r].run = [exit |-> 0, at |-> at]
                \/ plan'[r].run = NoRun /\ HasRun(r, plan[r].status.finishedAt)'
  <2> DEFINE at == plan[r].status.finishedAt
  <2>1. /\ plan'[r].status = plan[r].status /\ plan'[r].run = plan[r].run
        /\ admittedFor'[r] = admittedFor[r]
        /\ plan[r].run = [exit |-> 0, at |-> at] \/ (plan[r].run = NoRun /\ HasRun(r, at))
    BY <1>3 DEF PlanKept, PlansItsRun
  <2>2. at <= clock
    BY <1>3 DEF PlanKept, PlansItsRun
  <2>3. at <= clock'
    BY <1>1, <2>2 DEF ClockGoesOn
  <2>4. ASSUME NEW t \in Nat, t = at, HasRun(r, t)
        PROVE  HasRun(r, t)'
    BY <2>1, <2>2, <2>4, HasRunStays
  <2>5. HasRun(r, at) => HasRun(r, plan[r].status.finishedAt)'
    BY <1>1, <2>1, <2>4 DEF HasRun
  <2> QED BY <2>1, <2>3, <2>5
<1> QED BY <1>2, <1>3 DEF PlansItsRun, RunKept, PodTold

LEMMA EntryStaysTrue ==
  ASSUME TypeOK, TypeOK', IncidentBehind, IncidentForward, EntryMoves,
         NEW r \in Requests, EntryIsTrue(r), PlanKept(r), RunKept(r)
  PROVE  EntryIsTrue(r)'
<1> SUFFICES ASSUME OthersUnrecorded(r)'
             PROVE  /\ \A i \in {incident', incidentCache'} :
                         ApplyEntry(i).exit = 0 =>
                           /\ ExitedZero(r, ApplyEntry(i).since)'
                           /\ plan'[r].run \in {NoRun, [exit |-> 0, at |-> ApplyEntry(i).since]}
                    /\ incidentCache'.analysis = incident'.analysis
                       /\ ApplyEntry(incidentCache').exit = 0 =>
                         ApplyEntry(incident').since >= ApplyEntry(incidentCache').since
  BY DEF EntryIsTrue, ApplyEntry, ExitedZero
<1>1. OthersUnrecorded(r)
  BY DEF OthersUnrecorded, EntryMoves
<1>2. /\ ApplyEntry(incident).since \in Nat /\ ApplyEntry(incidentCache).since \in Nat
      /\ ApplyEntry(incident').since \in Nat /\ clock \in Nat
  BY IncidentValues, RequestTypes DEF TypeOK, ObjectTypes, Incidents, Statuses, ApplyEntry, Checks,
     Scripts
<1>3. ASSUME NEW e, e \in {ApplyEntry(incident), ApplyEntry(incidentCache)}, e.exit = 0
      PROVE  /\ ExitedZero(r, e.since)'
             /\ plan'[r].run \in {NoRun, [exit |-> 0, at |-> e.since]}
             /\ e.since <= clock
  <2>1. e.since \in Nat /\ ExitedZero(r, e.since)
    BY <1>1, <1>2, <1>3 DEF EntryIsTrue
  <2>2. plan'[r].run \in {NoRun, [exit |-> 0, at |-> e.since]}
    BY <1>1, <1>3 DEF EntryIsTrue, PlanKept
  <2> QED BY <2>1, <2>2 DEF RunKept, ExitedZero
<1>4. ApplyEntry(incident').exit = 0 => ApplyEntry(incident') = ApplyEntry(incident)
  BY DEF EntryMoves
<1>5. /\ incidentCache' = incident' \/ incidentCache' = incidentCache
      /\ ApplyEntry(incidentCache') \in {ApplyEntry(incident'), ApplyEntry(incidentCache)}
  BY DEF IncidentForward
<1>6. ASSUME NEW i \in {incident', incidentCache'}, ApplyEntry(i).exit = 0
      PROVE  /\ ExitedZero(r, ApplyEntry(i).since)'
             /\ plan'[r].run \in {NoRun, [exit |-> 0, at |-> ApplyEntry(i).since]}
  <2>1. ApplyEntry(i) \in {ApplyEntry(incident), ApplyEntry(incidentCache)}
    BY <1>4, <1>5, <1>6
  <2>2. PICK e : e = ApplyEntry(i)
    OBVIOUS
  <2>3. /\ ExitedZero(r, e.since)'
        /\ plan'[r].run \in {NoRun, [exit |-> 0, at |-> e.since]}
    BY <1>3, <1>6, <2>1, <2>2
  <2> QED BY <2>2, <2>3 DEF ExitedZero
<1>7. ASSUME incidentCache'.analysis = incident'.analysis, ApplyEntry(incidentCache').exit = 0
      PROVE  ApplyEntry(incident').since >= ApplyEntry(incidentCache').since
  <2>1. CASE ApplyEntry(incidentCache') = ApplyEntry(incident')
    BY <1>2, <2>1
  <2>2. CASE incidentCache' = incidentCache
    <3>1. /\ incident.analysis \in Nat /\ incidentCache.analysis \in Nat /\ incident'.analysis \in Nat
          /\ incidentCache.analysis <= incident.analysis /\ incident.analysis <= incident'.analysis
      BY IncidentValues DEF IncidentBehind, IncidentForward, TypeOK, ObjectTypes, Incidents
    <3>2. incidentCache.analysis = incident.analysis /\ ~(incident.analysis < incident'.analysis)
      BY <1>7, <2>2, <3>1
    <3>3. ApplyEntry(incidentCache).exit = 0 /\ ApplyEntry(incidentCache).since <= clock
      BY <1>3, <1>7, <2>2
    <3>4. ApplyEntry(incident).since >= ApplyEntry(incidentCache).since
      BY <1>1, <3>2, <3>3 DEF EntryIsTrue
    <3>5. CASE ApplyEntry(incident') = ApplyEntry(incident)
      BY <2>2, <3>4, <3>5
    <3>6. CASE ApplyEntry(incident').since = clock
      BY <1>2, <2>2, <3>3, <3>6
    <3> QED BY <3>2, <3>5, <3>6 DEF EntryMoves
  <2> QED BY <1>5, <2>1, <2>2
<1> QED BY <1>6, <1>7

(* A reconcile reads the pod. *)
LEMMA ReadIsTrue ==
  ASSUME TypeOK, AllReported, NEW r \in Requests, PlansItsRun(r), EntryIsTrue(r), PlanRead(r)
  PROVE  PlansItsRun(r)' /\ EntryIsTrue(r)'
<1>1. /\ UNCHANGED <<incident, incidentCache, recorded, pods, starts, clock>>
      /\ pods[r] \in ApplyPods /\ clock \in Nat
  BY RequestTypes DEF PlanRead
<1>2. ASSUME ~Absent(pods[r]), ExitOf(pods[r]) = 0
      PROVE  /\ ExitedZero(r, EndedAt(pods[r], ApplyTimeout))
             /\ EndedAt(pods[r], ApplyTimeout) <= clock
  <2>1. pods[r].phase = "Ended" /\ pods[r].code # NoExit
    BY <1>2 DEF ExitOf
  <2>2. starts[r] > 0
    BY <2>1 DEF AllReported, Reported, RunsItsScript
  <2>3. pods[r].finished \in 1..clock
    BY <2>1 DEF PlansItsRun
  <2>4. EndedAt(pods[r], ApplyTimeout) = pods[r].finished
    BY <1>1, <2>1, <2>3 DEF EndedAt
  <2>5. EndedAt(pods[r], ApplyTimeout) <= clock
    BY <1>1, <2>3, <2>4
  <2> QED BY <1>2, <2>2, <2>5 DEF ExitedZero
<1>3. plan'[r].run.exit = 0 =>
        ~Absent(pods[r]) /\ ExitOf(pods[r]) = 0 /\ plan'[r].run.at = EndedAt(pods[r], ApplyTimeout)
  BY NoPlanValues DEF PlanRead, PodsRun
<1>4. PlansItsRun(r)'
  <2>1. plan'[r].run.exit = 0 => ExitedZero(r, plan[r].run.at)' /\ plan'[r].run.at <= clock'
    BY <1>1, <1>2, <1>3 DEF ExitedZero
  <2>2. plan'[r].dirty /\ plan'[r].status.phase = "Succeeded" =>
          /\ plan'[r].run = [exit |-> 0, at |-> plan'[r].status.finishedAt]
          /\ plan'[r].status.finishedAt <= clock'
    BY <2>1 DEF PlanRead
  <2> QED BY <1>1, <2>1, <2>2 DEF PlansItsRun
<1>5. EntryIsTrue(r)'
  <2> SUFFICES ASSUME OthersUnrecorded(r), NEW i \in {incident, incidentCache}, ApplyEntry(i).exit = 0
               PROVE  /\ ExitedZero(r, ApplyEntry(i).since)
                      /\ plan'[r].run \in {NoRun, [exit |-> 0, at |-> ApplyEntry(i).since]}
    BY <1>1 DEF EntryIsTrue, OthersUnrecorded, ApplyEntry, ExitedZero
  <2>1. ExitedZero(r, ApplyEntry(i).since)
    BY DEF EntryIsTrue
  <2>2. ~Absent(pods[r]) => PodsRun(r) = [exit |-> 0, at |-> ApplyEntry(i).since]
    BY <2>1 DEF ExitedZero, PodsRun
  <2> QED BY <2>1, <2>2 DEF PlanRead
<1> QED BY <1>4, <1>5

(* A worker records its run, finds it recorded, or reads the incident anew. *)
LEMMA RecordPlans ==
  ASSUME TypeOK, NEW r \in Requests, RecordOnIncident(r)
  PROVE  /\ plan[r].run # NoRun /\ plan'[r].run = NoRun
         /\ plan'[r].dirty =>
              /\ plan[r].dirty /\ plan'[r].status = plan[r].status
              /\ \/ incident' # incident
                 \/ ~incidentCache.there
                 \/ RecordApply(incidentCache.status, plan[r].run.exit, plan[r].run.at)
                      = incidentCache.status
         /\ UNCHANGED <<admittedFor, clock, starts, pods>>
<1> DEFINE st == RecordApply(incidentCache.status, plan[r].run.exit, plan[r].run.at)
           done == [plan[r] EXCEPT !.run = NoRun]
<1>1. done.run = NoRun /\ done.dirty = plan[r].dirty /\ done.status = plan[r].status
  BY RequestTypes DEF Plans
<1>2. plan[r].run # NoRun /\ UNCHANGED <<admittedFor, clock, starts, pods>>
  BY DEF RecordOnIncident, cluster, bounds
<1>3. CASE EndReconcile(r)
  BY <1>2, <1>3, EndValues, NoPlanValues
<1>4. CASE GoOn(r, "update", copy[r], done)
           /\ (incident' # incident \/ ~incidentCache.there \/ st = incidentCache.status)
  <2> HIDE DEF done, st
  <2>1. plan'[r] = done
    BY <1>4, WorkerGoesOn
  <2> QED BY <1>1, <1>2, <1>4, <2>1 DEF st
<1>5. st # incidentCache.status /\ incidentCache = incident
        /\ SetIncident([incident EXCEPT !.status = st]) => incident' # incident
  <2> DEFINE i == [incident EXCEPT !.status = st]
  <2> HIDE DEF st
  <2>1. /\ incident \in Incidents /\ i.status = st /\ incident.version \in Nat
        /\ [i EXCEPT !.version = @ + 1].status = st
    BY IncidentValues DEF Incidents
  <2> HIDE DEF i
  <2>2. SetIncident(i) /\ st # incident.status => incident' # incident
    BY <2>1 DEF SetIncident
  <2> QED BY <2>2 DEF i
<1> QED BY <1>3, <1>4, <1>5 DEF RecordOnIncident, Continue

LEMMA RunOnIncident ==
  ASSUME TypeOK, TypeOK', IncidentBehind, NEW r \in Requests, AdmittedInPast(r), EntryIsTrue(r),
         RecordOnIncident(r), NEW at \in Nat, plan[r].run = [exit |-> 0, at |-> at],
         plan'[r].dirty
  PROVE  HasRun(r, at)'
<1>1. IncidentForward /\ plan[r].run.exit = 0 /\ plan[r].run.at = at /\ UNCHANGED admittedFor
  BY RecordMovesForward, RecordPlans
<1>2. CASE UNCHANGED <<incident, incidentCache, recorded>>
  <2> SUFFICES ASSUME incident.there, incident.status.state \in {"Open", "Verifying"},
                      incident.analysis = admittedFor[r], OthersUnrecorded(r)
               PROVE  ApplyEntry(incident).since >= at
    BY <1>1, <1>2 DEF HasRun, ApplyEntry, OthersUnrecorded
  <2>1. /\ incidentCache.there /\ incidentCache.analysis = incident.analysis
        /\ incidentCache.status.state # "Analyzing"
    BY AnalysesGoOn DEF IncidentBehind
  <2>2. incidentCache.status.state \in {"Open", "Verifying"}
    <3>1. incidentCache.status.state \in States /\ incidentCache.status.state # ""
          /\ incidentCache.status.state \notin Ended
      BY IncidentValues DEF IncidentBehind, Ended
    <3> QED BY <2>1, <3>1 DEF States, Ended
  <2>3. RecordApply(incidentCache.status, 0, at) = incidentCache.status
    BY <1>1, <1>2, <2>1, RecordPlans
  <2>4. ApplyEntry(incidentCache) = [exit |-> 0, since |-> at]
    <3>1. incidentCache.status \in Statuses /\ 0 \in Exits /\ at \in Time
      BY IncidentValues DEF Exits
    <3> QED BY <2>2, <2>3, <3>1, RecordsApply DEF ApplyEntry
  <2> QED BY <2>1, <2>4 DEF EntryIsTrue
<1>3. CASE ApplyEntry(incident') = [exit |-> plan[r].run.exit, since |-> plan[r].run.at]
  <2>1. ApplyEntry(incident').since >= at
    BY <1>1, <1>3
  <2> QED BY <2>1 DEF HasRun, ApplyEntry
<1> QED BY <1>2, <1>3, RecordMovesForward

LEMMA RecordIsTrue ==
  ASSUME TypeOK, TypeOK', IncidentBehind, NEW r \in Requests, AdmittedInPast(r), PlansItsRun(r),
         EntryIsTrue(r), RunKept(r), RecordOnIncident(r)
  PROVE  PlansItsRun(r)' /\ EntryIsTrue(r)'
<1>1. /\ plan[r].run # NoRun /\ plan'[r].run = NoRun
      /\ plan'[r].dirty => plan[r].dirty /\ plan'[r].status = plan[r].status
      /\ UNCHANGED <<admittedFor, clock, starts, pods>>
  BY RecordPlans
<1>2. PlansItsRun(r)'
  <2>1. plan'[r].run.exit # 0
    BY <1>1, NoPlanValues
  <2>2. ASSUME plan'[r].dirty, plan'[r].status.phase = "Succeeded"
        PROVE  plan'[r].status.finishedAt <= clock' /\ HasRun(r, plan[r].status.finishedAt)'
    <3>1. PICK at : at = plan[r].status.finishedAt
      OBVIOUS
    <3>2. /\ at <= clock /\ plan[r].run = [exit |-> 0, at |-> at]
          /\ plan'[r].status.finishedAt = at
      BY <1>1, <2>2, <3>1 DEF PlansItsRun
    <3>3. at \in Nat
      BY <3>1, StatusTypes DEF ApplyStatuses
    <3>4. HasRun(r, at)'
      BY <2>2, <3>2, <3>3, RunOnIncident
    <3> QED BY <1>1, <3>2, <3>4 DEF HasRun
  <2> QED BY <1>1, <2>1, <2>2 DEF PlansItsRun, RunKept, PodTold
<1>3. CASE UNCHANGED <<incident, incidentCache, recorded>>
  <2>1. EntryIsTrue(r)'
    BY <1>1, <1>3 DEF EntryIsTrue, OthersUnrecorded, ApplyEntry, ExitedZero
  <2> QED BY <1>2, <2>1
<1>4. CASE /\ incidentCache = incident /\ incidentCache' \in {incidentCache, incident'}
           /\ \A x \in Requests \ {r} : recorded'[x] = recorded[x]
           /\ ApplyEntry(incident') = [exit |-> plan[r].run.exit, since |-> plan[r].run.at]
  <2> SUFFICES ASSUME OthersUnrecorded(r)'
               PROVE  /\ \A i \in {incident', incidentCache'} :
                           ApplyEntry(i).exit = 0 => ExitedZero(r, ApplyEntry(i).since)
                      /\ ApplyEntry(incidentCache').exit = 0 =>
                           ApplyEntry(incident').since >= ApplyEntry(incidentCache').since
    BY <1>1, <1>2 DEF EntryIsTrue, ApplyEntry, ExitedZero
  <2>1. OthersUnrecorded(r)
    BY <1>4 DEF OthersUnrecorded
  <2>2. ApplyEntry(incident').exit = 0 => ExitedZero(r, ApplyEntry(incident').since)
    BY <1>4 DEF PlansItsRun
  <2>3. ApplyEntry(incident).exit = 0 =>
          /\ ExitedZero(r, ApplyEntry(incident).since)
          /\ ApplyEntry(incident').since = ApplyEntry(incident).since
    BY <1>1, <1>4, <2>1 DEF EntryIsTrue
  <2>4. ApplyEntry(incidentCache') \in {ApplyEntry(incident), ApplyEntry(incident')}
    BY <1>4
  <2>5. ApplyEntry(incident').since \in Nat
    BY IncidentValues, RequestTypes, <1>4 DEF Plans, Runs
  <2>6. \A i \in {incident', incidentCache'} :
          ApplyEntry(i).exit = 0 => ExitedZero(r, ApplyEntry(i).since)
    BY <1>4, <2>2, <2>3
  <2>7. ApplyEntry(incidentCache').exit = 0 =>
          ApplyEntry(incident').since >= ApplyEntry(incidentCache').since
    BY <2>3, <2>4, <2>5
  <2> QED BY <2>6, <2>7
<1> QED BY <1>3, <1>4, RecordMovesForward DEF IncidentForward

(* A run another request records is none of r's. *)
LEMMA OthersRunRecorded ==
  ASSUME TypeOK, TypeOK', ClockGoesOn, NEW r \in Requests, PlansItsRun(r), PlanKept(r), RunKept(r),
         NEW q \in Requests \ {r}, recorded'[q] > 0
  PROVE  PlansItsRun(r)' /\ EntryIsTrue(r)'
<1>1. ~OthersUnrecorded(r)'
  BY DEF OthersUnrecorded
<1>2. EntryIsTrue(r)' /\ \A at : HasRun(r, at)'
  BY <1>1 DEF EntryIsTrue, HasRun
<1>3. /\ plan[r].run.at \in Nat /\ plan[r].status.finishedAt \in Nat
      /\ clock \in Nat /\ clock' \in Nat /\ clock <= clock'
  BY RequestTypes DEF Plans, Runs, ApplyStatuses, ClockGoesOn
<1>4. plan'[r].run.exit = 0 => ExitedZero(r, plan[r].run.at)'
  BY <1>3, NoPlanValues DEF PlansItsRun, PlanKept, RunKept, ExitedZero
<1>5. ASSUME plan'[r].dirty, plan'[r].status.phase = "Succeeded"
      PROVE  LET at == plan'[r].status.finishedAt IN
             at <= clock' /\ (plan'[r].run = [exit |-> 0, at |-> at] \/ plan'[r].run = NoRun)
  <2>1. /\ plan'[r].status = plan[r].status /\ plan'[r].run = plan[r].run
        /\ plan[r].run = [exit |-> 0, at |-> plan[r].status.finishedAt] \/ plan[r].run = NoRun
    BY <1>5 DEF PlanKept, PlansItsRun
  <2>2. plan[r].status.finishedAt <= clock
    BY <1>5 DEF PlanKept, PlansItsRun
  <2>3. plan[r].status.finishedAt <= clock'
    BY <1>3, <2>2
  <2> QED BY <2>1, <2>3
<1>6. PlansItsRun(r)'
  BY <1>2, <1>4, <1>5 DEF PlansItsRun, RunKept, PodTold
<1> QED BY <1>2, <1>6
-----------------------------------------------------------------------------
(* So a step records a run, or leaves what is recorded.                    *)
LEMMA IncidentGoesOn ==
  ASSUME TypeOK, IncidentBehind, [Next]_vars
  PROVE  \/ IncidentForward /\ EntryMoves
         \/ \E q \in Requests : RecordOnIncident(q) /\ IncidentForward /\ recorded'[q] > 0
<1>1. ASSUME incident' = incident, recorded' = recorded, incidentCache' \in {incidentCache, incident}
      PROVE  IncidentForward /\ EntryMoves
  BY <1>1, IncidentStaysForward
<1>2. ASSUME NEW x \in Requests, RecordOnIncident(x)
      PROVE  \/ IncidentForward /\ EntryMoves
             \/ \E q \in Requests : RecordOnIncident(q) /\ IncidentForward /\ recorded'[q] > 0
  BY <1>1, <1>2, RecordMovesForward
<1>3. ASSUME NEW x \in Requests, Reconcile(x), ~RecordOnIncident(x)
      PROVE  UNCHANGED <<incident, incidentCache, recorded>>
  BY <1>3 DEF Reconcile, ObserveNew, ObserveRun, ObserveDeleted, WritePending, CreatePod,
     CreateSecret, CreateConfigMap, Annotate, PatchStatus, Announce, DeleteApplyPod,
     DeleteExpired, DeleteRun, RemoveFinalizer, KeepIncident, objects, history
<1>4. ASSUME NEW x \in Requests,
             ObserveFails(x) \/ CallFails(x) \/ Kubelet(x) \/ Collect(x) \/ Users(x) \/ PodRemoved(x)
      PROVE  UNCHANGED <<incident, incidentCache, recorded>>
  BY <1>4 DEF ObserveFails, CallFails, Kubelet, PodStarts, ContainerExits, DeadlineStops, PodFails,
     PodGone, SetPod,
     Collect, Users, RequestCreated, RequestDeleted, PodRemoved, Happening, KeepIncident, objects,
     history
<1>5. CASE Restart \/ CacheSync \/ Tick \/ UNCHANGED vars
           \/ (\E x \in DOMAIN policies : PolicyChanges(x))
  <2>1. UNCHANGED <<incident, incidentCache, recorded>>
    BY <1>5 DEF Restart, CacheSync, Tick, PolicyChanges, Happening, vars, objects, history
  <2> QED BY <1>1, <2>1
<1>6. CASE IncidentSync
  BY <1>1, <1>6 DEF IncidentSync, history
<1>7. CASE IncidentChanges
  BY <1>7, IncidentMovesForward
<1> QED BY <1>1, <1>2, <1>3, <1>4, <1>5, <1>6, <1>7 DEF Next

LEMMA InitRecorded == Init => Recorded
<1> SUFFICES ASSUME Init PROVE Recorded
  OBVIOUS
<1>1. PICK fix \in Fixes :
        incident = [ there |-> TRUE, version |-> 0, analysis |-> 0,
                     status |-> [NewStatus EXCEPT !.state = "Open", !.howToFix = fix] ]
  BY DEF Init
<1>2. /\ incident.there /\ incident.analysis = 0 /\ incident.status.state = "Open"
      /\ ApplyEntry(incident).exit # 0 /\ incidentCache = incident
  <2> DEFINE st == [NewStatus EXCEPT !.state = "Open", !.howToFix = fix]
  <2>1. st.state = "Open" /\ st.lastChecks["apply"] = NoCheck
    BY DEF NewStatus, Scripts
  <2>2. NoCheck.exit # 0
    BY DEF NoCheck, NoExit
  <2> HIDE DEF st
  <2>3. incident = [there |-> TRUE, version |-> 0, analysis |-> 0, status |-> st]
    BY <1>1 DEF st
  <2> QED BY <2>1, <2>2, <2>3 DEF Init, ApplyEntry
<1>3. IncidentBehind
  <2>1. incidentCache.analysis <= incident.analysis
    BY <1>2
  <2>2. incident.status.state # "" /\ incidentCache.status.state # ""
    BY <1>2
  <2> QED BY <1>2, <2>1, <2>2 DEF IncidentBehind
<1>4. ASSUME NEW r \in Requests
      PROVE  AdmittedInPast(r) /\ PlansItsRun(r) /\ EntryIsTrue(r)
  <2>1. plan[r] = NoPlan /\ pods[r].code = NoExit /\ admittedFor[r] = 0
    BY DEF Init, NoPod
  <2>2. plan[r].run.exit # 0 /\ ~plan[r].dirty
    BY <2>1, NoPlanValues
  <2> QED BY <1>2, <2>1, <2>2 DEF AdmittedInPast, PlansItsRun, EntryIsTrue
<1> QED BY <1>3, <1>4 DEF Recorded

LEMMA NextRecorded ==
  ASSUME TypeOK, TypeOK', Safe, AllReported, Recorded, [Next]_vars
  PROVE  Recorded'
<1>1. IncidentBehind /\ IncidentForward
  BY IncidentGoesOn DEF Recorded
<1>2. IncidentBehind'
  BY <1>1, BehindStays
<1>3. ASSUME NEW r \in Requests
      PROVE  AdmittedInPast(r)' /\ PlansItsRun(r)' /\ EntryIsTrue(r)'
  <2>1. AdmittedInPast(r) /\ PlansItsRun(r) /\ EntryIsTrue(r)
    BY DEF Recorded
  <2>2. RunKept(r) /\ ClockGoesOn
    <3>1. PodTold(pods[r])
      BY <2>1 DEF PlansItsRun, PodTold
    <3> QED BY <3>1, RunsAreKept
  <2>3. CASE RecordOnIncident(r)
    <3>1. AdmittedInPast(r)'
      BY <1>1, <2>1, <2>3, RecordPlans, AdmittedStaysInPast
    <3> QED BY <1>1, <2>1, <2>2, <2>3, <3>1, RecordIsTrue
  <2>4. CASE PlanRead(r)
    <3>1. AdmittedInPast(r)'
      BY <1>1, <2>1, <2>4, AdmittedStaysInPast DEF PlanRead
    <3> QED BY <2>1, <2>4, <3>1, ReadIsTrue
  <2>5. CASE PlanKept(r) /\ ~RecordOnIncident(r)
    <3>1. AdmittedInPast(r)'
      BY <1>1, <2>1, <2>5, AdmittedStaysInPast DEF PlanKept
    <3>2. CASE EntryMoves
      BY <1>1, <2>1, <2>2, <2>5, <3>1, <3>2, PlanStaysTrue, EntryStaysTrue
    <3>3. ASSUME NEW q \in Requests \ {r}, recorded'[q] > 0
          PROVE  PlansItsRun(r)' /\ EntryIsTrue(r)'
      BY <2>1, <2>2, <2>5, <3>3, OthersRunRecorded
    <3> QED BY <1>1, <2>5, <3>1, <3>2, <3>3, IncidentGoesOn
  <2> QED BY <2>3, <2>4, <2>5, PlansMove
<1> QED BY <1>2, <1>3 DEF Recorded

LEMMA AlwaysRecorded == Spec => [](TypeOK /\ Safe /\ AllReported /\ Recorded)
<1>1. TypeOK /\ Safe /\ AllReported /\ Recorded /\ [Next]_vars => Recorded'
  BY NextTyped, NextRecorded
<1> QED BY <1>1, InitRecorded, AlwaysReported, PTL DEF Spec

(* Only PatchStatus and the runtime write a status: what else is written   *)
(* of a request is written to it as it is, or to a copy that is not old.   *)
UpdateFails(r) ==
  /\ pc[r] = "update" /\ plan[r].dirty
  /\ requests'[r].status = plan[r].status
  /\ faults' < faults \/ (plan[r].run # NoRun /\ incidentCache # incident)

LEMMA StatusWritten ==
  ASSUME TypeOK, NEW r \in Requests, NEW x \in Requests, NEW o, SetRequest(x, o),
         x = r => o \in Objects /\ o.status \in {requests[r].status, NoStatus}
  PROVE  requests'[r].status \in {requests[r].status, NoStatus}
<1> DEFINE new == [o EXCEPT !.version = @ + 1]
<1>1. o \in Objects => new.status = o.status
  BY DEF Objects
<1> HIDE DEF new
<1>2. requests' = requests \/ requests' = [requests EXCEPT ![x] = new]
  BY DEF SetRequest, new
<1> QED BY <1>1, <1>2 DEF TypeOK, ObjectTypes

LEMMA RuntimeWritten ==
  ASSUME TypeOK, NEW r \in Requests, NEW x \in Requests, NEW o, NEW st, RuntimeWrites(x, o, st)
  PROVE  /\ x # r => requests'[r] = requests[r]
         /\ requests'[x].status \in {requests[x].status, st}
<1>1. CASE KeepRequests
  BY <1>1 DEF KeepRequests
<1>2. CASE SetRequest(x, [requests[x] EXCEPT !.status = st])
  <2> DEFINE new == [[requests[x] EXCEPT !.status = st] EXCEPT !.version = @ + 1]
  <2>1. new.status = st
    BY RequestTypes DEF Objects
  <2>2. requests' = requests \/ requests' = [requests EXCEPT ![x] = new]
    BY <1>2 DEF SetRequest
  <2> HIDE DEF new
  <2> QED BY <2>1, <2>2 DEF TypeOK, ObjectTypes
<1> QED BY <1>1, <1>2 DEF RuntimeWrites

LEMMA OnlyUpdateEnds ==
  ASSUME TypeOK, Safe, AllReported, [Next]_vars, NEW r \in Requests
  PROVE  \/ PatchStatus(r) \/ UpdateFails(r)
         \/ requests'[r].status \in {requests[r].status, NoStatus}
         \/ requests'[r].status.phase = "Running"
<1> DEFINE Goal == \/ UpdateFails(r)
                   \/ requests'[r].status \in {requests[r].status, NoStatus}
                   \/ requests'[r].status.phase = "Running"
<1>1. UNCHANGED requests => Goal
  OBVIOUS
<1>2. \A o \in Objects :
        /\ [o EXCEPT !.incomplete = TRUE] \in Objects /\ [o EXCEPT !.incomplete = TRUE].status = o.status
        /\ [o EXCEPT !.incomplete = FALSE] \in Objects /\ [o EXCEPT !.incomplete = FALSE].status = o.status
        /\ [o EXCEPT !.deleted = TRUE] \in Objects /\ [o EXCEPT !.deleted = TRUE].status = o.status
        /\ [o EXCEPT !.there = FALSE] \in Objects /\ [o EXCEPT !.there = FALSE].status = o.status
  BY DEF Objects
<1>3. ASSUME NEW x \in Requests, MarkDeleted(x)
      PROVE  Goal
  <2>1. CASE SetRequest(x, [requests[x] EXCEPT !.deleted = TRUE])
    BY <1>2, <2>1, RequestTypes, StatusWritten
  <2> QED BY <1>1, <1>3, <2>1 DEF MarkDeleted, KeepRequests
<1>4. ASSUME NEW x \in Requests, WritePending(x) \/ RemoveFinalizer(x)
      PROVE  Goal
  <2>1. CASE KeepRequests
    BY <1>1, <2>1 DEF KeepRequests
  <2>2. ASSUME NEW o, SetRequest(x, o), copy[x].version = requests[x].version,
               o \in {[copy[x] EXCEPT !.incomplete = TRUE], [copy[x] EXCEPT !.there = FALSE]}
        PROVE  Goal
    <3>1. copy[x] = requests[x]
      BY <1>4, <2>2 DEF WritePending, RemoveFinalizer, Safe, CopiesFollow, Follows
    <3>2. o \in Objects /\ o.status = requests[x].status
      BY <1>2, <2>2, <3>1, RequestTypes
    <3> QED BY <2>2, <3>2, StatusWritten
  <2> QED BY <1>4, <2>1, <2>2 DEF WritePending, RemoveFinalizer
<1>5. ASSUME NEW x \in Requests, Annotate(x)
      PROVE  Goal
  <2>1. CASE SetRequest(x, [requests[x] EXCEPT !.incomplete = FALSE])
    BY <1>2, <2>1, RequestTypes, StatusWritten
  <2> QED BY <1>1, <1>5, <2>1 DEF Annotate, KeepRequests
<1>6. ASSUME NEW x \in Requests, PatchStatus(x), x # r
      PROVE  Goal
  <2>1. KeepRequests \/ \E o : SetRequest(x, o)
    BY <1>6 DEF PatchStatus
  <2> QED BY <1>1, <1>6, <2>1, StatusWritten DEF KeepRequests
<1>7. ASSUME NEW x \in Requests, NEW o, NEW st, RuntimeWrites(x, o, st), x # r \/ st.phase = "Running"
       PROVE  Goal
  BY <1>7, RuntimeWritten
<1>8. ASSUME NEW x \in Requests, RecordOnIncident(x)
       PROVE  Goal
  <2>1. /\ pc[x] = "update" /\ plan[x].run # NoRun
        /\ KeepRequests \/ (RuntimeWrites(x, copy[x], plan[x].status) /\ incidentCache # incident)
    BY <1>8 DEF RecordOnIncident
  <2>2. plan[x].dirty
    BY <2>1 DEF AllReported, Reported, PlanHolds
  <2>3. CASE x = r /\ RuntimeWrites(r, copy[r], plan[r].status) /\ incidentCache # incident
    BY <2>1, <2>2, <2>3, RuntimeWritten DEF UpdateFails
  <2> QED BY <1>1, <1>7, <2>1, <2>3 DEF KeepRequests
<1>9. ASSUME NEW x \in Requests, CallFails(x)
       PROVE  Goal
  <2>1. \/ KeepRequests
        \/ pc[x] = "update" /\ plan[x].dirty /\ RuntimeWrites(x, copy[x], plan[x].status)
    BY <1>9 DEF CallFails
  <2>2. faults' < faults
    BY <1>9 DEF CallFails, TypeOK, BoundTypes
  <2>3. CASE /\ x = r /\ pc[r] = "update" /\ plan[r].dirty
             /\ RuntimeWrites(r, copy[r], plan[r].status)
    BY <2>2, <2>3, RuntimeWritten DEF UpdateFails
  <2> QED BY <1>1, <1>7, <2>1, <2>3 DEF KeepRequests
<1>10. ASSUME NEW x \in Requests, ObserveFails(x)
       PROVE  Goal
  <2>1. PICK st : st = [cache[x].status EXCEPT !.phase = "Running"]
    OBVIOUS
  <2>2. st.phase = "Running" /\ RuntimeWrites(x, cache[x], st)
    BY <1>10, <2>1, StatusTypes DEF ObserveFails, ApplyStatuses
  <2> QED BY <1>7, <2>2
<1>11. ASSUME NEW x \in Requests, Reconcile(x), ~PatchStatus(r)
      PROVE  Goal
  <2>1. \/ UNCHANGED requests \/ MarkDeleted(x) \/ WritePending(x) \/ RemoveFinalizer(x)
        \/ Annotate(x) \/ RecordOnIncident(x) \/ PatchStatus(x)
    BY <1>11 DEF Reconcile, ObserveNew, ObserveRun, ObserveDeleted, CreatePod, CreateSecret,
       CreateConfigMap, Announce, DeleteApplyPod, DeleteExpired, DeleteRun, objects
  <2> QED BY <1>1, <1>3, <1>4, <1>5, <1>6, <1>11, <1>8, <2>1
<1>12. ASSUME NEW x \in Requests, Users(x)
      PROVE  Goal
  <2>1. CASE RequestDeleted(x)
    BY <1>3, <2>1 DEF RequestDeleted
  <2>2. ASSUME NEW login \in LoginEnds, RequestCreated(x, login)
        PROVE  Goal
    <3> DEFINE o == [NoObject EXCEPT !.there = TRUE, !.created = clock, !.login = login]
    <3>1. o \in Objects /\ o.status = NoStatus
      BY ApplyAssumption, NewValues DEF NoObject, Objects, TypeOK, BoundTypes, Time
    <3>2. SetRequest(x, o)
      BY <2>2 DEF RequestCreated
    <3> HIDE DEF o
    <3> QED BY <3>1, <3>2, StatusWritten
  <2> QED BY <1>12, <2>1, <2>2 DEF Users
<1>13. ASSUME NEW x \in Requests, Kubelet(x) \/ Collect(x) \/ PodRemoved(x)
      PROVE  UNCHANGED requests
  BY <1>13 DEF Kubelet, PodStarts, ContainerExits, DeadlineStops, PodFails, PodGone, SetPod,
     Collect, PodRemoved, objects
<1>14. CASE Restart \/ CacheSync \/ IncidentSync \/ Tick \/ IncidentChanges \/ UNCHANGED vars
            \/ (\E x \in DOMAIN policies : PolicyChanges(x))
  BY <1>1, <1>14 DEF Restart, CacheSync, IncidentSync, Tick, IncidentChanges, HumanDecides,
     CheckEnds,
     WriterReanalyses, WriterFinishes, IncidentGone, StatusMoves, IncidentMoves, SetIncidentAlone,
     PolicyChanges, KeepRequests, vars, objects
<1> QED BY <1>1, <1>11, <1>12, <1>13, <1>14, <1>9, <1>10 DEF Next

(* What a patch of the status, or the runtime's write of it, makes of a    *)
(* request that succeeds: it finished when the plan says.                  *)
LEMMA EndIsPlanned ==
  ASSUME TypeOK, Safe, AllReported, NEW r \in Requests, PatchStatus(r) \/ UpdateFails(r), Succeeds(r)
  PROVE  /\ pc[r] = "update" /\ plan[r].dirty /\ plan[r].status.phase = "Succeeded"
         /\ requests'[r].status.finishedAt = plan[r].status.finishedAt
<1> DEFINE st == Patched(requests[r].status, copy[r].status, plan[r].status)
           o == [requests[r] EXCEPT !.status = st]
<1>1. pc[r] = "update" /\ plan[r].dirty
  BY DEF PatchStatus, UpdateFails
<1>2. CASE UpdateFails(r)
  BY <1>1, <1>2 DEF UpdateFails, Succeeds
<1>3. CASE PatchStatus(r)
  <2>1. st \in ApplyStatuses /\ st.phase = plan[r].status.phase
    BY <1>1, PatchValues
  <2>2. requests'[r].status = st
    <3>1. SetRequest(r, o)
      BY <1>3 DEF PatchStatus, KeepRequests, Succeeds
    <3> HIDE DEF st
    <3>2. o.status = st /\ [o EXCEPT !.version = @ + 1].status = st
      BY RequestTypes DEF Objects
    <3> HIDE DEF o
    <3>3. requests' \in {requests, [requests EXCEPT ![r] = [o EXCEPT !.version = @ + 1]]}
      BY <3>1 DEF SetRequest
    <3> QED BY <3>2, <3>3 DEF TypeOK, ObjectTypes, Succeeds
  <2>3. plan[r].status.phase = "Succeeded"
    BY <2>1, <2>2 DEF Succeeds
  <2>4. st.finishedAt = plan[r].status.finishedAt
    <3>1. /\ ~Terminal(copy[r].status) /\ Honest(r, copy[r].status) /\ Honest(r, plan[r].status)
      BY <1>1 DEF AllReported, Reported, PlanHolds, AllHonest
    <3>2. copy[r].status.finishedAt = None /\ plan[r].status.finishedAt # None
      BY <2>3, <3>1 DEF Honest, Terminal
    <3> QED BY <3>2, StatusTypes DEF Patched, ApplyStatuses
  <2> QED BY <1>1, <2>2, <2>3, <2>4
<1> QED BY <1>2, <1>3

(* "The incident goes first" (Update): when a request's status turns to    *)
(* Succeeded, its incident has the run, unless it takes none any more, was *)
(* analysed again or had another request's run recorded, or the very call  *)
(* that records the run fails; with informers that lag behind both,        *)
(* whatever else failed before and whatever moved the incident meanwhile.  *)
THEOREM IncidentFirst == Spec => IncidentGoesFirst
<1>1. ASSUME TypeOK, Safe, AllReported, Recorded, [Next]_vars, NEW r \in Requests,
             Succeeds(r), ~RecordingFails(r)
      PROVE  HasRun(r, requests'[r].status.finishedAt)
  <2>1. PatchStatus(r) \/ UpdateFails(r)
    BY <1>1, OnlyUpdateEnds, NewStatuses DEF NoPhase, Succeeds
  <2>2. plan[r].run = NoRun
    BY <1>1, <2>1 DEF PatchStatus, UpdateFails, RecordingFails
  <2>3. /\ plan[r].dirty /\ plan[r].status.phase = "Succeeded"
        /\ requests'[r].status.finishedAt = plan[r].status.finishedAt
    BY <1>1, <2>1, EndIsPlanned
  <2>4. \/ plan[r].run = [exit |-> 0, at |-> plan[r].status.finishedAt]
        \/ HasRun(r, plan[r].status.finishedAt)
    BY <1>1, <2>3 DEF Recorded, PlansItsRun
  <2>5. plan[r].run # [exit |-> 0, at |-> plan[r].status.finishedAt]
    BY <2>2, NoPlanValues
  <2> QED BY <2>3, <2>4, <2>5
<1>2. TypeOK /\ Safe /\ AllReported /\ Recorded /\ [Next]_vars =>
        [ \A r \in Requests :
            Succeeds(r) /\ ~RecordingFails(r) => HasRun(r, requests'[r].status.finishedAt) ]_vars
  BY <1>1
<1> QED BY <1>2, AlwaysRecorded, PTL DEF Spec, IncidentGoesFirst
=============================================================================
