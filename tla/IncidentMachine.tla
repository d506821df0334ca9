-------------------------- MODULE IncidentMachine --------------------------
(***************************************************************************)
(* The incident state machine of internal/controllers/incident/machine.go: *)
(* pure functions from a status (and a result, and the time) to a status.  *)
(* Times are whole seconds since some moment after 0; 0 is the zero time,  *)
(* and a nil *metav1.Time.  Events and messages are left out.              *)
(***************************************************************************)
EXTENDS Integers

CONSTANTS
  Fixes,             \* the howToFix values an analysis can write
  WithPrecondition,  \* those whose precondition script is not empty
  WithVerify,        \* those whose verify script is not empty
  NoFix,             \* a nil howToFix
  PollInterval,      \* Config.PollInterval
  SettleWindow,      \* Config.SettleWindow
  CheckTimeout,      \* Config.CheckTimeout
  PendingGrace       \* pendingGrace

ASSUME FixesAssumption ==
  /\ NoFix \notin Fixes
  /\ WithPrecondition \subseteq Fixes
  /\ WithVerify \subseteq Fixes

ASSUME ConfigAssumption ==
  /\ PollInterval \in Nat \ {0}
  /\ SettleWindow \in Nat
  /\ CheckTimeout \in Nat \ {0}
  /\ PendingGrace \in Nat

Time == Nat
None == 0

(* An exit is the exit code of a run, 2 being one that is no verdict, or   *)
(* NoExit: the run gave none.                                              *)
NoExit == -1
Exits == {0, 1, 2, NoExit}

States == {"", "Analyzing", "Open", "Verifying", "Resolved", "Closed"}
Scripts == {"precondition", "apply", "verify"}
Checked == {"precondition", "verify"}

(* A lastChecks entry.  A recorded one always has a since. *)
Checks == [exit : Exits, since : Time]
NoCheck == [exit |-> NoExit, since |-> None]

Statuses == [ state          : States,
              howToFix       : Fixes \union {NoFix},
              reproduced     : {"Unknown", "True", "False"},
              lastChecks     : [Scripts -> Checks],
              verifyingSince : Time,
              resolution     : {"none", "verify", "user"} ]

Specs == [ applied    : BOOLEAN,
           closed     : BOOLEAN,
           reanalysis : BOOLEAN,
           deleted    : BOOLEAN ]   \* metadata.deletionTimestamp is set

Results == [script : Checked, exit : Exits, at : Time]

NewStatus == [ state          |-> "",
               howToFix       |-> NoFix,
               reproduced     |-> "Unknown",
               lastChecks     |-> [s \in Scripts |-> NoCheck],
               verifyingSince |-> None,
               resolution     |-> "none" ]

-----------------------------------------------------------------------------
Known(exit) == exit \in {0, 1}

Flagged(st) == st.reproduced = "False"

Reproduced(st) == st.reproduced # "Unknown"

(* The script the incident runs in its state, "" when it runs none. *)
CurrentScript(st) ==
  CASE st.state = "Open" /\ st.howToFix \in WithPrecondition /\ ~Flagged(st) -> "precondition"
    [] st.state = "Verifying" /\ st.howToFix \in WithVerify -> "verify"
    [] OTHER -> ""

(* An equal precondition or verify result keeps its since; an apply run    *)
(* always replaces the entry.                                              *)
SetLastCheck(st, s, exit, at) ==
  LET last == st.lastChecks[s] IN
  IF s # "apply" /\ last # NoCheck /\ last.exit = exit
  THEN st
  ELSE [st EXCEPT !.lastChecks[s] = [exit |-> exit, since |-> at]]

ClearLastCheck(st, s) == [st EXCEPT !.lastChecks[s] = NoCheck]

CheckFrom(st, lastRun) ==
  IF st.verifyingSince > lastRun THEN st.verifyingSince ELSE lastRun

NextCheckAt(st, lastRun) ==
  LET from == CheckFrom(st, lastRun)
  IN  IF from = None THEN None ELSE from + PollInterval

CheckDue(st, lastRun, now) ==
  CurrentScript(st) # "" /\ now >= NextCheckAt(st, lastRun)

EnterVerifying(st, at) ==
  ClearLastCheck([st EXCEPT !.verifyingSince = at], "verify")

SetState(st, to, at) ==
  LET moved == [st EXCEPT !.state = to] IN
  CASE to = "Verifying" -> EnterVerifying(moved, at)
    [] to = "Open" -> [ClearLastCheck(moved, "precondition") EXCEPT !.verifyingSince = None]
    [] OTHER -> [moved EXCEPT !.verifyingSince = None]

Resolve(st, to, by, at) == [SetState(st, to, at) EXCEPT !.resolution = by]

-----------------------------------------------------------------------------
(* applySpec: the status the human decisions of spec lead to, and whether  *)
(* spec.applied was acted on and must be reset.                            *)
(* Mutant: an incident already Verifying does not take an apply. *)
AppliesOnlyOpen(sp, st) == sp.applied /\ ~sp.closed /\ st.state = "Open"

AppliesNow(sp, st) ==
  /\ sp.applied
  /\ ~sp.closed
  /\ st.state \in {"Open", "Verifying"}

(* Mutant: closing forgets the resolution. *)
ApplySpecNoResolution(sp, st, now) ==
  LET applied == SetLastCheck(st, "apply", NoExit, now) IN
  CASE sp.closed /\ st.state # "Closed" -> SetState(st, "Closed", now)
    [] AppliesNow(sp, st) /\ st.state = "Open" -> SetState(applied, "Verifying", now)
    [] AppliesNow(sp, st) /\ st.state = "Verifying" -> EnterVerifying(applied, now)
    [] OTHER -> st

ApplySpec(sp, st, now) ==
  LET applied == SetLastCheck(st, "apply", NoExit, now) IN
  CASE sp.closed /\ st.state # "Closed" -> Resolve(st, "Closed", "user", now)
    [] AppliesNow(sp, st) /\ st.state = "Open" -> SetState(applied, "Verifying", now)
    [] AppliesNow(sp, st) /\ st.state = "Verifying" -> EnterVerifying(applied, now)
    [] OTHER -> st

(* record: a finished run r of the current script, and its transition. *)
(* Mutant: the first verdict never flags. *)
RecordPreconditionNoFlag(st, r) ==
  CASE ~Reproduced(st) -> [st EXCEPT !.reproduced = "True"]
    [] Reproduced(st) /\ r.exit = 0 -> SetState(st, "Verifying", r.at)
    [] OTHER -> st

(* Mutant: every verdict sets Reproduced, not only the first. *)
RecordPreconditionEvery(st, r) ==
  LET set == [st EXCEPT !.reproduced = IF r.exit = 1 THEN "True" ELSE "False"] IN
  IF Reproduced(st) /\ r.exit = 0 THEN SetState(set, "Verifying", r.at) ELSE set

RecordPrecondition(st, r) ==
  CASE ~Reproduced(st) -> [st EXCEPT !.reproduced = IF r.exit = 1 THEN "True" ELSE "False"]
    [] Reproduced(st) /\ r.exit = 0 -> SetState(st, "Verifying", r.at)
    [] OTHER -> st

(* Mutant: the first exit 1 reopens, window or not. *)
RecordVerifyNoWindow(st, r) ==
  CASE r.exit = 0 -> Resolve(st, "Resolved", "verify", r.at)
    [] r.exit = 1 -> SetState(st, "Open", r.at)
    [] OTHER -> st

RecordVerify(st, r) ==
  CASE r.exit = 0 -> Resolve(st, "Resolved", "verify", r.at)
    [] r.exit = 1 /\ st.verifyingSince = None -> [st EXCEPT !.verifyingSince = r.at]
    [] r.exit = 1 /\ st.verifyingSince # None /\ r.at - st.verifyingSince >= SettleWindow ->
         SetState(st, "Open", r.at)
    [] OTHER -> st

Record(st, r) ==
  LET noted == SetLastCheck(st, r.script, r.exit, r.at) IN
  CASE ~Known(r.exit) -> noted
    [] Known(r.exit) /\ r.script = "precondition" -> RecordPrecondition(noted, r)
    [] OTHER -> RecordVerify(noted, r)

(* recordApply: an IncidentApply run that ended at at with exit. *)
(* Mutant: a run that moves the incident starts no settle window. *)
RecordApplyNoWindow(st, exit, at) ==
  LET noted == SetLastCheck(st, "apply", exit, at) IN
  CASE st.state \notin {"Open", "Verifying"} -> st
    [] st.state = "Open" /\ exit = 0 -> [noted EXCEPT !.state = "Verifying"]
    [] st.state = "Verifying" /\ exit = 0 /\ st.verifyingSince < at -> EnterVerifying(noted, at)
    [] OTHER -> noted

RecordApply(st, exit, at) ==
  LET noted == SetLastCheck(st, "apply", exit, at) IN
  CASE st.state \notin {"Open", "Verifying"} -> st
    [] st.state = "Open" /\ exit = 0 -> SetState(noted, "Verifying", at)
    [] st.state = "Verifying" /\ exit = 0 /\ st.verifyingSince < at -> EnterVerifying(noted, at)
    [] OTHER -> noted

-----------------------------------------------------------------------------
(* The validation rules of the Incident CRD on a status write (types.go,   *)
(* the three rules on IncidentStatus).                                     *)
Ended == {"Resolved", "Closed"}

ValidStatus(st) ==
  /\ (st.resolution # "none") <=> (st.state \in Ended)
  /\ (st.resolution # "none") => ((st.resolution = "verify") <=> (st.state = "Resolved"))

CRDAccepts(old, new) ==
  /\ ValidStatus(new)
  /\ old.state \in Ended => new.state \in {old.state, "Closed"}
=============================================================================
