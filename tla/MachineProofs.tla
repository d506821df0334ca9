--------------------------- MODULE MachineProofs ---------------------------
(***************************************************************************)
(* The types of the state machine's functions and of what is read from a   *)
(* pod, and what the functions do to the entry of the last apply run: the  *)
(* lemmas the proofs about both controllers rest on.                       *)
(***************************************************************************)
EXTENDS CheckPods, TLAPS

USE DEF None, Time, NoExit

-----------------------------------------------------------------------------
(* The state machine maps statuses to statuses. *)
LEMMA CheckTypes ==
  ASSUME NEW st \in Statuses, NEW s \in Scripts, NEW exit \in Exits, NEW at \in Time
  PROVE  /\ SetLastCheck(st, s, exit, at) \in Statuses
         /\ ClearLastCheck(st, s) \in Statuses
BY DEF Statuses, SetLastCheck, ClearLastCheck, NoCheck, Checks, Exits

LEMMA StateTypes ==
  ASSUME NEW st \in Statuses, NEW to \in States, NEW at \in Time,
         NEW by \in {"none", "verify", "user"}
  PROVE  /\ EnterVerifying(st, at) \in Statuses
         /\ SetState(st, to, at) \in Statuses
         /\ Resolve(st, to, by, at) \in Statuses
<1>1. \A t \in Statuses : EnterVerifying(t, at) \in Statuses
  <2>1. ASSUME NEW t \in Statuses
        PROVE  [t EXCEPT !.verifyingSince = at] \in Statuses
    BY DEF Statuses
  <2> QED BY <2>1, CheckTypes DEF EnterVerifying, ClearLastCheck, Scripts, Exits
<1>2. [st EXCEPT !.state = to] \in Statuses
  BY DEF Statuses
<1>3. \A t \in Statuses : [ClearLastCheck(t, "precondition") EXCEPT !.verifyingSince = None] \in Statuses
  <2>1. \A t \in Statuses : [t EXCEPT !.verifyingSince = None] \in Statuses
    BY DEF Statuses
  <2>2. \A t \in Statuses : ClearLastCheck(t, "precondition") \in Statuses
    BY CheckTypes DEF Scripts, Exits
  <2> QED BY <2>1, <2>2
<1>4. \A t \in Statuses : [t EXCEPT !.verifyingSince = None] \in Statuses
  BY DEF Statuses
<1>5. SetState(st, to, at) \in Statuses
  BY <1>1, <1>2, <1>3, <1>4 DEF SetState
<1>6. Resolve(st, to, by, at) \in Statuses
  <2>1. \A t \in Statuses : [t EXCEPT !.resolution = by] \in Statuses
    BY DEF Statuses
  <2> QED BY <2>1, <1>5 DEF Resolve
<1> QED BY <1>1, <1>5, <1>6

LEMMA ApplySpecType ==
  ASSUME NEW sp \in Specs, NEW st \in Statuses, NEW now \in Time
  PROVE  ApplySpec(sp, st, now) \in Statuses
<1> DEFINE applied == SetLastCheck(st, "apply", NoExit, now)
<1>1. applied \in Statuses
  BY CheckTypes DEF Scripts, Exits
<1> HIDE DEF applied
<1>2. /\ Resolve(st, "Closed", "user", now) \in Statuses
      /\ SetState(applied, "Verifying", now) \in Statuses
      /\ EnterVerifying(applied, now) \in Statuses
  BY <1>1, StateTypes DEF States
<1> QED BY <1>1, <1>2 DEF ApplySpec, applied

LEMMA RecordType ==
  ASSUME NEW st \in Statuses, NEW r \in Results
  PROVE  Record(st, r) \in Statuses
<1> DEFINE noted == SetLastCheck(st, r.script, r.exit, r.at)
<1>1. noted \in Statuses
  BY CheckTypes DEF Results, Checked, Scripts
<1> HIDE DEF noted
<1>2. /\ SetState(noted, "Verifying", r.at) \in Statuses
      /\ SetState(noted, "Open", r.at) \in Statuses
      /\ Resolve(noted, "Resolved", "verify", r.at) \in Statuses
  BY <1>1, StateTypes DEF Results, States
<1>3. RecordPrecondition(noted, r) \in Statuses
  <2>1. [noted EXCEPT !.reproduced = IF r.exit = 1 THEN "True" ELSE "False"] \in Statuses
    BY <1>1 DEF Statuses
  <2> QED BY <1>1, <1>2, <2>1 DEF RecordPrecondition
<1>4. RecordVerify(noted, r) \in Statuses
  <2>1. [noted EXCEPT !.verifyingSince = r.at] \in Statuses
    BY <1>1 DEF Statuses, Results
  <2> QED BY <1>1, <1>2, <2>1 DEF RecordVerify
<1> QED BY <1>1, <1>3, <1>4 DEF Record, noted

LEMMA RecordApplyType ==
  ASSUME NEW st \in Statuses, NEW exit \in Exits, NEW at \in Time
  PROVE  RecordApply(st, exit, at) \in Statuses
<1> DEFINE noted == SetLastCheck(st, "apply", exit, at)
<1>1. noted \in Statuses
  BY CheckTypes DEF Scripts
<1> HIDE DEF noted
<1>2. SetState(noted, "Verifying", at) \in Statuses /\ EnterVerifying(noted, at) \in Statuses
  BY <1>1, StateTypes DEF States
<1> QED BY <1>1, <1>2 DEF RecordApply, noted

LEMMA NewStatusType == NewStatus \in Statuses
BY FixesAssumption DEF NewStatus, Statuses, States, NoCheck, Checks, Exits

-----------------------------------------------------------------------------
(* What they do to the state, and to the entry of the last apply run.      *)
LEMMA EntersVerifying ==
  ASSUME NEW st \in Statuses, NEW at \in Time
  PROVE  /\ EnterVerifying(st, at).state = st.state
         /\ EnterVerifying(st, at).lastChecks["apply"] = st.lastChecks["apply"]
BY DEF EnterVerifying, ClearLastCheck, Statuses, Scripts

LEMMA EntersState ==
  ASSUME NEW st \in Statuses, NEW to \in States, NEW at \in Time
  PROVE  /\ SetState(st, to, at).state = to
         /\ SetState(st, to, at).lastChecks["apply"] = st.lastChecks["apply"]
<1> USE DEF ClearLastCheck, Scripts
<1> DEFINE moved == [st EXCEPT !.state = to]
<1>2. moved \in Statuses /\ moved.state = to /\ moved.lastChecks = st.lastChecks
  BY DEF Statuses
<1> HIDE DEF moved
<1>3. LET t == [ClearLastCheck(moved, "precondition") EXCEPT !.verifyingSince = None] IN
      t.state = to /\ t.lastChecks["apply"] = st.lastChecks["apply"]
  BY <1>2 DEF Statuses
<1>4. LET t == [moved EXCEPT !.verifyingSince = None] IN
      t.state = to /\ t.lastChecks["apply"] = st.lastChecks["apply"]
  BY <1>2 DEF Statuses
<1> QED BY <1>2, <1>3, <1>4, EntersVerifying DEF SetState, moved

LEMMA Notes ==
  ASSUME NEW st \in Statuses, NEW s \in Scripts, NEW exit \in Exits, NEW at \in Time
  PROVE  LET noted == SetLastCheck(st, s, exit, at) IN
         /\ noted.state = st.state
         /\ noted.lastChecks["apply"] =
              IF s = "apply" THEN [exit |-> exit, since |-> at] ELSE st.lastChecks["apply"]
BY DEF SetLastCheck, Statuses, Scripts

(* A run of an apply is on the incident, or the incident takes none. *)
LEMMA RecordsApply ==
  ASSUME NEW st \in Statuses, NEW exit \in Exits, NEW at \in Time
  PROVE  LET new == RecordApply(st, exit, at) IN
         IF st.state \in {"Open", "Verifying"}
         THEN /\ new.state \in {"Open", "Verifying"}
              /\ new.lastChecks["apply"] = [exit |-> exit, since |-> at]
         ELSE new = st
<1> DEFINE noted == SetLastCheck(st, "apply", exit, at)
<1>1. /\ noted \in Statuses /\ noted.state = st.state
      /\ noted.lastChecks["apply"] = [exit |-> exit, since |-> at]
  BY CheckTypes, Notes DEF Scripts
<1> HIDE DEF noted
<1>2. /\ EnterVerifying(noted, at).state = st.state
      /\ SetState(noted, "Verifying", at).state = "Verifying"
      /\ EnterVerifying(noted, at).lastChecks["apply"] = [exit |-> exit, since |-> at]
      /\ SetState(noted, "Verifying", at).lastChecks["apply"] = [exit |-> exit, since |-> at]
  <2>1. "Verifying" \in States
    BY DEF States
  <2> QED BY <1>1, <2>1, EntersVerifying, EntersState
<1> QED BY <1>1, <1>2 DEF RecordApply, noted

(* A verdict of a check moves the incident on and leaves that entry alone. *)
LEMMA RecordsCheck ==
  ASSUME NEW st \in Statuses, NEW r \in Results
  PROVE  LET new == Record(st, r) IN
         /\ new.state \in {st.state, "Open", "Verifying", "Resolved"}
         /\ new.lastChecks["apply"] = st.lastChecks["apply"]
<1> DEFINE noted == SetLastCheck(st, r.script, r.exit, r.at)
           kept == st.lastChecks["apply"]
<1>1. /\ noted \in Statuses /\ noted.state = st.state /\ noted.lastChecks["apply"] = kept
      /\ r.at \in Time
  BY CheckTypes, Notes DEF Results, Checked, Scripts
<1> HIDE DEF noted, kept
<1>2. \A to \in {"Verifying", "Open", "Resolved"} :
        /\ SetState(noted, to, r.at).state = to
        /\ SetState(noted, to, r.at).lastChecks["apply"] = kept
  <2>1. {"Verifying", "Open", "Resolved"} \subseteq States
    BY DEF States
  <2> QED BY <1>1, <2>1, EntersState
<1>3. LET t == Resolve(noted, "Resolved", "verify", r.at) IN
      t.state = "Resolved" /\ t.lastChecks["apply"] = kept
  <2>1. SetState(noted, "Resolved", r.at) \in Statuses
    BY <1>1, StateTypes DEF States
  <2> QED BY <1>2, <2>1 DEF Resolve, Statuses
<1>4. RecordPrecondition(noted, r).state \in {st.state, "Verifying"}
      /\ RecordPrecondition(noted, r).lastChecks["apply"] = kept
  <2>1. LET t == [noted EXCEPT !.reproduced = IF r.exit = 1 THEN "True" ELSE "False"] IN
        t.state = st.state /\ t.lastChecks["apply"] = kept
    BY <1>1 DEF Statuses
  <2> QED BY <1>1, <1>2, <2>1 DEF RecordPrecondition
<1>5. RecordVerify(noted, r).state \in {st.state, "Open", "Resolved"}
      /\ RecordVerify(noted, r).lastChecks["apply"] = kept
  <2>1. LET t == [noted EXCEPT !.verifyingSince = r.at] IN
        t.state = st.state /\ t.lastChecks["apply"] = kept
    BY <1>1 DEF Statuses
  <2> QED BY <1>1, <1>2, <1>3, <2>1 DEF RecordVerify
<1> QED BY <1>1, <1>4, <1>5 DEF Record, noted, kept

(* A decision closes, replaces the entry by one of now, or does nothing. *)
LEMMA DecidesApply ==
  ASSUME NEW sp, NEW st \in Statuses, NEW now \in Time
  PROVE  LET new == ApplySpec(sp, st, now) IN
         \/ new.state = "Closed" /\ new.lastChecks["apply"] = st.lastChecks["apply"]
         \/ /\ st.state \in {"Open", "Verifying"} /\ new.state = "Verifying"
            /\ new.lastChecks["apply"] = [exit |-> NoExit, since |-> now]
         \/ new = st
<1> DEFINE noted == SetLastCheck(st, "apply", NoExit, now)
<1>1. /\ noted \in Statuses /\ noted.state = st.state
      /\ noted.lastChecks["apply"] = [exit |-> NoExit, since |-> now]
  BY CheckTypes, Notes DEF Scripts, Exits
<1> HIDE DEF noted
<1>2. /\ EnterVerifying(noted, now).state = st.state
      /\ SetState(noted, "Verifying", now).state = "Verifying"
      /\ EnterVerifying(noted, now).lastChecks["apply"] = [exit |-> NoExit, since |-> now]
      /\ SetState(noted, "Verifying", now).lastChecks["apply"] = [exit |-> NoExit, since |-> now]
  <2>1. "Verifying" \in States
    BY DEF States
  <2> QED BY <1>1, <2>1, EntersVerifying, EntersState
<1>3. LET t == Resolve(st, "Closed", "user", now) IN
      t.state = "Closed" /\ t.lastChecks["apply"] = st.lastChecks["apply"]
  <2>1. SetState(st, "Closed", now) \in Statuses
    BY StateTypes DEF States
  <2>2. "Closed" \in States
    BY DEF States
  <2>3. /\ SetState(st, "Closed", now).state = "Closed"
        /\ SetState(st, "Closed", now).lastChecks["apply"] = st.lastChecks["apply"]
    BY <2>2, EntersState
  <2> QED BY <2>1, <2>3 DEF Resolve, Statuses
<1> QED BY <1>1, <1>2, <1>3 DEF ApplySpec, AppliesNow, noted

-----------------------------------------------------------------------------
(* The exit read from a pod is one a status can hold, and the run's end    *)
(* never the zero time.                                                    *)
LEMMA PodResultType ==
  ASSUME NEW p, p.phase = "Ended" => p.code \in Codes,
         NEW timeout \in Nat \ {0},
         p.created \in Time, p.start \in Time, p.finished \in Time
  PROVE  /\ ExitOf(p) \in Exits
         /\ Overdue(p, timeout) \in Time
         /\ EndedAt(p, timeout) \in Time /\ EndedAt(p, timeout) # None
<1>1. Overdue(p, timeout) \in Time /\ Overdue(p, timeout) # None
      /\ p.start + timeout \in Time /\ p.start + timeout # None
  BY ConfigAssumption DEF Overdue
<1>2. ExitOf(p) \in Exits
  BY DEF ExitOf, Exits, Codes, OutOfRange
<1>3. EndedAt(p, timeout) \in Time /\ EndedAt(p, timeout) # None
  BY <1>1 DEF EndedAt
<1> QED BY <1>1, <1>2, <1>3
=============================================================================
