---------------------------- MODULE CheckReader ----------------------------
(***************************************************************************)
(* The check reader role (checkreader.go): the refresher reads which       *)
(* resources the API server serves, reads the ClusterRole, and writes its  *)
(* rules when they differ.  Meanwhile versions of API groups come, go and  *)
(* become unhealthy, the release recreates the role, and calls fail.       *)
(***************************************************************************)
EXTENDS Integers

CONSTANTS
  Groups, Versions,
  Resources,    \* names of resources and subresources
  Unlisted,     \* those without get or list, and the subresources
  Secrets,      \* those excluded in whatever group serves them
  MaxChanges,   \* bound: changes of what is served and of its health
  MaxFaults     \* bound: failed calls and recreations of the role

ASSUME ReaderAssumption ==
  /\ Unlisted \subseteq Resources
  /\ Secrets \subseteq Resources
  /\ MaxChanges \in Nat
  /\ MaxFaults \in Nat

GroupVersions == Groups \X Versions

VARIABLES
  served,   \* the resources each group version serves
  down,     \* the group versions discovery cannot read
  rules,    \* the role: the resources it grants in each group
  pc,       \* where sync is
  lists,    \* the resources discovery listed, of each group version
  failed,   \* the groups it could not read all versions of
  current,  \* the role has not been written since sync read it
  changes, faults

cluster == <<served, down>>
refresher == <<pc, lists, failed, current>>
vars == <<cluster, rules, refresher, changes, faults>>

Served == [GroupVersions -> SUBSET Resources]
Roles == [Groups -> SUBSET Resources]
NoRules == [g \in Groups |-> {}]
NothingListed == [gv \in GroupVersions |-> {}]

(* The chart creates the role without rules. *)
Init ==
  /\ served \in Served /\ down = {}
  /\ rules = NoRules
  /\ pc = "idle" /\ lists = NothingListed /\ failed = {} /\ current = TRUE
  /\ changes = MaxChanges /\ faults = MaxFaults

-----------------------------------------------------------------------------
(* What discovery's lists grant, one rule per group. *)
InGroup(l, g) == UNION {l[<<g, v>>] : v \in Versions}

(* Mutant: Secrets are granted like any other resource. *)
RulesOfAll(l) == [g \in Groups |-> InGroup(l, g) \ Unlisted]

Rules(l) == [g \in Groups |-> InGroup(l, g) \ (Unlisted \union Secrets)]

(* Mutant: a group that could not be read loses its rules. *)
KeepNothing(want, held, unread) == want

(* Mutant: a group read in part keeps its rules as they are. *)
KeepWholeGroup(want, held, unread) ==
  [g \in Groups |-> IF g \in unread /\ held[g] # {} THEN held[g] ELSE want[g]]

(* Mutant: whatever was granted stays granted. *)
KeepEverything(want, held, unread) == [g \in Groups |-> want[g] \union held[g]]

(* A group that could not be read, and of which nothing else was, keeps    *)
(* the rules it holds.                                                     *)
WithKept(want, held, unread) ==
  [g \in Groups |-> IF g \in unread /\ want[g] = {} THEN held[g] \ Secrets ELSE want[g]]

-----------------------------------------------------------------------------
(* sync, call by call.  A discovery that fails as a whole changes nothing. *)
Discover ==
  /\ pc = "idle"
  /\ lists' = [gv \in GroupVersions |-> IF gv \in down THEN {} ELSE served[gv]]
  /\ failed' = {gv[1] : gv \in down}
  /\ pc' = "read"
  /\ UNCHANGED <<cluster, rules, current, changes, faults>>

ReadRole ==
  /\ pc = "read"
  /\ pc' = "write" /\ current' = TRUE
  /\ UNCHANGED <<cluster, rules, lists, failed, changes, faults>>

EndSync == pc' = "idle" /\ lists' = NothingListed /\ failed' = {} /\ current' = TRUE

(* A role written since it was read is a conflict, and ends the sync. *)
WriteRole ==
  /\ pc = "write"
  /\ rules' = IF current THEN WithKept(Rules(lists), rules, failed) ELSE rules
  /\ EndSync
  /\ UNCHANGED <<cluster, changes, faults>>

CallFails ==
  /\ pc # "idle" /\ faults > 0
  /\ faults' = faults - 1
  /\ EndSync
  /\ UNCHANGED <<cluster, rules, changes>>

-----------------------------------------------------------------------------
(* The API server: CRDs and aggregated APIs. *)
Change ==
  /\ changes > 0
  /\ changes' = changes - 1
  /\ UNCHANGED <<rules, refresher, faults>>

Serves(gv, resources) ==
  /\ gv \notin down
  /\ served' = [served EXCEPT ![gv] = resources]
  /\ UNCHANGED down
  /\ Change

GoesDown(gv) ==
  /\ served[gv] # {}
  /\ down' = down \union {gv}
  /\ UNCHANGED served
  /\ Change

Recovers(gv) ==
  /\ gv \in down
  /\ down' = down \ {gv}
  /\ UNCHANGED <<served, rules, refresher, changes, faults>>

(* The release is installed anew: the role has no rules again. *)
RoleRecreated ==
  /\ faults > 0
  /\ faults' = faults - 1
  /\ rules' = NoRules /\ current' = (pc # "write")
  /\ UNCHANGED <<cluster, pc, lists, failed, changes>>

-----------------------------------------------------------------------------
Sync == Discover \/ ReadRole \/ WriteRole

Cluster ==
  \E gv \in GroupVersions :
    \/ \E resources \in SUBSET Resources : Serves(gv, resources)
    \/ GoesDown(gv)
    \/ Recovers(gv)

Next == Sync \/ CallFails \/ Cluster \/ RoleRecreated

Spec == Init /\ [][Next]_vars

(* The refresher runs at start and then every Options.Interval. *)
FairSpec == Spec /\ WF_vars(Sync)

-----------------------------------------------------------------------------
(* The role grants neither Secrets nor what discovery would not list, in   *)
(* whatever group they are served, read or kept.                           *)
GrantsOnlyReadable == \A g \in Groups : rules[g] \cap (Unlisted \union Secrets) = {}

Unhealthy(g) == \E v \in Versions : <<g, v>> \in down

(* A group none of whose versions could be read keeps its rules, whatever  *)
(* happens to the role and to the group meanwhile.                         *)
UnreadGroupKept ==
  [][ \A g \in Groups :
        pc = "write" /\ pc' = "idle" /\ g \in failed /\ InGroup(lists, g) = {} =>
          rules[g] \subseteq rules'[g] ]_vars

(* "an unhealthy aggregated API does not take reads away" (sync): what a   *)
(* group version serves stays granted while discovery cannot read it.      *)
UnhealthyKeepsReads ==
  [][ \A gv \in down :
        pc = "write" /\ pc' = "idle" /\ gv[1] \in failed /\ lists[gv] = {} =>
          rules[gv[1]] \cap served[gv] \subseteq rules'[gv[1]] ]_vars

(* A resource installed later becomes readable, also one of a healthy      *)
(* version beside an unhealthy one.                                        *)
NewResourceReadable ==
  \A gv \in GroupVersions, r \in Resources \ (Unlisted \union Secrets) :
    (r \in served[gv] /\ gv \notin down) ~>
      (r \in rules[gv[1]] \/ r \notin served[gv] \/ gv \in down)

(* A resource that is no longer served stops being granted, once its group *)
(* is healthy.                                                             *)
RemovedResourceRevoked ==
  \A g \in Groups, r \in Resources :
    (r \notin InGroup(served, g) /\ ~Unhealthy(g)) ~>
      (r \notin rules[g] \/ r \in InGroup(served, g) \/ Unhealthy(g))
=============================================================================
