------------------------- MODULE CheckReaderProofs -------------------------
(***************************************************************************)
(* Theorems about the check reader role, for every set of groups, versions *)
(* and resources.                                                          *)
(***************************************************************************)
EXTENDS CheckReader, TLAPS

(* What a write leaves in the role, from rules that grant nothing hidden. *)
LEMMA WithKeptReadable ==
  ASSUME NEW l, NEW held, NEW unread, NEW g \in Groups,
         held[g] \cap (Unlisted \union Secrets) = {}
  PROVE  WithKept(Rules(l), held, unread)[g] \cap (Unlisted \union Secrets) = {}
<1>1. Rules(l)[g] \cap (Unlisted \union Secrets) = {}
  BY DEF Rules
<1>2. WithKept(Rules(l), held, unread)[g] \in {Rules(l)[g], held[g] \ Secrets}
  BY DEF WithKept
<1> QED BY <1>1, <1>2

(* The role never grants a Secret, a subresource or an unlisted resource,  *)
(* whatever discovery reads, fails to read, and keeps.                     *)
THEOREM OnlyReadableGranted == Spec => []GrantsOnlyReadable
<1>1. Init => GrantsOnlyReadable
  BY DEF Init, NoRules, GrantsOnlyReadable
<1>2. GrantsOnlyReadable /\ [Next]_vars => GrantsOnlyReadable'
  <2> SUFFICES ASSUME GrantsOnlyReadable, [Next]_vars
               PROVE  GrantsOnlyReadable'
    OBVIOUS
  <2>1. CASE WriteRole
    <3>1. rules' \in {WithKept(Rules(lists), rules, failed), rules}
      BY <2>1 DEF WriteRole
    <3> QED BY <3>1, WithKeptReadable DEF GrantsOnlyReadable
  <2>2. CASE RoleRecreated
    BY <2>2 DEF RoleRecreated, NoRules, GrantsOnlyReadable
  <2>3. CASE Discover \/ ReadRole \/ CallFails \/ Cluster \/ UNCHANGED vars
    <3>1. UNCHANGED rules
      BY <2>3 DEF Discover, ReadRole, CallFails, Cluster, Serves, GoesDown, Recovers, Change, vars
    <3> QED BY <3>1 DEF GrantsOnlyReadable
  <2> QED BY <2>1, <2>2, <2>3 DEF Next, Sync
<1> QED BY <1>1, <1>2, PTL DEF Spec

(* A group none of whose versions could be read keeps every rule it has:   *)
(* what WithKept takes from it are Secrets, and the role grants none.  A   *)
(* write over a role recreated meanwhile is a conflict.                    *)
THEOREM UnreadGroupsKeep == Spec => UnreadGroupKept
<1>1. ASSUME GrantsOnlyReadable, [Next]_vars, NEW g \in Groups,
             pc = "write", pc' = "idle", g \in failed, InGroup(lists, g) = {}
      PROVE  rules[g] \subseteq rules'[g]
  <2>1. CASE WriteRole
    <3>1. Rules(lists)[g] = {}
      BY <1>1 DEF Rules
    <3>2. WithKept(Rules(lists), rules, failed)[g] = rules[g] \ Secrets
      BY <1>1, <3>1 DEF WithKept
    <3>3. rules[g] \ Secrets = rules[g]
      BY <1>1 DEF GrantsOnlyReadable
    <3> QED BY <2>1, <3>2, <3>3 DEF WriteRole
  <2>2. CASE CallFails
    BY <2>2 DEF CallFails
  <2>3. CASE Discover \/ ReadRole \/ Cluster \/ RoleRecreated \/ UNCHANGED vars
    BY <1>1, <2>3 DEF Discover, ReadRole, Cluster, Serves, GoesDown, Recovers, Change,
       RoleRecreated, refresher, vars
  <2> QED BY <1>1, <2>1, <2>2, <2>3 DEF Next, Sync
<1>2. GrantsOnlyReadable /\ [Next]_vars =>
        [ \A g \in Groups :
            pc = "write" /\ pc' = "idle" /\ g \in failed /\ InGroup(lists, g) = {} =>
              rules[g] \subseteq rules'[g] ]_vars
  BY <1>1
<1> QED BY <1>2, OnlyReadableGranted, PTL DEF Spec, UnreadGroupKept
=============================================================================
