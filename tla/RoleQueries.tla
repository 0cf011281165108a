----------------------------- MODULE RoleQueries ----------------------------
(***************************************************************************)
(* The read side of the RBAC component: one request that asks what a user  *)
(* may do, while roles, assignments and memberships change.  Every read is *)
(* an await of its own, so that the answer is put together from states     *)
(* that may never have held at the same time.  The changes are those of    *)
(* RoleStore, which the write side (RoleHierarchy) implements.             *)
(*                                                                         *)
(* "check" stands for check_explained, "explain" for                       *)
(* get_effective_permissions_explained, "has_role" for has_role_explained. *)
(***************************************************************************)
EXTENDS RoleStore, RoleWalks

CONSTANTS
    Users, Groups,  \* the two kinds of subjects
    Nothing         \* stands for any absent value

ASSUME HoldersAreUsersAndGroups ==
    Holders = Users \cup Groups /\ Users \cap Groups = {}

VARIABLES
    member,   \* the groups each user has a membership document for
    active,   \* the groups that are active
    query,    \* the request
    seen      \* what has held at some moment, or ever since, it arrived

groupVars == <<member, active>>
queryVars == <<storeVars, groupVars, query, seen>>

\* Where the request is, what it has read, and the answer it ended with.
NoQuery == [at |-> "idle", asks |-> Nothing, user |-> Nothing, groups |-> {}, roots |-> {},
            permissions |-> {}, target |-> Nothing, path |-> <<>>]

Reading == query.at \notin {"idle", "answered"}

-----------------------------------------------------------------------------
(* What the answer is compared with.                                       *)

\* The assignments by which user u holds a role now.
Holdings(u) == {h \in assigned : h[2] \in stored /\ h[1] \in {u} \cup (member[u] \cap active)}

NothingSeen == [member |-> {}, active |-> {}, assigned |-> {}, kept |-> {}]
SeenFirst(u) == [member |-> member[u], active |-> active,
                 assigned |-> assigned, kept |-> Holdings(u)]

\* seen after a step of somebody else.
Watch ==
    seen' = IF ~Reading THEN seen
            ELSE [member   |-> seen.member \cup member'[query.user],
                  active   |-> seen.active \cup active',
                  assigned |-> seen.assigned \cup assigned',
                  kept     |-> seen.kept \cap Holdings(query.user)']

-----------------------------------------------------------------------------
(* The request.                                                            *)

RolesOf(s) == {r \in Roles : <<s, r>> \in assigned}
PermissionsOf(roles) == UNION {permissions[r] : r \in roles}

Proceed(q) ==
    /\ query' = q
    /\ UNCHANGED <<storeVars, groupVars, seen>>

\* Every question starts with find_by_subject(..., "USER").
Ask(asks, u) ==
    /\ ~Reading
    /\ query' = [NoQuery EXCEPT !.at = "memberships", !.asks = asks, !.user = u,
                                !.roots = RolesOf(u)]
    /\ seen' = SeenFirst(u)
    /\ UNCHANGED <<storeVars, groupVars>>

\* find_groups_for_user reads the memberships, then which of the groups are
\* active.
ReadMemberships ==
    /\ query.at = "memberships"
    /\ Proceed([query EXCEPT !.at = "active_groups", !.groups = member[query.user]])

\* Mutant: a disabled group counts.
ReadActiveGroups_All ==
    /\ query.at = "active_groups"
    /\ Proceed([query EXCEPT !.at = "group_roles"])

ReadActiveGroups ==
    /\ query.at = "active_groups"
    /\ Proceed([query EXCEPT !.at = "group_roles", !.groups = @ \cap active])

\* Mutant: the roles of the group replace the ones collected so far.
ReadGroupRoles_Replaced(g) ==
    /\ query.at = "group_roles"
    /\ g \in query.groups
    /\ Proceed([query EXCEPT !.groups = @ \ {g}, !.roots = RolesOf(g)])

ReadGroupRoles(g) ==
    /\ query.at = "group_roles"
    /\ g \in query.groups
    /\ Proceed([query EXCEPT !.groups = @ \ {g}, !.roots = @ \cup RolesOf(g)])

\* The explanation keeps the identifiers; the others look the roles up first.
EndGroupRoles ==
    /\ query.at = "group_roles"
    /\ query.groups = {}
    /\ Proceed([query EXCEPT !.at = IF query.asks = "explain" \/ query.roots = {}
                                    THEN "roles" ELSE "roots"])

\* find_many.
ReadRoots ==
    /\ query.at = "roots"
    /\ Proceed([query EXCEPT !.at = "roles", !.roots = @ \cap stored])

\* own_permissions and inherited_permissions.
Explained(roots) ==
    PermissionsOf(roots) \cup PermissionsOf(InheritedRoles(parents, roots))

Answer(a) ==
    /\ query.at = "roles"
    /\ query' = a
    /\ seen' = NothingSeen
    /\ UNCHANGED <<storeVars, groupVars>>

\* find_all, and the answer.
AnswerCheck ==
    /\ query.asks = "check"
    /\ Answer([NoQuery EXCEPT !.at = "answered",
                  !.permissions = PermissionsOf(EffectiveRoles(parents, query.roots))])

AnswerExplain ==
    /\ query.asks = "explain"
    /\ Answer([NoQuery EXCEPT !.at = "answered", !.permissions = Explained(query.roots)])

\* The role asked for is only looked at here.
AnswerHasRole(target) ==
    /\ query.asks = "has_role"
    /\ Answer([NoQuery EXCEPT !.at = "answered", !.target = target,
                  !.path = ResolutionPath(parents, query.roots, target)])

\* A read that fails ends the request without an answer.
FailRead ==
    /\ Reading
    /\ query' = NoQuery
    /\ seen' = NothingSeen
    /\ UNCHANGED <<storeVars, groupVars>>

Reader ==
    \/ \E u \in Users, asks \in {"check", "explain", "has_role"} : Ask(asks, u)
    \/ ReadMemberships \/ ReadActiveGroups \/ EndGroupRoles \/ ReadRoots
    \/ \E g \in Groups : ReadGroupRoles(g)
    \/ AnswerCheck \/ AnswerExplain \/ FailRead
    \/ \E target \in Roles : AnswerHasRole(target)

-----------------------------------------------------------------------------
(* The group service, by what the reads above see of it.                   *)

ChangeMembership(u, g) ==
    /\ member' = [member EXCEPT ![u] = IF g \in @ THEN @ \ {g} ELSE @ \cup {g}]
    /\ UNCHANGED <<storeVars, active, query>>
    /\ Watch

ChangeStatus(g) ==
    /\ active' = IF g \in active THEN active \ {g} ELSE active \cup {g}
    /\ UNCHANGED <<storeVars, member, query>>
    /\ Watch

GroupService ==
    \E g \in Groups :
        ChangeStatus(g) \/ \E u \in Users : ChangeMembership(u, g)

-----------------------------------------------------------------------------
QueryInit ==
    /\ StoreInit
    /\ member = [u \in Users |-> {}]
    /\ active = Groups
    /\ query = NoQuery
    /\ seen = NothingSeen

Write == StoreNext /\ UNCHANGED <<groupVars, query>> /\ Watch

QueryNext == Write \/ GroupService \/ Reader

QuerySpec == QueryInit /\ [][QueryNext]_queryVars

-----------------------------------------------------------------------------
Answering == query.at = "roles" /\ query'.at = "answered"

\* Roles that were assigned to the user, or to a group he was seen in and that
\* was seen active, at some moment of the request.
WarrantedRoles ==
    {h[2] : h \in {x \in seen.assigned :
                      x[1] \in {query.user} \cup (seen.member \cap seen.active)}}

\* Roles the user held by one assignment ever since he asked.
KeptRoles == {h[2] : h \in seen.kept}

(* Reads at different awaits invent nothing: a permission in the answer is *)
(* one that a role has at the moment the roles are loaded, and the role is *)
(* reached from one that was assigned to the user, or to an active group   *)
(* of his, while the request ran.  A role taken away before the request,   *)
(* or a permission taken out of a role before the last read, is not        *)
(* counted (check_explained).  A path in the answer of has_role_explained  *)
(* starts at such a role and follows the hierarchy as loaded.              *)
GrantsAreWarranted ==
    [][Answering =>
          /\ query'.permissions \subseteq PermissionsOf(Ancestors(parents, WarrantedRoles))
          /\ query'.path # <<>> =>
                IsPath(parents, WarrantedRoles, query'.target, query'.path)]_queryVars

(* And they lose nothing that stayed: whatever else is changed meanwhile,  *)
(* a role the user has held by the same assignment ever since he asked     *)
(* counts, with all that it inherits when the roles are loaded, in the     *)
(* check, the explanation and the search for one role.                     *)
NothingKeptIsMissed ==
    [][Answering =>
          LET kept == Ancestors(parents, KeptRoles)
          IN  IF query.asks = "has_role"
              THEN query'.target \in kept => query'.path # <<>>
              ELSE PermissionsOf(kept) \subseteq query'.permissions]_queryVars
=============================================================================
