----------------------------- MODULE AccessGrants -----------------------------
(***************************************************************************)
(* The ResourcePolicy aggregate of the ACL component: a set of grants on   *)
(* one resource, and what each request makes of it.  Each operator that    *)
(* stands for a method of the aggregate returns the set of grant sets the  *)
(* method may answer Ok with, empty when it answers with an error.         *)
(*                                                                         *)
(* The code keeps grants in a list and looks for the first one of a        *)
(* principal; a set says the same because no principal ever has two grants *)
(* (WellOwned in module ResourcePolicy).  A grant_id names the grant of    *)
(* a principal until that grant is removed, so requests by grant_id take a *)
(* grant of the set.                                                       *)
(***************************************************************************)
CONSTANTS
    Users,
    Groups,
    MemberOf,     \* the active groups of every user
    Permissions,
    MANAGE,       \* Permission.MANAGE, "sys:manage"
    Admin         \* a superadmin or a trusted service key

ASSUME PrincipalsAreDistinct == Users \cap Groups = {} /\ Admin \notin Users \cup Groups
ASSUME MembershipTyped == MemberOf \in [Users -> SUBSET Groups]
ASSUME ManageIsAPermission == MANAGE \in Permissions

Principals == Users \cup Groups
Callers == Users \cup {Admin}

Grant == [principal: Principals, permissions: SUBSET Permissions, owner: BOOLEAN]

OwnerGrant(p) == [principal |-> p, permissions |-> Permissions, owner |-> TRUE]
PlainGrant(p, ps) == [principal |-> p, permissions |-> ps, owner |-> FALSE]

Owners(grants) == {g \in grants : g.owner}
GrantsTo(grants, p) == {g \in grants : g.principal = p}
Reset(grants, g, ps) == (grants \ {g}) \cup {[g EXCEPT !.permissions = ps]}

\* An owner holds every permission whatever its grant lists.
Effective(grants, ps) ==
    UNION {IF g.owner THEN Permissions ELSE g.permissions :
              g \in {h \in grants : h.principal \in ps}}

\* An administrator acts with the identity of the resource's owner.
PrincipalsOf(caller, grants) ==
    IF caller = Admin THEN {g.principal : g \in Owners(grants)}
                      ELSE {caller} \cup MemberOf[caller]

Manages(caller, grants) == MANAGE \in Effective(grants, PrincipalsOf(caller, grants))

-----------------------------------------------------------------------------
\* Mutant: the new owner takes the place of the old one.
Claimed_TakesOver(grants, p) == {(grants \ Owners(grants)) \cup {OwnerGrant(p)}}

Claimed(grants, p) ==
    IF \E g \in GrantsTo(grants, p) : g.owner THEN {grants}
    ELSE IF Owners(grants) = {} THEN {grants \cup {OwnerGrant(p)}}
    ELSE {}

\* The same, and an owner that claims again gets its permissions back.
ClaimedForPrincipal(grants, p) ==
    IF \E g \in GrantsTo(grants, p) : g.owner
    THEN {Reset(grants, g, Permissions) : g \in GrantsTo(grants, p)}
    ELSE Claimed(grants, p)

\* The old owner keeps a plain grant if "keep" names any permission.
Transferred(grants, p, keep) ==
    {    {g \in grants \ {o} : g.principal # p}
    \cup {OwnerGrant(p)}
    \cup {PlainGrant(q, keep) : q \in IF keep = {} THEN {} ELSE {o.principal} \ {p}} :
        o \in Owners(grants)}

Granted(grants, p, ps) ==
    IF GrantsTo(grants, p) = {} THEN {grants \cup {PlainGrant(p, ps)}}
    ELSE {Reset(grants, g, g.permissions \cup ps) : g \in GrantsTo(grants, p)}

\* Mutant: forgets that the last owner keeps MANAGE.
Revoked_LastOwner(grants, p, ps) ==
    IF GrantsTo(grants, p) = {} THEN {grants}
    ELSE {IF g.permissions \subseteq ps THEN grants \ {g}
          ELSE Reset(grants, g, g.permissions \ ps) : g \in GrantsTo(grants, p)}

\* Mutant: stores the permissions to be removed.
Revoked_Swapped(grants, p, ps) ==
    {Reset(grants, g, ps) : g \in GrantsTo(grants, p) \ Owners(grants)}

Revoked(grants, p, ps) ==
    IF GrantsTo(grants, p) = {} THEN {grants}
    ELSE {IF g.permissions \subseteq ps THEN grants \ {g}
          ELSE Reset(grants, g, g.permissions \ ps) :
             g \in {h \in GrantsTo(grants, p) :
                       ~(h.owner /\ MANAGE \in ps /\ Owners(grants) = {h})}}

UpdatedGrant(grants, g, ps) ==
    IF g \in grants \ Owners(grants) /\ ps # {} THEN {Reset(grants, g, ps)} ELSE {}
==============================================================================
