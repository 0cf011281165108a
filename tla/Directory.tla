------------------------------ MODULE Directory ------------------------------
(***************************************************************************)
(* The tenant users of one account with everything that names them: their  *)
(* scopes and licences (Subscriptions), the groups they own and belong to  *)
(* (Groups), and what the other components keep about them: the policies   *)
(* whose grants name them, the NGAC nodes they own and the roles assigned  *)
(* to them.  The deletion of a user is a cascade over all of these, one    *)
(* collection per await, which stops at the first that fails.              *)
(*                                                                         *)
(* A request may stop at any await (Abort): an operation failed and the    *)
(* caller got an error, or the process died.  Where the code does          *)
(* something else about a failure, that is an action of its own.  The      *)
(* cascade also ends the sessions and recovery tokens of the user, which   *)
(* UserSessions and PasswordRecovery model.                                *)
(***************************************************************************)
EXTENDS Subscriptions, Groups

CONSTANT MaxReferences
ASSUME MaxReferencesAssumption == MaxReferences \in Nat

VARIABLE references  \* <<component, user>>: what the others keep about a user

vars == <<userVars, subscriptionVars, groupVars, references, job>>

Components == {"acl", "ngac", "rbac"}

Steps == {"idle", "answered", "insertUser", "findScope", "insertAssignment", "deleteLicence",
          "insertLicence", "rollback", "insertScope", "countLicences", "deleteScope",
          "saveGroup", "deleteGroup", "deleteRows", "addRows", "removeRows", "findOwned",
          "licences", "assignments", "acl", "memberships", "ngac", "rbac", "document"}
Ops == {"none", "create", "signup", "assign", "group", "drop", "members", "transfer", "delete"}
Job == [at: Steps, op: Ops, ok: BOOLEAN, user: UserIds \cup {None},
        name: Usernames \cup {None}, scope: Scopes \cup {None},
        group: GroupIds \cup {None}, draft: GroupDoc \cup {None}, who: SUBSET UserIds,
        was: BOOLEAN, keep: BOOLEAN]

TypeOK ==
    /\ users \subseteq UserIds
    /\ nameOf \in [UserIds -> Usernames \cup {None}]
    /\ scopes \subseteq Scopes
    /\ assigned \in [Usernames \X Scopes -> 0 .. MaxCopies]
    /\ licences \in [Usernames \X Scopes -> 0 .. MaxCopies]
    /\ groups \in [GroupIds -> GroupDoc \cup {NoGroup, Deleted}]
    /\ members \subseteq GroupIds \X UserIds
    /\ used \subseteq GroupIds
    /\ references \subseteq Components \X UserIds
    /\ job \in [Workers -> Job]

Init ==
    /\ users = {}
    /\ nameOf = [u \in UserIds |-> None]
    /\ scopes = {}
    /\ assigned = [p \in Usernames \X Scopes |-> 0]
    /\ licences = [p \in Usernames \X Scopes |-> 0]
    /\ groups = [g \in GroupIds |-> NoGroup]
    /\ members = {}
    /\ used = {}
    /\ references = {}
    /\ job = [w \in Workers |-> Idle]

-----------------------------------------------------------------------------
(* The deletion of a user, in the order of the code. *)

DeleteUser(w, n, u) ==
    /\ Free(w)
    /\ Resolves(n, u)
    /\ Become(w, [Idle EXCEPT !.at = "findOwned", !.op = "delete", !.user = u, !.name = n])
    /\ UNCHANGED <<userVars, subscriptionVars, groupVars, references>>

DeleteFindOwned(w) ==
    /\ At(w, "findOwned")
    /\ IF OwnedBy(job[w].user) = {} THEN Goto(w, "licences") ELSE Finish(w)
    /\ UNCHANGED <<userVars, subscriptionVars, groupVars, references>>

\* Licences and assignments go by the username as the caller spelled it.
DeleteLicences(w) ==
    /\ At(w, "licences")
    /\ licences' = Purged(licences, job[w].name)
    /\ Goto(w, "assignments")
    /\ UNCHANGED <<userVars, scopes, assigned, groupVars, references>>

\* Mutant: the user document goes before what refers to it.
DeleteAssignments_UserFirst(w) ==
    /\ At(w, "assignments")
    /\ assigned' = Purged(assigned, job[w].name)
    /\ users' = users \ {job[w].user}
    /\ Goto(w, "acl")
    /\ UNCHANGED <<nameOf, scopes, licences, groupVars, references>>

\* Mutant: the scope assignments of the user are left.
DeleteAssignments_Skipped(w) ==
    /\ At(w, "assignments")
    /\ Goto(w, "acl")
    /\ UNCHANGED <<userVars, subscriptionVars, groupVars, references>>

DeleteAssignments(w) ==
    /\ At(w, "assignments")
    /\ assigned' = Purged(assigned, job[w].name)
    /\ Goto(w, "acl")
    /\ UNCHANGED <<userVars, scopes, licences, groupVars, references>>

After == [acl |-> "memberships", ngac |-> "rbac", rbac |-> "document"]

DeleteReferences(w, c) ==
    /\ At(w, c)
    /\ references' = references \ {<<c, job[w].user>>}
    /\ Goto(w, After[c])
    /\ UNCHANGED <<userVars, subscriptionVars, groupVars>>

\* delete_all_for_user asks for owned groups once more.
DeleteMemberships(w) ==
    /\ At(w, "memberships")
    /\ IF OwnedBy(job[w].user) = {}
       THEN members' = members \ (GroupIds \X {job[w].user}) /\ Goto(w, "ngac")
       ELSE UNCHANGED members /\ Finish(w)
    /\ UNCHANGED <<userVars, subscriptionVars, groups, used, references>>

DeleteDocument(w) ==
    /\ At(w, "document")
    /\ users' = users \ {job[w].user}
    /\ Answer(w, TRUE)
    /\ UNCHANGED <<nameOf, subscriptionVars, groupVars, references>>

\* A claim or grant of a resource, a node, an assigned role; or its end.
Refer(c, u) ==
    /\ Quiet
    /\ u \in users
    /\ Cardinality(references) < MaxReferences
    /\ references' = references \cup {<<c, u>>}
    /\ UNCHANGED <<userVars, subscriptionVars, groupVars, job>>

Unrefer(c, u) ==
    /\ Quiet
    /\ references' = references \ {<<c, u>>}
    /\ UNCHANGED <<userVars, subscriptionVars, groupVars, job>>

Abort(w) ==
    /\ ~Free(w)
    /\ Finish(w)
    /\ UNCHANGED <<userVars, subscriptionVars, groupVars, references>>

DeletionNext(w) ==
    \/ \E n \in Usernames, u \in UserIds : DeleteUser(w, n, u)
    \/ DeleteFindOwned(w) \/ DeleteLicences(w) \/ DeleteAssignments(w)
    \/ \E c \in Components : DeleteReferences(w, c)
    \/ DeleteMemberships(w) \/ DeleteDocument(w)

Next ==
    \/ \E w \in Workers :
          \/ SubscriptionNext(w) /\ UNCHANGED <<groupVars, references>>
          \/ GroupNext(w) /\ UNCHANGED <<subscriptionVars, references>>
          \/ DeletionNext(w)
          \/ Abort(w)
    \/ \E g \in GroupIds : (Use(g) \/ Unuse(g)) /\ UNCHANGED <<subscriptionVars, references>>
    \/ \E c \in Components, u \in UserIds : Refer(c, u) \/ Unrefer(c, u)

Spec == Init /\ [][Next]_vars

-----------------------------------------------------------------------------
(* Properties *)

\* Every owner and member of a group, every user a policy, a node or a role
\* assignment names, has a document, and every group that is used exists:
\* the cascade of a deletion takes the user document last, wherever it stops.
ReferencesLive ==
    /\ \A g \in Groups : groups[g].owner \in users
    /\ \A r \in members : r[2] \in users
    /\ \A r \in references : r[2] \in users
    /\ used \subseteq Groups

\* A sign-up that is answered with success has made the user, its scope and
\* its licence; one that is answered with an error has left no user behind,
\* unless the deletion that undoes it failed too (Abort).
SignUpAllOrNothing == \A w \in Workers :
    /\ Answered(w, "signup", TRUE) =>
          /\ job[w].user \in users
          /\ assigned[<<job[w].name, job[w].scope>>] > 0
          /\ licences[<<job[w].name, job[w].scope>>] > 0
    /\ Answered(w, "signup", FALSE) => FindByUsername(job[w].name) = {}

\* When delete_user answers, no licence, scope assignment, membership or
\* reference of the user is left: what was kept under its username would
\* pass to whoever signs up with that name next.
DeletionIsComplete == \A w \in Workers :
    Answered(w, "delete", TRUE) =>
        LET u == job[w].user IN
        /\ \A s \in Scopes : licences[<<nameOf[u], s>>] = 0 /\ assigned[<<nameOf[u], s>>] = 0
        /\ u \notin {r[2] : r \in members \cup references}

\* A transfer that is answered with success has changed the owner, and keeps
\* the previous one as a member if it was asked to and changes no membership
\* if it was not; one that is answered with an error leaves owner and membership as
\* they were, unless the removal of the added row failed too (Abort).
TransferAllOrNothing == \A w \in Workers : LET j == job[w] IN
    /\ Answered(w, "transfer", TRUE) =>
          /\ groups[j.group].owner = j.user
          /\ Row(j.group, j.who) \subseteq members <=> j.keep \/ j.was
    /\ Answered(w, "transfer", FALSE) =>
          groups[j.group].owner \in j.who /\ (Row(j.group, j.who) \subseteq members <=> j.was)

(* Where the code compensates for a write that failed after another one: a *)
(* failed sign-up leaves no user, a failed transfer leaves the owner and    *)
(* the members as they were, and a success has both of its writes.          *)
CompensationIsComplete == SignUpAllOrNothing /\ TransferAllOrNothing
=============================================================================
