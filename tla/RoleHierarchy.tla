---------------------------- MODULE RoleHierarchy ----------------------------
(***************************************************************************)
(* The write side of the RBAC component of one account: RBACService over   *)
(* the collections of roles, role assignments and catalogued permissions.  *)
(*                                                                         *)
(* A handler is a sequence of awaits on MongoDB and each await is a step   *)
(* here, so that handlers interleave between a read and the write that     *)
(* depends on it.  Roles are written back as whole documents with          *)
(* replace_one(upsert=True).  Abort ends a request at any await: a storage *)
(* error returned to the caller, or the crash of the server.               *)
(*                                                                         *)
(* Editors is the set of workers that may serve requests on roles; every   *)
(* worker may serve requests on assignments.  With one editor, role        *)
(* documents are only ever changed by one request at a time.               *)
(***************************************************************************)
EXTENDS RoleGraph

CONSTANTS
    Names,          \* role names
    Permissions,    \* "resource_type:action" strings
    Subjects,       \* users and active groups
    AssignmentIds,  \* identifiers of assignment documents
    Workers,        \* requests that can be in flight together
    Editors,        \* the workers that serve requests on roles
    None            \* stands for any absent identifier

ASSUME NoneIsFresh ==
    None \notin Roles \cup Names \cup Subjects \cup AssignmentIds
ASSUME EditorsAreWorkers == Editors \subseteq Workers

VARIABLES
    role,        \* role documents by identifier
    assignment,  \* assignment documents by identifier
    catalog,     \* permissions registered for the account
    issued,      \* identifiers generate() has returned: never drawn twice
    job          \* the request each worker is serving

vars == <<role, assignment, catalog, issued, job>>

RoleDoc == [name: Names, permissions: SUBSET Permissions, parents: SUBSET Roles]
NoRole == [name |-> None, permissions |-> {}, parents |-> {}]
AssignmentDoc == [subject: Subjects, role: Roles]
NoAssignment == [subject |-> None, role |-> None]

Stored == {r \in Roles : role[r] # NoRole}
ParentsOf == [r \in Roles |-> role[r].parents]
AssignmentsTo(r) == {a \in AssignmentIds : assignment[a].role = r}

NoDrafts == [r \in Roles |-> NoRole]
Idle == [at |-> "idle", role |-> None, parent |-> None, draft |-> NoRole,
         drafts |-> NoDrafts, unlisted |-> {}, id |-> None, subject |-> None]

EditSteps == {"check_name", "save_role", "register", "purge_assignments",
              "list_children", "strip_children", "check_parent", "load_graph"}
AssignSteps == {"check_pair", "save_pair", "delete_pair", "check_role"}

Job == [at: {"idle"} \cup EditSteps \cup AssignSteps,
        role: Roles \cup {None}, parent: Roles \cup {None},
        draft: RoleDoc \cup {NoRole}, drafts: [Roles -> RoleDoc \cup {NoRole}],
        unlisted: SUBSET Permissions,
        id: AssignmentIds \cup {None}, subject: Subjects \cup {None}]

TypeOK ==
    /\ role \in [Roles -> RoleDoc \cup {NoRole}]
    /\ assignment \in [AssignmentIds -> AssignmentDoc \cup {NoAssignment}]
    /\ catalog \subseteq Permissions
    /\ issued \subseteq Roles \cup AssignmentIds
    /\ job \in [Workers -> Job]

Init ==
    /\ role = [r \in Roles |-> NoRole]
    /\ assignment = [a \in AssignmentIds |-> NoAssignment]
    /\ catalog = {}
    /\ issued = {}
    /\ job = [w \in Workers |-> Idle]

-----------------------------------------------------------------------------
(* Helpers of the handlers.                                                *)

At(w, step) == job[w].at = step
Become(w, j) == job' = [job EXCEPT ![w] = j]
Serve(w, step, r, d) == Become(w, [Idle EXCEPT !.at = step, !.role = r, !.draft = d])
Finish(w) == Become(w, Idle)

\* Mutant: names are compared with the role's own name only.
NameFree_Always(n) == TRUE

\* find_by_name returns nothing.
NameFree(n) == \A r \in Roles : role[r].name # n

Permitted(d, p) == [d EXCEPT !.permissions = @ \cup {p}]
Forbidden(d, p) == [d EXCEPT !.permissions = @ \ {p}]
Orphaned(d, p) == [d EXCEPT !.parents = @ \ {p}]
Adopted(d, p) == [d EXCEPT !.parents = @ \cup {p}]

\* Mutant: looks at the parents of the new parent and no further.
WouldCreateCycle_OneLevel(par, r, p) == r \in {p} \cup par[p]

\* RBACDomainService.would_create_cycle; CycleSearch is its loop.
WouldCreateCycle(par, r, p) == r \in Ancestors(par, {p})

\* Mutant: strips the role from the first child only.
ChildDrafts_First(r) ==
    LET children == {x \in Roles : r \in role[x].parents}
    IN  [c \in Roles |-> IF children # {} /\ c = CHOOSE x \in children : TRUE
                         THEN Orphaned(role[c], r) ELSE NoRole]

\* The documents delete_role writes back: every role that names r as parent.
ChildDrafts(r) ==
    [c \in Roles |-> IF r \in role[c].parents THEN Orphaned(role[c], r)
                                              ELSE NoRole]

-----------------------------------------------------------------------------
(* Requests on roles.                                                      *)

\* create_role: the name is looked up, then the new identifier is drawn.
CreateRole(w, r, n, ps) ==
    /\ At(w, "idle")
    /\ NameFree(n)
    /\ r \notin issued
    /\ issued' = issued \cup {r}
    /\ Become(w, [Idle EXCEPT !.at = "save_role", !.role = r, !.unlisted = ps,
                      !.draft = [name |-> n, permissions |-> ps, parents |-> {}]])
    /\ UNCHANGED <<role, assignment, catalog>>

\* update_role: a new name is checked at the next await, a new description
\* is not checked at all.
UpdateRole(w, r, n) ==
    /\ At(w, "idle")
    /\ r \in Stored
    /\ IF n # role[r].name
       THEN Serve(w, "check_name", r, [role[r] EXCEPT !.name = n])
       ELSE Serve(w, "save_role", r, role[r])
    /\ UNCHANGED <<role, assignment, catalog, issued>>

CheckName(w) ==
    /\ At(w, "check_name")
    /\ IF NameFree(job[w].draft.name)
       THEN Become(w, [job[w] EXCEPT !.at = "save_role"])
       ELSE Finish(w)
    /\ UNCHANGED <<role, assignment, catalog, issued>>

AddPermission(w, r, p) ==
    /\ At(w, "idle")
    /\ r \in Stored
    /\ Become(w, [Idle EXCEPT !.at = "save_role", !.role = r, !.unlisted = {p},
                              !.draft = Permitted(role[r], p)])
    /\ UNCHANGED <<role, assignment, catalog, issued>>

RemovePermission(w, r, p) ==
    /\ At(w, "idle")
    /\ r \in Stored
    /\ Serve(w, "save_role", r, Forbidden(role[r], p))
    /\ UNCHANGED <<role, assignment, catalog, issued>>

\* add_parent reads the role, then the parent, then the whole collection; the
\* document it saves is the one of the first read.
AddParent(w, r, p) ==
    /\ At(w, "idle")
    /\ r # p
    /\ r \in Stored
    /\ Become(w, [Idle EXCEPT !.at = "check_parent", !.role = r,
                              !.parent = p, !.draft = role[r]])
    /\ UNCHANGED <<role, assignment, catalog, issued>>

CheckParent(w) ==
    /\ At(w, "check_parent")
    /\ IF job[w].parent \in Stored /\ job[w].parent \notin job[w].draft.parents
       THEN Become(w, [job[w] EXCEPT !.at = "load_graph"])
       ELSE Finish(w)
    /\ UNCHANGED <<role, assignment, catalog, issued>>

LoadGraph(w) ==
    /\ At(w, "load_graph")
    /\ IF WouldCreateCycle(ParentsOf, job[w].role, job[w].parent)
       THEN Finish(w)
       ELSE Serve(w, "save_role", job[w].role, Adopted(job[w].draft, job[w].parent))
    /\ UNCHANGED <<role, assignment, catalog, issued>>

RemoveParent(w, r, p) ==
    /\ At(w, "idle")
    /\ r \in Stored
    /\ Serve(w, "save_role", r, Orphaned(role[r], p))
    /\ UNCHANGED <<role, assignment, catalog, issued>>

\* replace_one({"_id": role_id}, document, upsert=True).
SaveRole(w) ==
    /\ At(w, "save_role")
    /\ role' = [role EXCEPT ![job[w].role] = job[w].draft]
    /\ IF job[w].unlisted = {}
       THEN Finish(w)
       ELSE Become(w, [job[w] EXCEPT !.at = "register"])
    /\ UNCHANGED <<assignment, catalog, issued>>

\* The permission catalog: create_role and add_permission register what they
\* have just stored, one upsert for each permission.
Register(w, p) ==
    /\ At(w, "register")
    /\ p \in job[w].unlisted
    /\ catalog' = catalog \cup {p}
    /\ IF job[w].unlisted = {p}
       THEN Finish(w)
       ELSE Become(w, [job[w] EXCEPT !.unlisted = @ \ {p}])
    /\ UNCHANGED <<role, assignment, issued>>

DeleteRole(w, r) ==
    /\ At(w, "idle")
    /\ r \in Stored
    /\ Serve(w, "purge_assignments", r, NoRole)
    /\ UNCHANGED <<role, assignment, catalog, issued>>

\* Mutant: delete_role goes straight to the list of children.
PurgeAssignments_Skipped(w) ==
    /\ At(w, "purge_assignments")
    /\ Become(w, [job[w] EXCEPT !.at = "list_children"])
    /\ UNCHANGED <<role, assignment, catalog, issued>>

PurgeAssignments(w) ==
    /\ At(w, "purge_assignments")
    /\ assignment' = [a \in AssignmentIds |->
                        IF a \in AssignmentsTo(job[w].role) THEN NoAssignment
                                                            ELSE assignment[a]]
    /\ Become(w, [job[w] EXCEPT !.at = "list_children"])
    /\ UNCHANGED <<role, catalog, issued>>

ListChildren(w) ==
    /\ At(w, "list_children")
    /\ Become(w, [job[w] EXCEPT !.at = "strip_children",
                                !.drafts = ChildDrafts(job[w].role)])
    /\ UNCHANGED <<role, assignment, catalog, issued>>

StripChild(w, c) ==
    /\ At(w, "strip_children")
    /\ job[w].drafts[c] # NoRole
    /\ role' = [role EXCEPT ![c] = job[w].drafts[c]]
    /\ Become(w, [job[w] EXCEPT !.drafts[c] = NoRole])
    /\ UNCHANGED <<assignment, catalog, issued>>

DropRole(w) ==
    /\ At(w, "strip_children")
    /\ job[w].drafts = NoDrafts
    /\ role' = [role EXCEPT ![job[w].role] = NoRole]
    /\ Finish(w)
    /\ UNCHANGED <<assignment, catalog, issued>>

Edit(w) ==
    \/ \E r \in Roles :
          \/ \E n \in Names :
                \/ \E ps \in SUBSET Permissions : CreateRole(w, r, n, ps)
                \/ UpdateRole(w, r, n)
          \/ \E p \in Permissions : AddPermission(w, r, p) \/ RemovePermission(w, r, p)
          \/ \E p \in Roles : AddParent(w, r, p) \/ RemoveParent(w, r, p)
          \/ DeleteRole(w, r)
          \/ StripChild(w, r)
    \/ \E p \in Permissions : Register(w, p)
    \/ CheckName(w) \/ CheckParent(w) \/ LoadGraph(w) \/ SaveRole(w)
    \/ PurgeAssignments(w) \/ ListChildren(w) \/ DropRole(w)

-----------------------------------------------------------------------------
(* Requests on assignments.                                                *)

\* assign_role: the role is read first, the pair is looked up afterwards.
AssignRole(w, s, r, a) ==
    /\ At(w, "idle")
    /\ r \in Stored
    /\ a \notin issued
    /\ issued' = issued \cup {a}
    /\ Become(w, [Idle EXCEPT !.at = "check_pair", !.role = r,
                              !.subject = s, !.id = a])
    /\ UNCHANGED <<role, assignment, catalog>>

\* update_assignment reads the assignment, then the role of the request.
UpdateAssignment(w, a, s, r) ==
    /\ At(w, "idle")
    /\ assignment[a] # NoAssignment
    /\ Become(w, [Idle EXCEPT !.at = "check_role", !.role = r,
                              !.subject = s, !.id = a])
    /\ UNCHANGED <<role, assignment, catalog, issued>>

CheckRole(w) ==
    /\ At(w, "check_role")
    /\ IF job[w].role \in Stored
       THEN Become(w, [job[w] EXCEPT !.at = "check_pair"])
       ELSE Finish(w)
    /\ UNCHANGED <<role, assignment, catalog, issued>>

Requested(w) == [subject |-> job[w].subject, role |-> job[w].role]
HeldElsewhere(w) == \E a \in AssignmentIds \ {job[w].id} : assignment[a] = Requested(w)

CheckPair(w) ==
    /\ At(w, "check_pair")
    /\ IF HeldElsewhere(w)
       THEN Finish(w)
       ELSE Become(w, [job[w] EXCEPT !.at = "save_pair"])
    /\ UNCHANGED <<role, assignment, catalog, issued>>

\* The unique index uq_rbac_assignment refuses a second document for the pair.
SavePair(w) ==
    /\ At(w, "save_pair")
    /\ assignment' = IF HeldElsewhere(w) THEN assignment
                     ELSE [assignment EXCEPT ![job[w].id] = Requested(w)]
    /\ Finish(w)
    /\ UNCHANGED <<role, catalog, issued>>

\* unassign_role looks the pair up and deletes the document it found.
UnassignRole(w, a) ==
    /\ At(w, "idle")
    /\ assignment[a] # NoAssignment
    /\ Become(w, [Idle EXCEPT !.at = "delete_pair", !.id = a])
    /\ UNCHANGED <<role, assignment, catalog, issued>>

DeletePair(w) ==
    /\ At(w, "delete_pair")
    /\ assignment' = [assignment EXCEPT ![job[w].id] = NoAssignment]
    /\ Finish(w)
    /\ UNCHANGED <<role, catalog, issued>>

\* delete_assignment, by identifier and without a read.
DeleteAssignment(w, a) ==
    /\ At(w, "idle")
    /\ assignment[a] # NoAssignment
    /\ assignment' = [assignment EXCEPT ![a] = NoAssignment]
    /\ UNCHANGED <<role, catalog, issued, job>>

\* delete_by_subject, the RBAC part of deleting a user.
PurgeSubject(w, s) ==
    /\ At(w, "idle")
    /\ assignment' = [a \in AssignmentIds |->
                        IF assignment[a].subject = s THEN NoAssignment
                                                     ELSE assignment[a]]
    /\ UNCHANGED <<role, catalog, issued, job>>

Assign(w) ==
    \/ \E s \in Subjects :
          \/ \E r \in Roles, a \in AssignmentIds :
                AssignRole(w, s, r, a) \/ UpdateAssignment(w, a, s, r)
          \/ PurgeSubject(w, s)
    \/ \E a \in AssignmentIds : UnassignRole(w, a) \/ DeleteAssignment(w, a)
    \/ CheckRole(w) \/ CheckPair(w) \/ SavePair(w) \/ DeletePair(w)

Abort(w) ==
    /\ ~At(w, "idle")
    /\ Finish(w)
    /\ UNCHANGED <<role, assignment, catalog, issued>>

Next ==
    \/ \E w \in Editors : Edit(w)
    \/ \E w \in Workers : Assign(w) \/ Abort(w)

Spec == Init /\ [][Next]_vars

-----------------------------------------------------------------------------
(* No role inherits from itself through any chain of parents: add_parent   *)
(* answers "Adding this parent would create a role hierarchy cycle"        *)
(* instead, and has_role_explained recurses without a visited set.         *)
HierarchyAcyclic == Acyclic(ParentsOf)

(* A parent that a stored role names is stored: delete_role removes the    *)
(* references first and the document last, so that stopping anywhere in    *)
(* between leaves none behind.                                             *)
NoDanglingParents == \A r \in Stored : role[r].parents \subseteq Stored

(* The same for the role of an assignment.                                 *)
NoDanglingAssignments ==
    \A a \in AssignmentIds :
        assignment[a] # NoAssignment => assignment[a].role \in Stored

(* Role names identify a role within the account: create_role and           *)
(* update_role look the name up before they save it.                       *)
UniqueNames ==
    \A r, q \in Stored : role[r].name = role[q].name => r = q

-----------------------------------------------------------------------------
\* The pairs uq_rbac_assignment makes unique.
AssignedPairs ==
    {<<assignment[a].subject, assignment[a].role>> :
        a \in {x \in AssignmentIds : assignment[x] # NoAssignment}}

Store == INSTANCE RoleStore WITH
            Rights      <- Permissions,
            Holders     <- Subjects,
            stored      <- Stored,
            permissions <- [r \in Roles |-> role[r].permissions],
            parents     <- ParentsOf,
            assigned    <- AssignedPairs

(* What the requests of this component do to the two collections, seen from *)
(* outside: one document at a time, no cycle ever saved.  The answers of    *)
(* the read side (RoleQueries) rest on no more than this.                   *)
StoreImplemented == Store!StoreSpec

-----------------------------------------------------------------------------
(* Why one editor keeps the hierarchy sound: until it writes, everything   *)
(* it has read and checked is still true of the stored roles.              *)
NameStaysFree(w) ==
    \A q \in Stored \ {job[w].role} : role[q].name # job[w].draft.name

DraftsAreCurrent(w) ==
    \A c \in Roles :
       /\ job[w].role \in role[c].parents => job[w].drafts[c] # NoRole
       /\ job[w].drafts[c] # NoRole =>
             job[w].drafts[c] = Orphaned(role[c], job[w].role)

EditorIsCurrent(w) ==
    /\ job[w].at \in EditSteps => w \in Editors /\ job[w].role \in Roles
    /\ job[w].at \in {"check_name", "save_role", "check_parent", "load_graph"} =>
          /\ job[w].draft # NoRole
          /\ job[w].draft.parents \subseteq Stored
    /\ job[w].at \in {"check_name", "save_role"} =>
          Acyclic([ParentsOf EXCEPT ![job[w].role] = job[w].draft.parents])
    /\ At(w, "save_role") => NameStaysFree(w)
    /\ job[w].at \in {"check_parent", "load_graph"} =>
          /\ job[w].draft = role[job[w].role]
          /\ job[w].parent \in Roles
    /\ At(w, "load_graph") => job[w].parent \in Stored
    /\ At(w, "strip_children") => DraftsAreCurrent(w)

(* The inductive invariant: the three properties of the stored roles, and  *)
(* what every request in flight still knows about them.                    *)
EditorInv ==
    /\ HierarchyAcyclic
    /\ NoDanglingParents
    /\ UniqueNames
    /\ \A w \in Workers : EditorIsCurrent(w)
==============================================================================
