# Xolo API: verification project

TLA+ models of the Xolo API (`src/xoloapi`), TLC runs that check them on small
instances, and TLAPS proofs of what they promise for every instance.
`PROJECT.json` is the machine-readable index: components, runs, mutants, the map
from definitions to source lines, findings, hazards and theorems.

Xolo is an identity and access service: FastAPI handlers over MongoDB (through
motor) and Redis. But for the membership changes of a group there are no
transactions, there are no version checks and no locks. A handler runs until its next
`await`; there it may be overtaken by any other handler, of the same process or of
another worker process. This is where the system is hard, and it is the common theme
of the modules: a handler is a sequence of steps, one for each await that reads or
writes what others may change.

## Inventory

| component | state | operations | interacts with | what makes it correct |
|---|---|---|---|---|
| rbac | role documents (name, permissions, `parent_role_ids`), assignments (subject, role), permission catalogue | create/rename/delete role, add/remove permission, add/remove parent, assign/unassign/update/delete assignment, check, effective permissions | users, groups (subjects); user deletion purges a subject | the hierarchy is acyclic, no reference dangles, names identify roles; the cycle search answers reachability and ends; an answer grants only what was warranted while it was worked out |
| acl | one policy document per resource: grants to users and groups, one of them the owner's | claim, create, grant, revoke, update, transfer, delete, purge of a user; check, listings | groups (membership, active or not), users | exactly one owner with `manage`; a claim takes nothing away; a revocation stays revoked; a change is made with the authority its caller has |
| platform_users | console users in MongoDB, sessions in Redis | bootstrap, login/logout, create, update, change/reset password, delete | every console route asks it for authority | an administrator remains; sessions end when the user changes; usernames are unique; guests cannot manage |
| users | tenant users in MongoDB; a session as two Redis keys (token, secret); recovery tokens | sign-up, auth, refresh, logout, block/unblock, password change and recovery, introspection, deletion | scopes, licences, ACL, groups, NGAC, RBAC, mailers | a replaced, revoked or disabled session is refused; a recovery token works once; sign-up and deletion leave nothing half done |
| apikeys | key documents (hash, scopes, active, expiry) | create, rotate, revoke, delete, validate | every `X-API-Key` route | a revoked or rotated secret never validates again; deletion is permanent |
| licenses, scopes | licence per user and scope; scopes and assignments | assign, rotate, check, delete; create, assign, unassign, delete | sign-up, auth, user deletion | a sign-up that succeeded has both; a deletion leaves neither |
| groups | group documents, memberships | create, rename, enable/disable, transfer, delete, members | ACL and RBAC refer to groups; a user who owns one cannot be deleted | only unused groups are deleted; the owner exists; a transfer takes effect or leaves no trace |
| ngac | nodes, assignments, associations of the policy graph | create/update/delete, assign, associate, check, explain, privileges | user deletion removes the nodes of an owner | assignments are acyclic, an edge dangles only where a cascade stopped, a decision is that of the graph |
| abac | policy documents: an effect, events (subject, resource, action, place, time window), a matcher version, a time zone | create, update, upgrade the matcher, delete, evaluate | - | deny overrides, default deny, whatever the order of policies; windows open and close when they say; what is left out of a request evades no deny; an upgrade loses no match |
| accounts | account documents | create, rename, delete | the routers look the account of a path up | requests of one account see and change nothing of another |
| middleware | none of its own | admin token, API key, console session, tenant token | every route | whoever passes a guard may do what its route does, in that account, at that time |
| audit, notifications | append-only events; receipts | append after a mutation, list, mark read | the routes of the authorization models | every acknowledged change has an event with its actor |
| server, db, config, log, errors, dto, mailers, scripts | none of their own | - | - | - |
| xolo-client, xolo-ui | none of the service's | HTTP calls | API | - |

Hard behaviours, listed line by line under `hazards`: check-then-save across an
await (cycles, names, last administrator, claims, unused groups and scopes); whole
documents saved from a stale read; cascades that stop half-way (roles, users, nodes);
sessions that are opened or read while they are being revoked; sessions of two keys; links
that race with newer links, with each other and with the deletion of their user; compensation
in sign-up and group transfer; guards and permission checks whose reads are several awaits apart.

## Plan

Done in this order, the most important behaviour first:

1. `RoleGraph`, `CycleSearch`, `RoleHierarchy` and proofs (RBAC, write side).
2. `AccessGrants`, `AccessControl` (abstract), `ResourcePolicy` and proofs, the refinement
   among them (ACL).
3. `PlatformUsers` and proofs.
4. `UserSessions` and proofs: auth, refresh, logout, block, password change, deletion and
   introspection over the two Redis keys.
5. `APIKeys` and proofs: create, rotate, revoke, delete, validate.
6. `PasswordRecovery` and proofs: request, mail failure, confirmation, deletion of the user.
7. `UserDirectory`, `Subscriptions`, `Groups` and their composition `Directory`: sign-up with
   its compensation, licences, scopes, groups, and the deletion cascade over everything.
8. `NGACGraph` and proofs: the policy graph, its cascades and the decision.
9. `Routes`, `Gateway` and proofs: the route tables and the guards, accounts and audit trail in
   front of all of them.
10. `RoleStore` (abstract), `RoleWalks`, `RoleQueries` and proofs: the read side of RBAC, and the
   proof that the write side implements the store it reads.
11. `TimeWindows`, `ABAC`, `PolicyDecisions` and proofs: decisions.
12. Proofs about `Directory`.

Left: the requests that write ABAC policies, and what overlapping requests of `Directory` and
`NGACGraph` still keep.

## Modules

| module | models | role |
|---|---|---|
| `RoleGraph` | `parent_role_ids` as a graph | reachability and acyclicity without recursion, so that both can be proved about |
| `CycleSearch` | `RBACDomainService.would_create_cycle` | the search loop, one iteration a step, with fairness |
| `RoleHierarchy` | `RBACService` and its repositories, the requests that write | one action for each await of each handler |
| `RoleStore` | what the two collections of RBAC are to a reader | abstract specification: one document at a time, no cycle |
| `RoleWalks` | `resolve_effective_permissions`, the walks of `has_role_explained` and of the explanation | recursive functions on any graph |
| `RoleQueries` | the questions of `RBACService` and the group lookup they use | a reader over `RoleStore`, one action for each await |
| `AccessGrants` | `ResourcePolicy` aggregate, `_principal_ids` | pure operators from a set of grants to the possible results (the empty set is an error) |
| `AccessControl` | what ACL promises | abstract specification: accepted requests act in one step |
| `ResourcePolicy` | `ACLService`, its repository, the authority checks of the controller | read, draft, write back |
| `PlatformUsers` | `PlatformUserService`, repository, `PlatformSessionStore`, routes, `reset_platform_password.py` | users and sessions together |
| `UserSessions` | the session part of `UsersService`, `MongoUsersRepository`, `get_current_user` | one user, the two Redis keys of its session, every request that touches them |
| `CalmSessions` | - | `UserSessions` with a history variable: whether any two requests have overlapped or one has failed |
| `APIKeys` | `APIKeyService`, its repository, the routes that look a key up first | key documents and the secrets drawn for them |
| `PasswordRecovery` | `request_password_recovery`, `confirm_password_recovery`, the token repository, `delete_user` | one username, the links drawn for its users |
| `UserDirectory` | user lookup, what a request keeps between awaits | base of the next three |
| `Subscriptions` | user creation and sign-up, `ScopesService`, `LicensesService` | users, scopes and licences |
| `Groups` | `GroupService`, its repository | groups, members, and the grants and roles that name groups |
| `Directory` | `delete_user` over the three above and the references of ACL, NGAC and RBAC | composition of `Subscriptions` and `Groups` |
| `NGACGraph` | `NGACService`, its repository, `NGACGraph` (domain) | reuses `RoleGraph` for the cycle check |
| `TimeWindows` | `TimeWindow` (validation and matching) | pure operators over instants and zones |
| `ABAC` | `ABACEvaluator`, the matchers, what a stored document is read as | pure operators: the decision on a list of policies |
| `PolicyDecisions` | `ABACService.evaluate` | one request put to the policies as they were loaded |
| `Routes` | the decorators of every controller, their order in the server | data: the route table and who is dispatched where |
| `Gateway` | the guards of `middleware/`, `require_existing_account`, the audit middleware | a request from its arrival to its answer while credentials change |
| `MC...` | - | instances: symmetry sets and values; `MCAlgorithms` puts `CycleSearch`, `RoleWalks` and `PolicyDecisions` together: one search, and one request to ABAC where there is nothing to search |
| `...Proofs` | - | theorems: `RoleHierarchyProofs` on `CycleSearch`, `RoleWalks`, `RoleHierarchy` and `RoleQueries`, `ResourcePolicyProofs` on ACL and ABAC, `UserSessionsProofs` on `UserSessions` and `CalmSessions`, `GatewayProofs` on `Gateway` and `APIKeys`, the others on the module they are named after |

Conventions. `job[w]` is the request that worker `w` serves: `at` names the await
it has reached, and the rest is what its local variables hold. A handler's
guards up to its first await are the guard of its first action; a later check is an
`IF` whose `ELSE` ends the request. `Abort` ends a request at any await: an error of
MongoDB or Redis returned to the caller, or the crash of the process (nothing of a
request survives one). Where the code goes on after a failure, that is an action of its
own. Operators called `X_Something` are mutants: `X` with a
plausible mistake, which the corresponding property must refute; the
specifications do not use them.

### RBAC

`role`, `assignment` and `catalog` are the three collections of one account,
`issued` the identifiers `generate()` has returned. `find_all` is one
snapshot; MongoDB does not promise that of a cursor, so what can be found with
overlapping requests is the least that can happen. Lists of permissions and parents
are sets: the code removes duplicates on the way in (`add_permission`,
`add_parent`), and order changes no answer. `assign_role` treats users and active groups
alike (`Subjects`). Descriptions and time stamps are left out.

`CycleSearch` is the loop of `would_create_cycle` on any graph. In `RoleHierarchy`
the same search is one step, since it has no await; `WouldCreateCycle` is the
reachability that `CycleSearch` proves the loop to compute.

`RoleStore` is what a reader sees of this: the stored roles with permissions and parents, and the
pairs that are assigned. `StoreImplemented` maps the documents of `RoleHierarchy` to it (two
assignment documents may hold one pair; what `RoleHierarchy` calls permissions and subjects are
the `Rights` and `Holders` of the store). `RoleQueries` is one request of the read side: `"check"`
stands for `check_explained` and `get_effective_permissions`, `"explain"` for the explanation,
which does not look its roots up, and `"has_role"` for `has_role_explained`. The reads are
`find_by_subject` for the user, the memberships, which of those groups are active, the roles of
each group, the roots, and all roles, in this order; `Write` (the steps of `RoleStore`) and the
group service come between any two. `seen` is history: what has held at some moment since the
question was asked (`member`, `active`, `assigned`), and the assignments by which the user has
held a role ever since (`kept`). `GrantsAreWarranted` and `NothingKeptIsMissed` bound the answer
from both sides by these. That a membership and an assignment need not have held at the *same*
moment is what the code allows. Permissions are compared by name; their wildcards are left out.
The walks in `RoleWalks` take parents in a fixed order; they are proved to agree with reachability
on every graph, hence in every order.

### ACL

One resource of one account: policies of different resources share nothing.
A grant is a principal with permissions and an owner mark. Group membership
(`MemberOf`) is constant; reads of groups and users between the read of the policy and its
write have no effect on it and are not steps. An administrator (`Admin`) stands for the
platform console and for trusted services, which the code lets act with the
authority of the owner. `transfer_owner` has two reads, as in the code: one by
the controller for authority, one by the service. `AccessControl` has the same requests, of
which each acts in one step on the policy of that moment; `ActsAtomically` is the
refinement, with the requests in flight as the requests that wait (`Pending`).

### Platform users

`user` and `session` are the collection and the Redis keys. Authority is
decided in the first step of a request (`MayManage`): the code reads the session and the
acting user once, before the handler; `Gateway` has those reads one by one. A session also
carries the password it was opened with; Redis does not store it, it is a history value
the properties need. An identifier counts as fresh when no document, session or request
mentions it. `allowed_account_ids` is left out here: the routes for users have no account in
their path. A scan of Redis returns every key present from its first to its last call and may
return keys added meanwhile; that is what `ScanSessions` and `RevokeSession` allow.

### Tenant sessions

One username of one account: sessions of different users share no key. `user` is the
document (a deletion and a sign-up may replace it by one with another `Ids`), `token` and
`secret` are the two Redis keys, and `info` is what a token says of itself: whom it is for, the
password it was opened with (a history value) and whether its own time limit has not
passed. A session is one member of `Sessions`, its token and the secret that signed it: a
pair decodes exactly when both are the same member. Each read and each write of a key is a
step, because `set_access_token` writes two and `delete_access_token` deletes two. `Age`
sorts a session into not drawn (0), half stored (1), stored (2) and ended (3). `late`
in a check records that the session it was asked about had ended by then; the code has no
such variable. Login is taken to pass the scope and licence checks. `get_current_user` does not
consult Redis: `SignedIn` accepts any session within its own time limit. The console's
identities, which `verify` also serves, are those of `PlatformUsers` and left out. `Next` is
`Work` (the handlers and time) or `Fail` (`Abort`, and the errors of Redis that `auth` and
`update_password` discard); `CalmSessions` adds the history variable `calm`, true until two
requests overlap or one fails.

### API keys

The keys of one account. A secret stands for the raw key and its hash: `secrets.token_urlsafe`
is taken never to repeat one. `drawn` remembers for which key a secret was
drawn, also when no document says so any more. Routes that change a key read it twice, in the
controller to see whose it is (`Request`) and in the service, and write the
copy back whole (`Save`), so a late write may re-enable a key or bring it back;
`RevokedSettles` and `DeletedSettles` say that this ends with the requests that had read
the key before, and `SecretsOnlyAge` that no secret that ended ever validates again. Scopes
are those of `Gateway`; names and `last_used_at` are left out: no route changes the first, and
the second is a partial update that creates nothing.

### Password recovery

One username, which users with different ids may have one after the other. A token document is
active, used, expired or removed by the index on its expiry. A request invalidates the unused
tokens of the user, stores a new one and mails it; if the mail fails it invalidates again and
ignores whether that worked. A confirmation finds the token active, sets the password *by
username*, and then marks the token with a conditional update: the loser of two confirmations
fails there, after it too has set its password. The variables that no collection keeps are
history: `answers` counts the confirmations answered with success, `old` is what was active when
a request came in, `hit` whose password a confirmation has set, `late` what was under way while the
user was being deleted. Passwords and sessions are those of `UserSessions`.

### The directory

`UserDirectory` is the base: documents are found whatever the case of the letters (`Fold`),
while licences and scope assignments are kept under the string as it was sent. None of the
collections of `Subscriptions` has a unique index, so it counts documents per username and scope:
a failed sign-up takes its user back but leaves its assignment, and the deletion of the old
licence may fail without anybody noticing. In `Groups` a group is read whole and written back
whole; a transfer adds the row of the previous owner first and takes it away if the save fails.
`Use` and `Unuse` are the grants and role assignments of ACL and RBAC; `Admin` callers (console,
superadministrators, service keys) act on every group. `Directory` adds `delete_user`: owned groups
are looked up, then licences, assignments, grants (`acl`), memberships (which look for owned groups
again), nodes (`ngac`) and roles (`rbac`) go, and the user document last. The sessions and recovery
tokens, which go between the assignments and the grants, are in the two modules above. `Refer` and
`Unrefer` are what ACL, NGAC and RBAC do to a user between requests of this component (`Quiet`).

### NGAC

The reads and checks of a writing request are one step, each write is another: a request meets
others between the two, and a cascade may stop after any write. `cut` are the nodes of cascades
that are under way or have stopped. The decision is the code's: the policy classes that the object
reaches all have to permit, each through an association between attributes that lie in that class;
`Explain` is the loop of its own that the code has beside `Check`. Assignments of nodes that
are gone still count for reachability, as in the code, and nodes that are gone never match. Two
assignments with the same ends and owner count as one document.

### ABAC

The decision, given the policies of the account in the order they were loaded. A pattern is known by
the values its glob matches (`Glob`); letter case, which both matchers ignore, is left out, and a
circle is the set of places inside it. A document from before the migration has neither
`matcher_version` nor `timezone`, and reads as `legacy_v1` and UTC. `Evaluate` is the loop of the
evaluator, which returns at the first DENY; since `find_all` sorts nothing, the property quantifies
over the lists of policies in every order. In `TimeWindows` a zone is a constant offset (no change
to summer time within a window) and the bounds of a window either state their offset (`"aware"`) or
do not. How policies are written is not modelled (see below).

### Routes and the gateway

`Routes` is the table of every decorated handler, in the order of registration, and dispatch:
the first route whose path matches and whose method agrees. `Gateway` takes a request through the
lookup of its account, the guard of its route, the tenant session if the route asks for one, the
handler (one step: what it does is in the component modules) and the audit trail. Each read
of a credential is a step, and between any two of them accounts, keys, sessions, console users
and tenant users change. `dead` is history: what the request relies on that had ended when
it arrived and has not come back. Raw secrets, cookies and CSRF tokens are the identities they
belong to. The instance takes its routes from `Routes`: one class for each combination of guard,
suffix, session and audit model that some request is dispatched to.

## Runs

| run | instance | shows |
|---|---|---|
| `algorithms` | 3 roles, every graph (512), pair and set of roots; days of 4 ticks, 3 days, zones at -1, 0 and 2, every window; lists of up to 2 of 24 policies, 108 requests at every instant | the cycle search is right and ends; check, explanation and `has_role` follow the same hierarchy; windows open and close when they say; deny overrides allow in every order, omission evades no deny, an upgrade loses no match |
| `role_serial` | 3 roles, 3 names, 1 subject, 2 assignments, 1 worker | acyclic, unique names, no dangling parent or assignment, wherever a request stops; implements `RoleStore` |
| `role_queries` | 2 roles, 1 permission, 1 user, 1 group, 1 question | torn reads grant only what was warranted and miss nothing that was kept |
| `acl_serial` | 2 users, 1 group with 1 member, 2 permissions, 1 worker | implements `AccessControl`; one owner; claims and revocations do what they say |
| `platform_serial` | 2 users, 2 names, 2 passwords, 2 sessions, 1 worker | an administrator remains; revocation and login do what they say |
| `user_sessions` | 2 ids, 2 passwords, 2 sessions, 2 workers that may fail | an ended session never becomes valid again and no check accepts it; without overlap a login answers a matching pair and the session kept is one of the present password |
| `apikey_overlap` | 2 keys, 4 secrets, 2 workers that may fail | no secret comes back; revocation and deletion settle |
| `recovery` | 2 ids, 3 tokens, 2 workers that may stop | a link is answered once, ends with a newer request, and changes its own user's password |
| `directory` | 3 user ids, 2 usernames, 1 scope, 1 group with 2 names, 1 worker that may stop, spellings as stored | no reference outlives its user; sign-up and transfer are all or nothing; a deletion that succeeds is complete |
| `ngac_serial` | 5 ids: 2 user attributes, 1 object attribute, 2 policy classes; 2 callers, 1 operation, 1 worker that may stop | acyclic, edges dangle only where a cascade stopped, the decision is that of the graph and moves only in the expected direction |
| `gateway` | every mounted route, 2 accounts, 2 keys, 1 console user with 5 documents, 1 session, 1 tenant user, 4 kinds of credential, 1 request | accounts are kept apart, readers do not write, what had ended is refused, each acknowledged change has its event and actor |
| `platform_last_admin` | 2 users, 2 workers | **violated**: the last two administrators remove each other |

Bounds and why they are enough. No run bounds the number of steps. Three roles give every shape
the properties distinguish: a chain with a middle, two children of one parent, a cycle of three.
Two permissions, one of them `manage`, separate revoking part of a grant from revoking all of it.
Two sessions of a console user separate its session from that of another, and two of a tenant user
the one that ended from the one being stored; four secrets allow two rotations of each of two
keys, or of one to overlap twice; three tokens are one that a request supersedes, its own, and
that of an overlapping request. Two requests in flight suffice for every violation found, because
each needs one read overtaken by one write; what holds with two is not thereby shown for more, and
this is what the proofs are for. `MaxCopies = 2` lets the documents that the missing index does
not prevent pile up once; `MaxReferences = 1` is one grant, node or role at a time, which the
cascade removes independently of each other. In `directory` three user ids let a user that was
deleted be followed by another of its name while a second user owns a group. In NGAC two policy
classes are what a conjunction over classes needs, `MaxNodes = 4`, `MaxEdges = 3` and `MaxAssoc =
2` allow an object in both classes with an association for each, or a cycle through a node that is
gone; operations other than one are decided independently. One request in `gateway` is enough
because requests meet only in what they read, which the environment changes in every way. In
`role_queries` two roles are a root and what it inherits from, or two roots; one user with one
group has both ways of holding a role. In `algorithms` two policies are what order and overriding
need; the lists of events hold a pattern the two matchers read differently, a circle, and windows
that span midnight or depend on the zone. Symmetry is used for identifiers that are only compared,
and only in runs of invariants and action properties, where it is sound. Every action is taken in
a passing run.

Deadlock is checked except where a run really stops: `algorithms` with the answer of the search,
`gateway` with that of its request, and `user_sessions`, `apikey_overlap`, `recovery` and `directory`
when all identifiers that may be drawn have been.

What is checked with one worker only: the runs whose instance says so, and `CalmSessionsAreSound`
of `user_sessions`. These are properties of requests that do not overlap, and with two workers
they fail: two overlapping `add_parent` store a cycle; an assignment is saved to a role purged
meanwhile; a second claim takes the resource; a revocation is undone by a grant that had read the
policy before; a login that had read the old password opens its session after the sessions were
revoked, or saves the document it had read and undoes a change; two logins store the token of one
with the secret of the other; a user or group is deleted after it was found unused; two NGAC
assignments close a cycle together. No document promises otherwise but for the last administrator,
which is why only that is a finding. `hazards` lists each at its line.

Several properties are conjunctions of named parts, each with its own comment in the module:
`CalmSessionsAreSound`, `EndedKeysSettle`, `CompensationIsComplete`, `AuditTrailHolds`,
`DecisionsMoveAsExpected`, and those of `algorithms`.

Violation. `platform_last_admin` checks a property that a line of the documentation states and
`findings` quotes; it needs two requests at a time, and the same property is proved when requests do
not overlap.

## Fairness and liveness

`CycleSearch`'s search is weakly fair (`WF_searchVars(SearchNext)` in `MCAlgorithms`): the loop
has no await, so the event loop cannot take the processor away from it, and each iteration is
finite. Nothing else in the modelled parts has to happen: a handler may fail at any await, and its
client decides whether to try again, so the other modules are safety only. (There are no
background jobs: expiry is Redis's and MongoDB's own.)

## Proofs

`tlapm` checks every theorem to the last leaf; the assumptions are the `ASSUME`s of the modules
and, where a theorem names them, `OneEditor`, `OneWorker` and `SpelledAsStored`. Most `ASSUME`s
give the constants their types or keep `None` apart from them. The others are what the code rests
on: `ChangesAreSigned` and `WritesManage` are read off the route table (and TLC evaluates them on
the whole of `Routes`), and `RolesAreFinite` and `NodesAreFinite` say that a collection is. No
constant is assumed to be finite unless a loop over it has to end. The lemmas before each theorem
are what it rests on; in a proof that a step preserves an invariant there is one for each action
or kind of action.

- **Cycle search** (`RoleHierarchyProofs`). `SearchInv` is the loop invariant: what is visited has
  its parents visited or queued, only ancestors are queued, and the role is not among the visited.
  When the queue is empty the visited set is closed, hence contains all ancestors:
  `SearchComputesReachability`. `SearchDecidesAcyclicity` adds the lemma that an edge closes a
  cycle in an acyclic graph exactly when its source is an ancestor of its target.
- **Role hierarchy** (`RoleHierarchyProofs`). Typing holds whatever overlaps. The three properties
  of stored roles are not inductive: a draft saved later has to be known to be harmless.
  `EditorInv` adds, for each request in flight, that what it has read is still true
  (`EditorIsCurrent`); with one editor nobody else writes roles, so it is preserved, while
  assignments change freely. `OneWorkerLeavesNoDanglingAssignments` needs one worker for
  everything: `AssignInv` adds that the role to be assigned is still stored, and that the role
  being deleted is assigned no more from the purge on (`AssignmentIsCurrent`). Steps either take
  no role away (`RolesGrow`) or write assignments only (`PairsChange`), except the two that a
  deletion begins and ends with. `OneEditorImplementsStore` is the refinement to `RoleStore`: the
  initial states map, every write of a role is `PutRole` or `RemoveRole` (`EditMaps`; that the
  graph it saves is acyclic is `HierarchyAcyclic` after the step, from `EditorInv`), every write
  of assignments is `AssignPair` or `RemovePairs` (`AssignMaps`), and every other step stutters.
- **Walks** (`RoleHierarchyProofs`). `WalksFollowParents`: on any finite graph the walks of the
  check and of the explanation give what is reachable from the roots, and without cycles the path
  of `has_role` is a path and is found exactly when there is one. The walks are recursive
  functions, and induction over data is out of reach of the installed provers; each proof instead
  takes the arguments on which a function does not satisfy its equation, or on which it is wrong,
  and derives a contradiction from a minimal one (where the fewest roles are left to visit, or a
  role with no such parent, which an acyclic graph has).
- **Role queries** (`RoleHierarchyProofs`). `QueryInv` relates what a request has read to `seen`,
  from both sides: the roles it has collected are warranted (`ReadOK`), what is so now has been
  seen (`SeenOK`), and an assignment that was kept is among the roots, or its group is still to be
  asked (`KeptOK`). A step of anybody else only adds to the one and takes away from the other
  (`WatchKeepsInv`); the five reads go through one lemma (`ProceedKeepsInv`). With
  `WalksFollowParents`' lemmas on reachability this gives `TornReadsGrantWhatIsWarranted` and
  `TornReadsMissNothingKept`, for every store that implements `RoleStore`, which
  `OneEditorImplementsStore` says the write side does.
- **ACL** (`ResourcePolicyProofs`). `OwnedByOne` is not inductive: drafts are written later, on
  whatever is there. `DraftsOwned` says that every draft is well owned by itself, which is
  preserved because each operator of `AccessGrants` maps well owned grants to well owned grants.
  No assumption on the number of workers: `PoliciesHaveOneOwner` is the part of ACL's correctness
  that survives lost updates. For one worker `SerialInv` adds `PlanOK`: what a request in flight
  has worked out, it has worked out on the present policy and with the authority its caller has on
  it. So the write that completes it is the step of `AccessControl`, and every other step
  stutters: `OneWorkerActsAtomically`, the refinement itself; `OneWorkerClaimsTakeNothing` and
  `OneWorkerRevocationsGiveNothing` follow from `SerialInv` and what the operators do to effective
  permissions.
- **Tenant sessions** (`UserSessionsProofs`). `SessionInv` says that a secret is written by the
  one request that drew it, and only once, and that what a late check has read cannot be completed
  by what it reads next. Every step but the two writes of `set_access_token` leaves the keys or
  empties them (`StepKinds`), and those two make a session valid only when it was being opened
  (`AgeMonotone`): `EndedSessionsStayEnded`, and with `RejectingIsKept`
  `RevokedSessionsAreRejected`. No assumption on workers or failures. `CalmSessionsAreTheUsers` is
  about behaviours in which nothing has overlapped yet, for any number of workers. `CalmInv` says
  of the one request in flight which keys it has written by now, and that what is in Redis
  otherwise is a matching pair of the present document.
- **API keys** (`GatewayProofs`). `SecretInv` gives every secret its key and every pending
  rotation a secret no document and no other draft has. So a valid secret is not being issued
  (`ValidIsIssued`), and only the save of its rotation makes a secret valid (`SecretSteps`):
  `EndedSecretsStayEnded`. `RevokedKeysStayRevoked` and `DeletedKeysStayDeleted`, together
  `EndedKeysStayEnded`, need no more than typing. No assumption on workers or failures.
- **Platform users** (`PlatformUsersProofs`). `UsernamesStayUnique` rests on the unique index
  alone and `GuestsNeverManage` on every draft being a valid document (`DocumentInv`); both hold
  for any number of workers. `OneWorkerKeepsAnAdmin` needs `SerialInv`: between the count and the
  write nothing else writes, so the write leaves an administrator (`WriteLeavesAdmin`).
  `OneWorkerLoginChangesNothing` and `OneWorkerRevocationEndsSessions` rest on `ReadInv`: the
  document a login is about to save is the stored one, and what a scan returned still covers the
  sessions of its user.
- **Password recovery** (`PasswordRecoveryProofs`). None of the three properties is inductive.
  `IInv` adds what a request relies on at each await (`JobOK`), that a token that was answered is
  used and one that works and met no deletion is the present user's (`TokenOK`), and that two
  confirmations past the conditional update have different tokens (`Apart`). Tokens only age
  (`TokensAge`), which carries most of `JobOK` over the steps of others: `TokensAreAnsweredOnce`,
  `SupersededLinksAreDead`, `LinksChangeTheirOwner`. No assumption on workers or failures.
- **Gateway** (`GatewayProofs`). `IInv` says for each stage of a request what its guards have
  established of the credential they looked at: a key was enabled and for this account, a session
  was present and its user active, at *some* moment since the request came in. `dead` connects
  that with the present: a credential that had ended on arrival and has not come back cannot have
  been found (`EndedStaysOut`). `TenantsAreIsolated`, `ReadersOnlyRead` and `TrailIsKept` follow
  from the invariant, for any table of routes, keys, accounts and requests in flight; the last
  rests on `ChangesAreSigned`.
- **NGAC** (`NGACGraphProofs`). With one worker, what a request has checked is true when it writes
  (`SerialChecksHold`), hence `SerialAcyclic` and `SerialDangling`. The closure is a recursive
  function; by the same argument as for the walks it has one solution, and that is reachability
  (`ClosuresAreReached`, on graphs with cycles too). `CheckIsExplained` and `DecisionsMove` are
  about any graph and any step, with no assumption on workers, as is `TypesAreKept`.
- **ABAC and time windows** (`ResourcePolicyProofs`). `WindowsAreSound` for windows of any length,
  in any zone with an offset shorter than a day; `PoliciesAreEvaluatedAsDocumented` for any list
  of policies: the list is read up to the first DENY, which is a matching event of least index.
- **Directory** (`DirectoryProofs`). `DirInv` says, for each kind of request and each of its
  positions, what it has found or done that is still so: a sign-up that has inserted its user is
  the only one of the name and nothing refers to it yet (`SigningUp`), so it can be taken back; a
  transfer knows whether the row was there before (`Transferring`); a deletion has emptied every
  collection it has passed (`Deleting`). All of it needs `OneWorker`, as the properties do.
  `DeletionLeavesNothing` also needs `SpelledAsStored`, which clients decide and the code does not
  check.

The type invariants and the inductive invariants of these modules are proved and are
not repeated by the runs, whose properties are those a reader of the code would ask for.

Only model-checked: `Terminates`, the termination of the search: liveness is out of the prover's
reach. Every other property of a passing run is stated by a theorem. What is proved under
`OneWorker` or `OneEditor` says nothing of requests that overlap; the runs above say where it then
fails.

## Not modelled

- **Deleting an account** removes the account document only. There is no cascade to model; the
  data stays, unreachable by the routes that look the account up, until an account of that id is
  created again. `Gateway` has this as `DeleteAccount` and `CreateAccount`.
- **Writing ABAC policies.** A policy is one document that refers to nothing and is replaced or
  deleted as a whole; `update_policy` and `upgrade_matcher` read it in one await and replace it
  with upsert in another, so that one overtaken by a deletion brings the policy back, and one
  overtaken by an upgrade undoes it.
- **Reads** other than decisions: listings, searches, paging, dashboards, the query side of audit
  and the receipts of notifications.
- **Wording and time**: cookies and CSRF values as strings, hashing, JWT encoding, validation of
  names, time stamps, the text and the expiry of licences.
- **No state of their own**: server start-up and configuration (the indexes it creates and the
  order of routers are part of the modules that rely on them), logging, errors, DTOs, re-exporting
  packages, mail delivery (its failure is a choice), scripts other than
  `reset_platform_password.py`, client and console.

Met while modelling and not counted as findings, because no document of the repository says
otherwise or because the runs do not reach it: users are found whatever the case of their letters,
but `delete_user` removes licences and scope assignments under the spelling it was sent
(`users_service.py:310`), so that a deletion under another spelling leaves them to the next user
of the name, where `docs/authentication-and-admin.md:58` lists them among what is deleted (the run
`directory` has names spelled as they are stored); `GET /rbac/roles/{role_id}`
(`rbac/controller.py:132`) is registered before `/rbac/roles/list` (`:529`) and serves it, which
`Routes` reproduces; the docstring of `require_admin_or_api_key` (`middleware/apikey.py:193-196`)
lists the credentials in another order than the code tries them; names of users, groups and scopes
are looked up before an insert without an index behind it, so overlapping creations may store two;
purging a deleted user from ACL deletes whole policies that merely grant to it, as the tests
expect.
