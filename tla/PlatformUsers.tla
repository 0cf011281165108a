---------------------------- MODULE PlatformUsers ----------------------------
(***************************************************************************)
(* The identities of the management console: PlatformUserService over the  *)
(* collection of platform users, and the sessions PlatformSessionStore     *)
(* keeps in Redis.                                                         *)
(*                                                                         *)
(* A request reads the document of a user, changes a copy and writes the   *)
(* copy back whole; a login does so too, to note the time.  Each await     *)
(* that reads or writes what others may change is a step.  Who may send a  *)
(* request is decided in the request's first step.  Abort ends a request   *)
(* at any await: an error of MongoDB or Redis, or the crash of the server. *)
(*                                                                         *)
(* allowed_account_ids and the time stamps are left out.  A session also   *)
(* carries the password it was opened with, which Redis does not store:    *)
(* the properties tell sessions apart by it.                               *)
(***************************************************************************)
EXTENDS FiniteSets, Naturals

CONSTANTS
    Ids,          \* user_id
    Names,        \* usernames, normalized
    Passwords,
    Permissions,  \* PlatformPermission
    ReadOnly,     \* those that end in ".read"
    MANAGE,       \* PLATFORM_USERS_MANAGE
    Tokens,       \* session tokens
    Workers,      \* requests that can be in flight together
    None          \* stands for any absent identifier

ASSUME NoneIsFresh == None \notin Ids \cup Names \cup Passwords \cup Tokens
ASSUME ReadOnlyPermissions == ReadOnly \subseteq Permissions /\ MANAGE \notin ReadOnly

VARIABLES
    user,     \* documents by user_id
    session,  \* sessions by token
    job       \* the request each worker is serving

vars == <<user, session, job>>

UserDoc == [name: Names, password: Passwords, role: {"admin", "user", "guest"},
            permissions: SUBSET Permissions, active: BOOLEAN, must_change: BOOLEAN]
NoUser == [name |-> None]
SessionDoc == [user: Ids, password: Passwords]
NoSession == [user |-> None]

Idle == [at |-> "idle", then |-> "idle", id |-> None, draft |-> NoUser, keys |-> {}]
Job == [at: {"idle", "count", "save", "delete", "open", "scan", "revoke"},
        then: {"idle", "save", "delete", "open", "scan"},
        id: Ids \cup {None}, draft: UserDoc \cup {NoUser}, keys: SUBSET Tokens]

TypeOK ==
    /\ user \in [Ids -> UserDoc \cup {NoUser}]
    /\ session \in [Tokens -> SessionDoc \cup {NoSession}]
    /\ job \in [Workers -> Job]

Init ==
    /\ user = [i \in Ids |-> NoUser]
    /\ session = [t \in Tokens |-> NoSession]
    /\ job = [w \in Workers |-> Idle]

Stored == {i \in Ids : user[i] # NoUser}
IsAdmin(doc) == doc.role = "admin" /\ doc.active
ActiveAdmins == {i \in Stored : IsAdmin(user[i])}
SessionsOf(i) == {t \in Tokens : session[t].user = i}

\* What a role leaves of the permissions it is given.
ForRole(role, ps) ==
    CASE role = "admin" -> {}
      [] role = "guest" -> ps \cap ReadOnly
      [] role = "user"  -> ps

\* authorize_platform_request and require_platform_permission.
SignedIn(t, i) == session[t].user = i /\ i \in Stored /\ user[i].active
MayManage(t) ==
    \E i \in Ids :
       /\ SignedIn(t, i)
       /\ ~user[i].must_change
       /\ user[i].role = "admin" \/ MANAGE \in ForRole(user[i].role, user[i].permissions)

-----------------------------------------------------------------------------
\* generate() never draws an identifier twice; one of which no trace is left
\* is as good as new.
Fresh(i) ==
    /\ i \notin Stored
    /\ SessionsOf(i) = {}
    /\ \A w \in Workers : job[w].id # i

At(w, step) == job[w].at = step
Become(w, j) == job' = [job EXCEPT ![w] = j]
Finish(w) == Become(w, Idle)
Begin(w, step, then, i, doc) ==
    /\ At(w, "idle")
    /\ Become(w, [at |-> step, then |-> then, id |-> i, draft |-> doc, keys |-> {}])
    /\ UNCHANGED <<user, session>>

\* A request that removes an active administrator counts them first.
Guarded(w, i, step, then, doc) ==
    IF IsAdmin(user[i]) THEN Begin(w, "count", step, i, doc)
                        ELSE Begin(w, step, then, i, doc)

\* At startup, on an empty collection.
Bootstrap(w, i, n, p) ==
    /\ Stored = {}
    /\ Fresh(i)
    /\ Begin(w, "save", "idle", i,
             [name |-> n, password |-> p, role |-> "admin", permissions |-> {},
              active |-> TRUE, must_change |-> TRUE])

Create(w, i, doc) ==
    /\ \E t \in Tokens : MayManage(t)
    /\ \A j \in Stored : user[j].name # doc.name
    /\ Fresh(i)
    /\ Begin(w, "save", "idle", i, [doc EXCEPT !.permissions = ForRole(doc.role, @)])

\* Mutant: signing in with the password counts as having changed it.
Login_ClearsMustChange(w, i, p) ==
    /\ i \in Stored
    /\ user[i].active
    /\ user[i].password = p
    /\ Begin(w, "save", "open", i, [user[i] EXCEPT !.must_change = FALSE])

\* authenticate: the document is saved as it was when the password was read.
Login(w, i, p) ==
    /\ i \in Stored
    /\ user[i].active
    /\ user[i].password = p
    /\ Begin(w, "save", "open", i, user[i])

OpenSession(w, t) ==
    /\ At(w, "open")
    /\ session[t] = NoSession
    /\ session' = [session EXCEPT ![t] = [user |-> job[w].id,
                                          password |-> job[w].draft.password]]
    /\ Finish(w)
    /\ UNCHANGED user

\* Mutant: a guest keeps what it was given in another role.
Updated_KeepsAll(doc, role, ps, active) ==
    [doc EXCEPT !.role = role, !.active = active,
                !.permissions = IF ps = None THEN @ ELSE ForRole(role, ps)]

Updated(doc, role, ps, active) ==
    [doc EXCEPT !.role = role, !.active = active,
                !.permissions = IF ps # None THEN ForRole(role, ps)
                                ELSE IF role = "guest" THEN ForRole(role, @)
                                ELSE @]

\* ps = None leaves the permissions as they are.
Update(w, i, role, ps, active) ==
    /\ \E t \in Tokens : MayManage(t)
    /\ i \in Stored
    /\ LET doc == Updated(user[i], role, ps, active)
       IN  IF IsAdmin(doc) THEN Begin(w, "save", "scan", i, doc)
                           ELSE Guarded(w, i, "save", "scan", doc)

ChangePassword(w, i, p) ==
    /\ \E t \in Tokens : SignedIn(t, i)
    /\ p # user[i].password
    /\ Begin(w, "save", "scan", i, [user[i] EXCEPT !.password = p, !.must_change = FALSE])

\* Asked for by a manager, or by an operator with the recovery script.
ResetPassword(w, i, p) ==
    /\ i \in Stored
    /\ Begin(w, "save", "scan", i, [user[i] EXCEPT !.password = p, !.must_change = TRUE])

Delete(w, i) ==
    /\ \E t \in Tokens : MayManage(t) /\ session[t].user # i
    /\ i \in Stored
    /\ Guarded(w, i, "delete", "scan", NoUser)

\* Mutant: compares with zero.
CountAdmins_Zero(w) ==
    /\ At(w, "count")
    /\ IF Cardinality(ActiveAdmins) > 0
       THEN Become(w, [job[w] EXCEPT !.at = job[w].then, !.then = "scan"])
       ELSE Finish(w)
    /\ UNCHANGED <<user, session>>

\* _ensure_another_admin.
CountAdmins(w) ==
    /\ At(w, "count")
    /\ IF Cardinality(ActiveAdmins) > 1
       THEN Become(w, [job[w] EXCEPT !.at = job[w].then, !.then = "scan"])
       ELSE Finish(w)
    /\ UNCHANGED <<user, session>>

\* Where a request goes after the write: a new user has no sessions to end.
Continue(w, step) == Become(w, IF step = "idle" THEN Idle ELSE [job[w] EXCEPT !.at = step])

\* Mutant: inserts what it should replace, and no index refuses it.
Save_AsNew(w) ==
    /\ At(w, "save")
    /\ \E i \in Ids \ Stored : user' = [user EXCEPT ![i] = job[w].draft]
    /\ Continue(w, job[w].then)
    /\ UNCHANGED session

\* replace_one(upsert=True); the unique index on username may refuse it.
Save(w) ==
    /\ At(w, "save")
    /\ IF \E j \in Stored \ {job[w].id} : user[j].name = job[w].draft.name
       THEN Finish(w) /\ UNCHANGED user
       ELSE /\ user' = [user EXCEPT ![job[w].id] = job[w].draft]
            /\ Continue(w, job[w].then)
    /\ UNCHANGED session

DeleteUser(w) ==
    /\ At(w, "delete")
    /\ user' = [user EXCEPT ![job[w].id] = NoUser]
    /\ Continue(w, "scan")
    /\ UNCHANGED session

\* delete_user_sessions: scan_iter returns every key that is there from its
\* first to its last call, and may return keys added in between.
ScanSessions(w) ==
    /\ At(w, "scan")
    /\ Become(w, [job[w] EXCEPT !.at = "revoke",
                                !.keys = {t \in Tokens : session[t] # NoSession}])
    /\ UNCHANGED <<user, session>>

\* Mutant: stops at the first session of another user.
RevokeSession_OneOnly(w, t) ==
    /\ At(w, "revoke")
    /\ session[t] # NoSession \/ t \in job[w].keys
    /\ session' = IF session[t].user = job[w].id
                  THEN [session EXCEPT ![t] = NoSession] ELSE session
    /\ Become(w, [job[w] EXCEPT !.keys = IF session[t].user = job[w].id
                                         THEN @ \ {t} ELSE {}])
    /\ UNCHANGED user

RevokeSession(w, t) ==
    /\ At(w, "revoke")
    /\ session[t] # NoSession \/ t \in job[w].keys
    /\ session' = IF session[t].user = job[w].id
                  THEN [session EXCEPT ![t] = NoSession] ELSE session
    /\ Become(w, [job[w] EXCEPT !.keys = @ \ {t}])
    /\ UNCHANGED user

SessionsRevoked(w) ==
    /\ At(w, "revoke")
    /\ job[w].keys = {}
    /\ Finish(w)
    /\ UNCHANGED <<user, session>>

\* Logging out, the time limit of a session, and a request in the name of a
\* disabled user all remove one session.
EndSession(t) ==
    /\ session[t] # NoSession
    /\ session' = [session EXCEPT ![t] = NoSession]
    /\ UNCHANGED <<user, job>>

Abort(w) ==
    /\ ~At(w, "idle")
    /\ Finish(w)
    /\ UNCHANGED <<user, session>>

Serve(w) ==
    \E i \in Ids :
       \/ \E p \in Passwords :
             \/ \E n \in Names : Bootstrap(w, i, n, p)
             \/ Login(w, i, p) \/ ChangePassword(w, i, p) \/ ResetPassword(w, i, p)
       \/ \E doc \in UserDoc : doc.active /\ Create(w, i, doc)
       \/ \E role \in {"admin", "user", "guest"}, ps \in (SUBSET Permissions) \cup {None},
             active \in BOOLEAN : Update(w, i, role, ps, active)
       \/ Delete(w, i)

Next ==
    \/ \E w \in Workers :
          \/ Serve(w)
          \/ CountAdmins(w) \/ Save(w) \/ DeleteUser(w)
          \/ ScanSessions(w) \/ SessionsRevoked(w) \/ Abort(w)
          \/ \E t \in Tokens : OpenSession(w, t) \/ RevokeSession(w, t)
    \/ \E t \in Tokens : EndSession(t)

Spec == Init /\ [][Next]_vars

-----------------------------------------------------------------------------
(* "The last active administrator cannot be deleted, disabled, or          *)
(* demoted": once there is a platform user there is an active              *)
(* administrator.  Without one nobody can appoint another, and bootstrap   *)
(* does nothing on a collection that is not empty.                         *)
AdminRemains == Stored # {} => ActiveAdmins # {}

(* A username names one platform user, whatever creations overlap and      *)
(* whichever deleted user a late write brings back.                        *)
UniqueUsernames == \A i, j \in Stored : user[i].name = user[j].name => i = j

(* "manage permissions are discarded": by whatever changes of role a user  *)
(* became a guest, no permission to manage is left in its document.        *)
GuestsOnlyRead ==
    \A i \in Stored : user[i].role = "guest" => user[i].permissions \subseteq ReadOnly

(* When a request that changes or deletes a user is answered, a session    *)
(* the user still has was opened with its password of that moment:         *)
(* "Disabling a user, resetting their password, or changing their          *)
(* permissions invalidates all of that user's sessions".                   *)
Revoked(w) == At(w, "revoke") /\ job[w].keys = {} /\ job'[w] = Idle

RevocationEndsSessions ==
    [][\A w \in Workers : Revoked(w) =>
          \A t \in SessionsOf(job[w].id) :
             job[w].id \in Stored /\ session[t].password = user[job[w].id].password]_vars

(* Signing in changes nothing in the stored document but the time of the   *)
(* last login: it neither enables a user nor brings back an old password,  *)
(* an old role or a deleted user.                                          *)
LoginChangesNothing ==
    [][\A w \in Workers : At(w, "save") /\ job[w].then = "open" => UNCHANGED user]_vars

-----------------------------------------------------------------------------
(* Why an administrator remains if requests do not overlap: the write to   *)
(* come leaves one, and until it comes the users stay as they were read.   *)
OthersAdmin(i) == ActiveAdmins \ {i} # {}

WriteLeavesAdmin(w) ==
    /\ At(w, "save") => IsAdmin(job[w].draft) \/ OthersAdmin(job[w].id)
    /\ At(w, "delete") => OthersAdmin(job[w].id)

AdminInv ==
    /\ AdminRemains
    /\ \A w \in Workers : WriteLeavesAdmin(w)
==============================================================================
