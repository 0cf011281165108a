------------------------------- MODULE Gateway ------------------------------
(***************************************************************************)
(* What every request goes through: the lookup of the account in its path, *)
(* the guard of the route, the tenant session if the route asks for one,   *)
(* the handler, and the audit trail around it.                             *)
(*                                                                         *)
(* Each await is a step of its own.  Between two steps accounts, keys,     *)
(* platform users and their sessions, and tenant users change: those       *)
(* actions stand for the handlers that change them, which are modelled in  *)
(* the modules of their components, and keep here only what the guards     *)
(* read.  Raw secrets and CSRF tokens are the identities they belong to.   *)
(***************************************************************************)
EXTENDS FiniteSets, Sequences

CONSTANTS
    Classes,         \* the routes: guard, suffix, mutating, session, writes, model, account
    Areas,           \* areas of API key scopes and platform permissions
    Accounts,        \* account ids that occur in paths
    Keys, KeyAccount, KeyScopes,  \* API keys; the account and the scopes of each
    Sessions, SessionUser,        \* platform sessions; the user of each
    PlatformUsers,   \* platform user ids
    Profiles,        \* the documents a platform user may have
    Tenants, TenantAccount,       \* tenant users; the account of each
    Bundles,         \* what a request may carry
    Requests,        \* correlation ids: each request is made once
    Absent           \* stands for any absent value

\* PlatformPermission: every area has a READ and, but for audit, a MANAGE.
Permission == (Areas \X {"READ", "MANAGE"}) \ {<<"audit", "MANAGE">>}

Guards == {"open", "signed_in", "member", "key", "any_key", "service_key",
           "admin_or_key", "admin_or_platform", "platform"}

Models == {"none", "groups", "rbac", "acl", "abac", "ngac"}

Class == [guard: [by: Guards, areas: SUBSET Areas, permission: Permission \cup {<<>>}],
          suffix: {"READ", "MANAGE"}, mutating: BOOLEAN, writes: BOOLEAN,
          session: {"none", "active", "any"},
          model: Models,
          account: {"none", "path", "existing"}]

Profile == [role: {"admin", "user", "guest"}, permissions: SUBSET Permission,
            allowed: SUBSET Accounts, active: BOOLEAN, must_change: BOOLEAN]
NoProfile == [role |-> "guest", permissions |-> {}, allowed |-> {},
              active |-> FALSE, must_change |-> TRUE]

Bundle == [admin: BOOLEAN, csrf: BOOLEAN, cookie: Sessions \cup {Absent},
           key: Keys \cup {Absent}, token: Tenants \cup {Absent}]

\* Whoever a route lets write has to hold a MANAGE permission, if it is a
\* platform user: the routes that query with POST end in one of three words.
WritesAskForManage ==
    \A c \in Classes : c.writes =>
        /\ c.guard.by \in {"key", "admin_or_key"} => c.suffix = "MANAGE"
        /\ c.guard.by # "any_key"
        /\ c.guard.by \in {"admin_or_platform", "platform"} => c.guard.permission[2] = "MANAGE"

\* What changes an authorization model without a guard of its own, or for the
\* admin token, asks for a tenant session: somebody is there to be named.
ChangesNameAnActor ==
    \A c \in Classes : c.mutating /\ c.model # "none" =>
        /\ c.guard.by \in {"open", "admin_or_key", "admin_or_platform"} => c.session = "active"
        /\ c.guard.by = "service_key" => c.session = "none"

ASSUME ClassesAreTyped == Classes \subseteq Class
ASSUME NamedPermissions ==
    \A c \in Classes : c.guard.by \in {"admin_or_platform", "platform"} => c.guard.permission \in Permission
ASSUME WritesManage == WritesAskForManage
ASSUME ChangesAreSigned == ChangesNameAnActor
ASSUME KeysAreTyped == /\ KeyAccount \in [Keys -> Accounts]
                       /\ KeyScopes \in [Keys -> SUBSET (Areas \cup {"service", "all"})]
ASSUME SessionsAreTyped == SessionUser \in [Sessions -> PlatformUsers]
ASSUME TenantsAreTyped == TenantAccount \in [Tenants -> Accounts]
ASSUME InputsAreTyped == Profiles \subseteq Profile /\ Bundles \subseteq Bundle
ASSUME AbsentIsNone == Absent \notin Accounts \cup Keys \cup Sessions \cup Tenants /\ Absent \notin Profile

VARIABLES
    accounts,   \* accounts that find_by_id finds
    keys,       \* API keys that are active and not expired
    sessions,   \* platform sessions the store knows
    profile,    \* the document of each platform user, or Absent
    tenant,     \* each tenant user: "enabled", "disabled" or "absent"
    events,     \* audit events
    notices,    \* requests a notification was stored for
    req         \* the requests

gatewayVars == <<accounts, keys, sessions, profile, tenant, events, notices, req>>
credentials == <<accounts, keys, sessions, profile, tenant>>
trail == <<events, notices>>

Stages == {"new", "account", "guard", "document", "me", "me_document", "handle",
           "audit", "notify", "answered", "refused", "failed"}

RequestState == [at: Stages, class: Classes \cup {Absent}, account: Accounts \cup {Absent},
                 with: Bundle \cup {Absent},
                 by: {"nobody", "open", "admin", "key", "platform", "member", "signed_in"},
                 seen: Profile \cup {NoProfile},   \* the document the guard read
                 platform: BOOLEAN,                \* request.state.platform_user is set
                 user: BOOLEAN,                    \* request.state.current_user is set
                 dead: SUBSET {"account", "key", "session"}]  \* gone ever since it arrived

NewRequest == [at |-> "new", class |-> Absent, account |-> Absent, with |-> Absent,
               by |-> "nobody", seen |-> NoProfile, platform |-> FALSE,
               user |-> FALSE, dead |-> {}]

Event == [request: Requests, account: Accounts \cup {Absent}, model: Models,
          actor: {"platform", "tenant", "service", "unknown"}]

GatewayTypeOK ==
    /\ accounts \subseteq Accounts
    /\ keys \subseteq Keys
    /\ sessions \subseteq Sessions
    /\ profile \in [PlatformUsers -> Profile \cup {Absent}]
    /\ tenant \in [Tenants -> {"enabled", "disabled", "absent"}]
    /\ events \subseteq Event
    /\ notices \subseteq Requests
    /\ req \in [Requests -> RequestState]

GatewayInit ==
    /\ accounts = Accounts
    /\ keys = Keys
    /\ sessions = Sessions
    /\ profile \in [PlatformUsers -> Profiles]
    /\ tenant = [t \in Tenants |-> "enabled"]
    /\ events = {}
    /\ notices = {}
    /\ req = [q \in Requests |-> NewRequest]

-----------------------------------------------------------------------------
(* Decisions of the middleware.                                            *)

\* Mutant: a guest keeps every permission that is assigned to it.
Effective_Guest(d) == IF d.role = "admin" THEN Permission ELSE d.permissions

\* PlatformUser.effective_permissions
Effective(d) ==
    CASE d.role = "admin" -> Permission
      [] d.role = "guest" -> {p \in d.permissions : p[2] = "READ"}
      [] OTHER -> d.permissions

\* Mutant: the accounts of the user are not looked at.
Can_AnyAccount(d, p, a) == d.active /\ (d.role = "admin" \/ p \in Effective(d))

\* PlatformUser.can; a = Absent where the path names no account.
Can(d, p, a) ==
    /\ d.active
    /\ \/ d.role = "admin"
       \/ p \in Effective(d) /\ a \in d.allowed \cup {Absent}

\* APIKey.allows: ALL does not include SERVICE.
Allows(k, s) ==
    s \in KeyScopes[k] \/ (s # "service" /\ "all" \in KeyScopes[k])

\* What the three key guards conclude from a key that is active.
KeyOpens(c, k, a) ==
    /\ c.guard.by = "service_key" => Allows(k, "service")
    /\ \E s \in c.guard.areas : Allows(k, s)
    /\ a = KeyAccount[k]

\* The permissions one of which a platform user needs: the one the route names,
\* or its areas with the suffix of the request, as far as they exist.
Needed(c) ==
    CASE c.guard.by \in {"admin_or_platform", "platform"} -> {c.guard.permission}
      [] c.guard.by = "any_key" -> (c.guard.areas \X {"READ"}) \cap Permission
      [] OTHER -> (c.guard.areas \X {c.suffix}) \cap Permission

\* What the guards conclude from the document of the signed-in user.
UserPasses(c, d, a) ==
    CASE c.guard.by = "signed_in" -> TRUE
      [] c.guard.by = "member" -> ~d.must_change /\ (d.role = "admin" \/ a \in d.allowed)
      [] OTHER -> ~d.must_change /\ \E p \in Needed(c) : Can(d, p, a)

\* The order in which each guard tries what the request carries.
Credential(c, b) ==
    LET cookie == IF b.cookie # Absent THEN "cookie" ELSE "nothing"
        key == IF b.key # Absent THEN "key" ELSE "nothing"
    IN  CASE c.guard.by = "open" -> "open"
          [] c.guard.by = "service_key" -> key
          [] c.guard.by \in {"key", "any_key"} -> IF cookie = "cookie" THEN cookie ELSE key
          [] c.guard.by = "admin_or_key" ->
                IF b.admin THEN "admin" ELSE IF cookie = "cookie" THEN cookie ELSE key
          [] c.guard.by = "admin_or_platform" -> IF b.admin THEN "admin" ELSE cookie
          [] OTHER -> cookie

\* Who the guard let in, for a platform session.
Standing(c) == IF c.guard.by \in {"signed_in", "member"} THEN c.guard.by ELSE "platform"

-----------------------------------------------------------------------------
(* A request.                                                              *)

Go(q, stage) == req' = [req EXCEPT ![q].at = stage]

Refuse(q) == Go(q, "refused")

\* The stage after the guard.
Admitted(c) == IF c.session = "none" THEN "handle" ELSE "me"

\* What the request relies on and is gone already.
GoneFor(c, a, b) ==
    {g \in {"account", "key", "session"} :
        \/ g = "account" /\ a \notin accounts
        \/ g = "key" /\ b.key \notin keys
        \/ g = "session" /\ b.cookie \notin sessions}

\* A request reaches the route.
Arrive(q) ==
    /\ req[q].at = "new"
    /\ \E c \in Classes, b \in Bundles, a \in Accounts \cup {Absent} :
        /\ a = Absent <=> c.account = "none"
        /\ req' = [req EXCEPT ![q].at = IF c.account = "existing" THEN "account" ELSE "guard",
                              ![q].class = c, ![q].account = a, ![q].with = b,
                              ![q].dead = GoneFor(c, a, b)]
    /\ UNCHANGED <<credentials, trail>>

\* require_existing_account, a dependency of every router but two.
CheckAccount(q) ==
    /\ req[q].at = "account"
    /\ IF req[q].account \in accounts THEN Go(q, "guard") ELSE Refuse(q)
    /\ UNCHANGED <<credentials, trail>>

\* The guard has nothing to wait for: no guard, an admin token, or nothing it takes.
GuardAtOnce(q) ==
    /\ req[q].at = "guard"
    /\ LET by == Credential(req[q].class, req[q].with)
       IN  /\ by \in {"open", "admin", "nothing"}
           /\ IF by = "nothing"
              THEN Refuse(q)
              ELSE req' = [req EXCEPT ![q].at = Admitted(req[q].class), ![q].by = by]
    /\ UNCHANGED <<credentials, trail>>

\* Mutant: a key is found whether or not it is still active.
GuardKey_Revoked(q) ==
    /\ req[q].at = "guard"
    /\ Credential(req[q].class, req[q].with) = "key"
    /\ IF KeyOpens(req[q].class, req[q].with.key, req[q].account)
       THEN req' = [req EXCEPT ![q].at = Admitted(req[q].class), ![q].by = "key"]
       ELSE Refuse(q)
    /\ UNCHANGED <<credentials, trail>>

\* The guard validates the API key.
GuardKey(q) ==
    /\ req[q].at = "guard"
    /\ Credential(req[q].class, req[q].with) = "key"
    /\ IF req[q].with.key \in keys /\ KeyOpens(req[q].class, req[q].with.key, req[q].account)
       THEN req' = [req EXCEPT ![q].at = Admitted(req[q].class), ![q].by = "key"]
       ELSE Refuse(q)
    /\ UNCHANGED <<credentials, trail>>

\* authorize_platform_request up to the answer of the session store.
SessionFound(q) ==
    /\ req[q].with.cookie \in sessions
    /\ req[q].class.mutating => req[q].with.csrf

\* The guard of a platform session finds the session; a route whose area has no
\* such permission refuses before it looks.
GuardSession(q) ==
    /\ req[q].at = "guard"
    /\ Credential(req[q].class, req[q].with) = "cookie"
    /\ IF /\ req[q].class.guard.by \in {"key", "admin_or_key"} => Needed(req[q].class) # {}
          /\ SessionFound(q)
       THEN Go(q, "document")
       ELSE Refuse(q)
    /\ UNCHANGED <<credentials, trail>>

\* authorize_platform_request from the answer of the session store on: a user that
\* is gone is refused, one that is not active loses the session as well.
UserOf(q) == profile[SessionUser[req[q].with.cookie]]
DropIfInactive(q) ==
    sessions' = IF UserOf(q) # Absent /\ ~UserOf(q).active
                THEN sessions \ {req[q].with.cookie} ELSE sessions

GuardDocument(q) ==
    /\ req[q].at = "document"
    /\ LET d == UserOf(q) IN
       IF d # Absent /\ d.active /\ UserPasses(req[q].class, d, req[q].account)
       THEN req' = [req EXCEPT ![q].at = Admitted(req[q].class),
                               ![q].by = Standing(req[q].class),
                               ![q].seen = d, ![q].platform = TRUE]
       ELSE Refuse(q)
    /\ DropIfInactive(q)
    /\ UNCHANGED <<accounts, keys, profile, tenant, trail>>

\* get_current_user: a platform session, if there is a cookie, once more from the
\* start; else the user the access token names, looked up in the path's account.
MeSession(q) ==
    /\ req[q].at = "me"
    /\ req[q].with.cookie # Absent
    /\ IF SessionFound(q) THEN Go(q, "me_document") ELSE Refuse(q)
    /\ UNCHANGED <<credentials, trail>>

MeDocument(q) ==
    /\ req[q].at = "me_document"
    /\ IF UserOf(q) # Absent /\ UserOf(q).active
       THEN req' = [req EXCEPT ![q].at = "handle", ![q].platform = TRUE,
                               ![q].user = (req[q].class.session = "active")]
       ELSE Refuse(q)
    /\ DropIfInactive(q)
    /\ UNCHANGED <<accounts, keys, profile, tenant, trail>>

MeToken(q) ==
    /\ req[q].at = "me"
    /\ req[q].with.cookie = Absent
    /\ LET t == req[q].with.token IN
       IF /\ t # Absent
          /\ TenantAccount[t] = req[q].account
          /\ tenant[t] # "absent"
          /\ req[q].class.session = "active" => tenant[t] # "disabled"
       THEN req' = [req EXCEPT ![q].at = "handle", ![q].user = (req[q].class.session = "active")]
       ELSE Refuse(q)
    /\ UNCHANGED <<credentials, trail>>

\* capture_authorization_audit looks at what changed an authorization model.
Audited(q) == req[q].class.model # "none" /\ req[q].class.mutating

\* The handler calls its service, which carries the request out or reports an error.
Handle(q) ==
    /\ req[q].at = "handle"
    /\ \/ Go(q, IF Audited(q) THEN "audit" ELSE "answered")
       \/ Refuse(q)
    /\ UNCHANGED <<credentials, trail>>

\* Mutant: a platform user is not recognised as the actor.
Actor_NoPlatform(r) ==
    CASE r.user -> "tenant"
      [] r.with.key # Absent /\ ~r.user -> "service"
      [] OTHER -> "unknown"

\* Whom the event names.
Actor(r) ==
    CASE r.platform -> "platform"
      [] r.user /\ ~r.platform -> "tenant"
      [] r.with.key # Absent /\ ~r.user /\ ~r.platform -> "service"
      [] OTHER -> "unknown"

\* AuthorizationAuditRepository.append; if it fails see Interrupt.
AppendEvent(q) ==
    /\ req[q].at = "audit"
    /\ events' = events \cup {[request |-> q, account |-> req[q].account,
                               model |-> req[q].class.model, actor |-> Actor(req[q])]}
    /\ Go(q, "notify")
    /\ UNCHANGED <<credentials, notices>>

\* The notification is stored, or the failure to store it passed over.
Notify(q) ==
    /\ req[q].at = "notify"
    /\ notices' \in {notices, notices \cup {q}}
    /\ Go(q, "answered")
    /\ UNCHANGED <<credentials, events>>

\* The storage fails or the server stops: before the handler the request comes to
\* nothing; after it the change stays, and the answer is an error or none at all.
Interrupt(q) ==
    /\ \/ req[q].at \in {"account", "guard", "document", "me", "me_document"} /\ Refuse(q)
       \/ req[q].at \in {"audit", "notify"} /\ Go(q, "failed")
    /\ UNCHANGED <<credentials, trail>>

-----------------------------------------------------------------------------
(* What changes meanwhile.                                                 *)

\* AccountsService.create_account and delete_account (which deletes nothing else)
CreateAccount(a) ==
    /\ a \notin accounts
    /\ accounts' = accounts \cup {a}
    /\ req' = [q \in Requests |->
                 IF req[q].account = a THEN [req[q] EXCEPT !.dead = @ \ {"account"}] ELSE req[q]]
    /\ UNCHANGED <<keys, sessions, profile, tenant, trail>>

DeleteAccount(a) ==
    /\ a \in accounts
    /\ accounts' = accounts \ {a}
    /\ UNCHANGED <<keys, sessions, profile, tenant, trail, req>>

\* A key is revoked, deleted, rotated (its old secret is no key), or expires.
EndKey(k) ==
    /\ k \in keys
    /\ keys' = keys \ {k}
    /\ UNCHANGED <<accounts, sessions, profile, tenant, trail, req>>

\* Logout, a change of the user by an administrator, or the end of its lifetime.
EndSession(s) ==
    /\ s \in sessions
    /\ sessions' = sessions \ {s}
    /\ UNCHANGED <<accounts, keys, profile, tenant, trail, req>>

\* A platform user is changed or deleted; its sessions go in a later step.
EditUser(u) ==
    /\ profile[u] # Absent
    /\ \E d \in Profiles \cup {Absent} : profile' = [profile EXCEPT ![u] = d]
    /\ UNCHANGED <<accounts, keys, sessions, tenant, trail, req>>

\* A tenant user is blocked, unblocked or deleted.
EditTenant(t) ==
    /\ tenant[t] # "absent"
    /\ \E s \in {"enabled", "disabled", "absent"} : tenant' = [tenant EXCEPT ![t] = s]
    /\ UNCHANGED <<accounts, keys, sessions, profile, trail, req>>

RequestStep(q) ==
    \/ Arrive(q) \/ CheckAccount(q)
    \/ GuardAtOnce(q) \/ GuardKey(q) \/ GuardSession(q) \/ GuardDocument(q)
    \/ MeSession(q) \/ MeDocument(q) \/ MeToken(q)
    \/ Handle(q) \/ AppendEvent(q) \/ Notify(q) \/ Interrupt(q)

Environment ==
    \/ \E a \in Accounts : CreateAccount(a) \/ DeleteAccount(a)
    \/ \E k \in Keys : EndKey(k)
    \/ \E s \in Sessions : EndSession(s)
    \/ \E u \in PlatformUsers : EditUser(u)
    \/ \E t \in Tenants : EditTenant(t)

\* Once every request has ended nothing reads what changes.
Unanswered == \E q \in Requests : req[q].at \notin {"answered", "refused", "failed"}

GatewayNext == (Unanswered /\ Environment) \/ \E q \in Requests : RequestStep(q)

GatewaySpec == GatewayInit /\ [][GatewayNext]_gatewayVars

-----------------------------------------------------------------------------
(* Properties.                                                             *)

\* The guard let the request in.
Inside(q) == req[q].at \in {"me", "me_document", "handle", "audit", "notify", "answered", "failed"}
\* The handler carried it out.
Done(q) == req[q].at \in {"audit", "notify", "answered", "failed"}

\* Whatever a request carries, and whatever changes while its guard waits, the key
\* or the platform user that opened a route of an account belongs to that account,
\* and so does the tenant user it is carried out for.
TenantIsolation ==
    \A q \in Requests :
        /\ Inside(q) /\ req[q].by = "key" => KeyAccount[req[q].with.key] = req[q].account
        /\ Inside(q) /\ req[q].by \in {"platform", "member"} /\ req[q].account # Absent =>
              req[q].seen.role = "admin" \/ req[q].account \in req[q].seen.allowed
        /\ Done(q) /\ req[q].user /\ ~req[q].platform =>
              TenantAccount[req[q].with.token] = req[q].account

\* A platform user whose document lets it only read changes nothing through a route
\* that asks for a permission, though queries come as POST requests too.
ReadersDoNotWrite ==
    \A q \in Requests :
        Done(q) /\ req[q].by = "platform" /\ req[q].class.writes =>
            /\ req[q].seen.role # "guest"
            /\ \E p \in Effective(req[q].seen) : p[2] = "MANAGE"

\* A request by a key or a session that ended before it arrived, or to an account
\* that was and stays deleted, is not carried out.
EndedIsRefused ==
    \A q \in Requests : Done(q) =>
        /\ req[q].by = "key" => "key" \notin req[q].dead
        /\ req[q].by \in {"platform", "member", "signed_in"} => "session" \notin req[q].dead
        /\ req[q].class.account = "existing" => "account" \notin req[q].dead

\* A change of an authorization model is acknowledged only with its event, an event
\* tells of a change that was made, and a notification of one that was recorded.
AuditCovers ==
    /\ \A q \in Requests :
          req[q].at = "answered" /\ Audited(q) =>
              \E e \in events : e.request = q /\ e.account = req[q].account
    /\ \A e \in events : Done(e.request) /\ req[e.request].at # "audit" /\ Audited(e.request)
    /\ \A q \in notices : \E e \in events : e.request = q

\* The event names the kind of actor the guard admitted: never an unknown one.
ActorIsKnown ==
    \A e \in events :
        /\ e.actor # "unknown"
        /\ req[e.request].by = "platform" => e.actor = "platform"
        /\ req[e.request].by = "key" => e.actor \in {"service", "tenant"}

\* The trail accounts for every acknowledged change, by what was done and by whom:
\* the audit middleware appends an event before the answer goes out.
AuditTrailHolds == AuditCovers /\ ActorIsKnown

-----------------------------------------------------------------------------
(* What each stage of a request has established: the strengthening the     *)
(* proofs use (module GatewayProofs).                                      *)

Arrived(q) == req[q].at # "new" =>
    /\ req[q].class \in Classes
    /\ req[q].with \in Bundles
    /\ req[q].at = "account" => req[q].class.account = "existing"

\* What is gone for good for a request is gone.
GoneIsGone(q) == req[q].at # "new" =>
    /\ "account" \in req[q].dead => req[q].account \notin accounts
    /\ "key" \in req[q].dead => req[q].with.key \notin keys
    /\ "session" \in req[q].dead => req[q].with.cookie \notin sessions

AccountWasFound(q) ==
    req[q].at \notin {"new", "account", "refused"} /\ req[q].class.account = "existing" =>
        "account" \notin req[q].dead

SessionWasFound(q) == req[q].at = "document" =>
    Credential(req[q].class, req[q].with) = "cookie" /\ "session" \notin req[q].dead

\* Before the guard has let it in a request has no standing.
NobodyYet(q) == req[q].at \in {"new", "account", "guard", "document"} =>
    req[q].by = "nobody" /\ ~req[q].platform /\ ~req[q].user

\* What the guard saw when it let the request in.
WasAdmitted(q) == Inside(q) =>
    \/ req[q].by \in {"open", "admin"} /\ req[q].by = Credential(req[q].class, req[q].with)
    \/ /\ req[q].by = "key"
       /\ Credential(req[q].class, req[q].with) = "key"
       /\ KeyOpens(req[q].class, req[q].with.key, req[q].account)
       /\ "key" \notin req[q].dead
    \/ /\ req[q].by = Standing(req[q].class)
       /\ Credential(req[q].class, req[q].with) = "cookie"
       /\ req[q].seen \in Profile
       /\ UserPasses(req[q].class, req[q].seen, req[q].account)
       /\ req[q].platform
       /\ "session" \notin req[q].dead

\* Whom the tenant session stands for.
SessionHolds(q) ==
    /\ req[q].at \in {"me", "me_document"} => req[q].class.session # "none" /\ ~req[q].user
    /\ req[q].at = "me_document" => req[q].with.cookie # Absent
    /\ req[q].at = "handle" \/ Done(q) =>
          /\ req[q].class.session = "active" => req[q].user
          /\ req[q].user /\ ~req[q].platform => TenantAccount[req[q].with.token] = req[q].account
    /\ Inside(q) /\ req[q].by = "key" /\ req[q].platform =>
          req[q].class.session # "none" /\ req[q].with.cookie # Absent

RequestInv(q) ==
    /\ Arrived(q) /\ GoneIsGone(q) /\ AccountWasFound(q) /\ SessionWasFound(q)
    /\ NobodyYet(q) /\ WasAdmitted(q) /\ SessionHolds(q)

\* The trail and the stages of the requests agree.
TrailInv ==
    /\ \A q \in Requests :
          /\ req[q].at \in {"audit", "notify"} => Audited(q)
          /\ req[q].at = "notify" \/ (req[q].at = "answered" /\ Audited(q)) =>
                \E e \in events : e.request = q /\ e.account = req[q].account
    /\ \A e \in events :
          /\ req[e.request].at \in {"notify", "answered", "failed"}
          /\ Audited(e.request)
          /\ e.actor = Actor(req[e.request])
    /\ \A q \in notices : \E e \in events : e.request = q

IInv == (\A q \in Requests : RequestInv(q)) /\ TrailInv
=============================================================================
