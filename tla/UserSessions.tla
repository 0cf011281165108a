---------------------------- MODULE UserSessions ----------------------------
(***************************************************************************)
(* The sessions of one tenant username: UsersService over the document of  *)
(* the user in MongoDB and the two Redis keys of its session, one for the  *)
(* access token and one for the secret the token is signed with.  The keys *)
(* are read, written and deleted one after the other, so requests that     *)
(* overlap can pair the token of one session with the secret of another.   *)
(*                                                                         *)
(* A session stands for its token and its secret, which are drawn together *)
(* and never twice: token = s and secret = s make a pair that decodes.     *)
(* Sessions bounds how many are ever opened.  What MongoDB and Redis do    *)
(* not store, the password a session was opened with and whether one had   *)
(* ended when a request about it came in, is kept for the properties.      *)
(*                                                                         *)
(* Scopes, licences and the rest of the deletion of a user belong to other *)
(* components; a login is taken to pass their checks.                      *)
(***************************************************************************)
EXTENDS Naturals

CONSTANTS
    Ids,        \* user.key: a username can be used again after a deletion
    Passwords,
    Sessions,   \* all the sessions that are ever opened
    Workers,    \* requests that can be in flight together
    None

ASSUME NoneIsFresh == None \notin Ids \cup Passwords \cup Sessions

VARIABLES
    user,    \* the document of the username
    token,   \* ...:access_token
    secret,  \* ...:temp_secret_key
    info,    \* what the token of each session says
    job      \* the request each worker is serving

vars == <<user, token, secret, info, job>>

UserDoc == [id: Ids, password: Passwords, disabled: BOOLEAN]
NoUser == [id |-> None]
Claims == [id: Ids, password: Passwords, current: BOOLEAN]
NoClaims == [id |-> None]
Key == Sessions \cup {None}

Ops == {"none", "auth", "refresh", "logout", "password", "block", "delete",
        "introspect", "verify"}
Steps == {"idle", "deleteToken", "deleteSecret", "getToken", "getSecret", "setToken",
          "setSecret", "deleteUser", "getUser", "reply"}

Idle == [at |-> "idle", op |-> "none", id |-> None, password |-> None, s |-> None,
         token |-> None, secret |-> None, late |-> FALSE]
Job == [at: Steps, op: Ops, id: Ids \cup {None}, password: Passwords \cup {None}, s: Key,
        token: Key, secret: Key, late: BOOLEAN]

TypeOK ==
    /\ user \in UserDoc \cup {NoUser}
    /\ token \in Key
    /\ secret \in Key
    /\ info \in [Sessions -> Claims \cup {NoClaims}]
    /\ job \in [Workers -> Job]

Init ==
    /\ user = NoUser
    /\ token = None
    /\ secret = None
    /\ info = [s \in Sessions |-> NoClaims]
    /\ job = [w \in Workers |-> Idle]

Issued == {s \in Sessions : info[s] # NoClaims}

\* The session that introspection finds in Redis.
Live == IF token = secret THEN token ELSE None
Opening(s) == \E w \in Workers : job[w].at = "setSecret" /\ job[w].secret = s

\* The life of a session: not yet drawn, half stored, stored, ended.
Age(s) ==
    CASE s \notin Issued -> 0
      [] s \in Issued /\ s # Live /\ Opening(s) -> 1
      [] s \in Issued /\ s = Live -> 2
      [] s \in Issued /\ s # Live /\ ~Opening(s) -> 3

-----------------------------------------------------------------------------
At(w, step) == job[w].at = step
Become(w, j) == job' = [job EXCEPT ![w] = j]
Goto(w, step) == Become(w, [job[w] EXCEPT !.at = step])
Finish(w) == Become(w, Idle)
Begin(w, step, op) ==
    At(w, "idle") /\ Become(w, [Idle EXCEPT !.at = step, !.op = op, !.id = user.id])

\* get_current_user lets in a session by its token alone.
SignedIn ==
    /\ user # NoUser /\ ~user.disabled
    /\ \E s \in Issued : info[s].current /\ info[s].id = user.id

\* create_user and the insertion of sign-up.
Create(i, p) ==
    /\ user = NoUser
    /\ \A s \in Issued : info[s].id # i
    /\ \A w \in Workers : job[w].id # i
    /\ user' = [id |-> i, password |-> p, disabled |-> FALSE]
    /\ UNCHANGED <<token, secret, info, job>>

Auth(w, p, renew) ==
    /\ user # NoUser
    /\ ~user.disabled
    /\ user.password = p
    /\ At(w, "idle")
    /\ Become(w, [Idle EXCEPT !.at = IF renew THEN "deleteToken" ELSE "getToken",
                              !.op = "auth", !.id = user.id, !.password = p])
    /\ UNCHANGED <<user, token, secret, info>>

RefreshToken(w) ==
    /\ SignedIn
    /\ Begin(w, "getToken", "refresh")
    /\ UNCHANGED <<user, token, secret, info>>

Logout(w) ==
    /\ SignedIn
    /\ Begin(w, "deleteToken", "logout")
    /\ UNCHANGED <<user, token, secret, info>>

\* Mutant: answers without ending the session.
UpdatePassword_KeepsSession(w, p) ==
    /\ user # NoUser
    /\ user' = [user EXCEPT !.password = p]
    /\ Begin(w, "reply", "password")
    /\ UNCHANGED <<token, secret, info>>

\* By the user itself, or by confirm_password_recovery for a recovery token.
UpdatePassword(w, p) ==
    /\ user # NoUser
    /\ user' = [user EXCEPT !.password = p]
    /\ Begin(w, "deleteToken", "password")
    /\ UNCHANGED <<token, secret, info>>

\* Of a user that is disabled already, disable_user finds nothing to modify.
BlockUser(w) ==
    /\ user # NoUser
    /\ ~user.disabled
    /\ user' = [user EXCEPT !.disabled = TRUE]
    /\ Begin(w, "deleteToken", "block")
    /\ UNCHANGED <<token, secret, info>>

\* unblock_user, and enable_user for oneself.
EnableUser ==
    /\ user # NoUser
    /\ user.disabled
    /\ user' = [user EXCEPT !.disabled = FALSE]
    /\ UNCHANGED <<token, secret, info, job>>

\* disable_user leaves the session where it is.
DisableUser ==
    /\ SignedIn
    /\ user' = [user EXCEPT !.disabled = TRUE]
    /\ UNCHANGED <<token, secret, info, job>>

DeleteUser(w) ==
    /\ user # NoUser
    /\ Begin(w, "deleteToken", "delete")
    /\ UNCHANGED <<user, token, secret, info>>

\* introspect_session decodes the token first, verify last.
Check(w, s, op) ==
    /\ s \in Issued
    /\ IF op = "introspect" THEN info[s].current ELSE user # NoUser
    /\ At(w, "idle")
    /\ Become(w, [Idle EXCEPT !.at = "getToken", !.op = op, !.s = s,
                              !.late = (Age(s) = 3)])
    /\ UNCHANGED <<user, token, secret, info>>

-----------------------------------------------------------------------------
\* delete_access_token, in two steps.
DeleteToken(w) ==
    /\ At(w, "deleteToken")
    /\ token' = None
    /\ Goto(w, "deleteSecret")
    /\ UNCHANGED <<user, secret, info>>

AfterRevocation(op) ==
    CASE op = "auth"    -> "getToken"
      [] op = "refresh" -> "setToken"
      [] op = "delete"  -> "deleteUser"
      [] OTHER          -> "reply"

DeleteSecret(w) ==
    /\ At(w, "deleteSecret")
    /\ secret' = None
    /\ Goto(w, AfterRevocation(job[w].op))
    /\ UNCHANGED <<user, token, info>>

\* get_access_token, in two steps.
GetToken(w) ==
    /\ At(w, "getToken")
    /\ Become(w, [job[w] EXCEPT !.at = "getSecret", !.token = token])
    /\ UNCHANGED <<user, token, secret, info>>

\* Mutant: looks at the secret only.
PairMatches_SecretOnly(w, s) == secret = s /\ job[w].token # None

\* compare_digest of both parts with those of the session presented.
PairMatches(w, s) == job[w].token = s /\ secret = s

\* A login answers the pair it finds without decoding it.
GetSecretToLogIn(w) ==
    /\ At(w, "getSecret")
    /\ job[w].op = "auth"
    /\ Become(w, [job[w] EXCEPT
          !.at = IF job[w].token # None /\ secret # None THEN "reply" ELSE "setToken",
          !.secret = secret])
    /\ UNCHANGED <<user, token, secret, info>>

GetSecretToRefresh(w) ==
    /\ At(w, "getSecret")
    /\ job[w].op = "refresh"
    /\ IF secret # None /\ job[w].token = secret /\ info[secret].current
       THEN Become(w, [job[w] EXCEPT !.at = "deleteToken", !.s = secret,
                                     !.password = info[secret].password])
       ELSE Finish(w)
    /\ UNCHANGED <<user, token, secret, info>>

GetSecretToCheck(w) ==
    /\ At(w, "getSecret")
    /\ job[w].op \in {"introspect", "verify"}
    /\ IF PairMatches(w, job[w].s) /\ info[job[w].s].current
       THEN Goto(w, IF job[w].op = "verify" THEN "reply" ELSE "getUser")
       ELSE Finish(w)
    /\ UNCHANGED <<user, token, secret, info>>

GetUser(w) ==
    /\ At(w, "getUser")
    /\ IF user # NoUser /\ user.id = info[job[w].s].id /\ ~user.disabled
       THEN Goto(w, "reply") ELSE Finish(w)
    /\ UNCHANGED <<user, token, secret, info>>

\* Mutant: draws a session that was already given out.
SetToken_Reuses(w, s) ==
    /\ At(w, "setToken")
    /\ info' = [info EXCEPT ![s] = [id |-> job[w].id, password |-> job[w].password,
                                    current |-> TRUE]]
    /\ token' = s
    /\ Become(w, [job[w] EXCEPT !.at = "setSecret", !.token = s, !.secret = s])
    /\ UNCHANGED <<user, secret>>

\* set_access_token, in two steps; the session is drawn just before.
SetToken(w, s) ==
    /\ At(w, "setToken")
    /\ s \notin Issued
    /\ info' = [info EXCEPT ![s] = [id |-> job[w].id, password |-> job[w].password,
                                    current |-> TRUE]]
    /\ token' = s
    /\ Become(w, [job[w] EXCEPT !.at = "setSecret", !.token = s, !.secret = s])
    /\ UNCHANGED <<user, secret>>

SetSecret(w) ==
    /\ At(w, "setSecret")
    /\ secret' = job[w].secret
    /\ Goto(w, "reply")
    /\ UNCHANGED <<user, token, info>>

\* delete_by_id names the key of the user that was read.
RemoveUser(w) ==
    /\ At(w, "deleteUser")
    /\ user' = IF user.id = job[w].id THEN NoUser ELSE user
    /\ Goto(w, "reply")
    /\ UNCHANGED <<token, secret, info>>

Reply(w) ==
    /\ At(w, "reply")
    /\ Finish(w)
    /\ UNCHANGED <<user, token, secret, info>>

-----------------------------------------------------------------------------
\* Redis drops each key at its time limit, and the token has one of its own.
ExpireToken == token # None /\ token' = None /\ UNCHANGED <<user, secret, info, job>>
ExpireSecret == secret # None /\ secret' = None /\ UNCHANGED <<user, token, info, job>>
ExpireClaims(s) ==
    /\ s \in Issued
    /\ info[s].current
    /\ info' = [info EXCEPT ![s].current = FALSE]
    /\ UNCHANGED <<user, token, secret, job>>

Abort(w) ==
    /\ ~At(w, "idle")
    /\ Finish(w)
    /\ UNCHANGED <<user, token, secret, info>>

\* The errors of Redis that a handler does not pass on: a login goes on to
\* open a session, a change of password is answered all the same.
IgnoreRedisError(w) ==
    /\ \/ /\ job[w].op = "auth"
          /\ \/ job[w].at \in {"deleteToken", "deleteSecret"} /\ Goto(w, "getToken")
             \/ job[w].at \in {"getToken", "getSecret"} /\ Goto(w, "setToken")
       \/ /\ job[w].op = "password"
          /\ job[w].at \in {"deleteToken", "deleteSecret"}
          /\ Goto(w, "reply")
    /\ UNCHANGED <<user, token, secret, info>>

Serve(w) ==
    \/ \E p \in Passwords :
          \/ \E renew \in BOOLEAN : Auth(w, p, renew)
          \/ UpdatePassword(w, p)
    \/ RefreshToken(w) \/ Logout(w) \/ BlockUser(w) \/ DeleteUser(w)
    \/ \E s \in Sessions, op \in {"introspect", "verify"} : Check(w, s, op)

Work ==
    \/ \E w \in Workers :
          \/ Serve(w)
          \/ DeleteToken(w) \/ DeleteSecret(w) \/ GetToken(w)
          \/ GetSecretToLogIn(w) \/ GetSecretToRefresh(w) \/ GetSecretToCheck(w)
          \/ GetUser(w) \/ SetSecret(w) \/ RemoveUser(w) \/ Reply(w)
          \/ \E s \in Sessions : SetToken(w, s)
    \/ \E i \in Ids, p \in Passwords : Create(i, p)
    \/ EnableUser \/ DisableUser
    \/ ExpireToken \/ ExpireSecret
    \/ \E s \in Sessions : ExpireClaims(s)

Fail == \E w \in Workers : Abort(w) \/ IgnoreRedisError(w)

Next == Work \/ Fail

Spec == Init /\ [][Next]_vars

-----------------------------------------------------------------------------
(* A session that was replaced, revoked or has expired never becomes valid *)
(* again, however logins, refreshes and revocations overlap and wherever   *)
(* they fail between the two keys.                                         *)
SessionsOnlyAge == [][\A s \in Sessions : Age(s)' >= Age(s)]_vars

(* "A revoked, replaced, disabled, expired, or account-mismatched session  *)
(* is rejected": introspect_session and verify, which read the two keys    *)
(* one after the other, never accept a session that had ended when the     *)
(* request came in.                                                        *)
RevokedIsRejected ==
    \A w \in Workers : At(w, "reply") /\ job[w].op \in {"introspect", "verify"} => ~job[w].late

(* A login or a refresh answers a token with the secret it was signed with *)
(* and for the user that logged in, not one whose username was used        *)
(* before: also when the pair was found in Redis.                          *)
LoginAnswersUsable ==
    \A w \in Workers : At(w, "reply") /\ job[w].op \in {"auth", "refresh"} =>
        job[w].token = job[w].secret /\ info[job[w].secret].id = job[w].id

(* The session in Redis is one of the present user, opened with its        *)
(* present password or by a refresh of one that was: "The server revokes   *)
(* their current session after the change, so they must authenticate again *)
(* with the new password".                                                 *)
Revoking == \E w \in Workers : job[w].op = "password"

LiveIsCurrent ==
    Live # None /\ ~Revoking =>
        user # NoUser /\ info[Live].id = user.id /\ info[Live].password = user.password

-----------------------------------------------------------------------------
(* Why sessions only age: a secret is written by the one request that drew *)
(* it, and only once; and what a check has read of a session that had      *)
(* ended is not completed by what it reads later.                          *)
OneWriter(w) ==
    /\ At(w, "setSecret") =>
          /\ job[w].secret \in Issued
          /\ job[w].secret # secret
          /\ \A v \in Workers \ {w} :
                At(v, "setSecret") => job[v].secret # job[w].secret

StaysRejected(w) ==
    job[w].late =>
        /\ job[w].s \in Sessions
        /\ Age(job[w].s) = 3
        /\ job[w].op \in {"introspect", "verify"}
        /\ job[w].at \in {"getToken", "getSecret"}
        /\ At(w, "getSecret") /\ job[w].token = job[w].s => secret # job[w].s

SessionInv ==
    /\ token \in Issued \cup {None}
    /\ secret \in Issued \cup {None}
    /\ \A w \in Workers : OneWriter(w) /\ StaysRejected(w)
=============================================================================
