------------------------- MODULE UserSessionsProofs --------------------------
(***************************************************************************)
(* Proofs about UserSessions, for any number of requests that overlap and  *)
(* fail anywhere: a session that ended never becomes valid again, and a    *)
(* check of one that had ended never accepts it.  Until requests overlap   *)
(* or fail (module CalmSessions) a login answers a pair that belongs       *)
(* together, and the session kept is one of the present password.          *)
(***************************************************************************)
EXTENDS CalmSessions, TLAPS

\* What a request has in its variables when it needs it.
JobOK(j) ==
    /\ j \in Job
    /\ j.op \in {"auth", "refresh"} => j.id \in Ids
    /\ j.op = "auth" => j.password \in Passwords
    /\ j.op = "refresh" /\ j.at \in {"deleteToken", "deleteSecret", "setToken"} =>
          j.password \in Passwords
    /\ j.op \in {"introspect", "verify"} => j.s \in Sessions
    /\ j.at = "setToken" => j.op \in {"auth", "refresh"}

DataInv ==
    /\ TypeOK
    /\ token \in Issued \cup {None}
    /\ secret \in Issued \cup {None}
    /\ \A w \in Workers :
          /\ JobOK(job[w])
          /\ At(w, "setSecret") => job[w].secret \in Issued

-----------------------------------------------------------------------------
LEMMA NoClaimsIsNone == NoClaims \notin Claims
  BY NoneIsFresh DEF NoClaims, Claims

LEMMA NoUserIsNone == NoUser \notin UserDoc
  BY NoneIsFresh DEF NoUser, UserDoc

LEMMA IdleJobOK == JobOK(Idle)
  BY DEF JobOK, Idle, Job, Ops, Steps, Key

LEMMA IssuedClaims == ASSUME TypeOK, NEW s \in Issued PROVE info[s] \in Claims
  BY DEF TypeOK, Issued

(* A step that moves one request on and draws no session.                  *)
LEMMA MoveKeepsData ==
    ASSUME DataInv, NEW w \in Workers, NEW j, Become(w, j), JobOK(j),
           j.at = "setSecret" => j.secret \in Issued,
           user' \in UserDoc \cup {NoUser}, info' = info,
           token' \in Issued \cup {None}, secret' \in Issued \cup {None}
    PROVE  DataInv'
<1>1. Issued' = Issued /\ Issued \subseteq Sessions
  BY DEF Issued
<1>2. TypeOK'
  BY <1>1 DEF DataInv, TypeOK, Become, JobOK, Key
<1>3. \A v \in Workers : job'[v] = IF v = w THEN j ELSE job[v]
  BY DEF DataInv, TypeOK, Become
<1> QED
  BY <1>1, <1>2, <1>3 DEF DataInv, At

(* A request that the first step of a handler may start.                   *)
LEMMA BeginJobOK ==
    ASSUME TypeOK, user # NoUser, NEW step \in Steps \ {"setToken", "setSecret"},
           NEW op \in Ops \ {"auth", "introspect", "verify"},
           op = "refresh" => step = "getToken"
    PROVE  /\ JobOK([Idle EXCEPT !.at = step, !.op = op, !.id = user.id])
           /\ [Idle EXCEPT !.at = step, !.op = op, !.id = user.id].at = step
<1>1. user.id \in Ids
  BY DEF TypeOK, UserDoc
<1> QED
  BY <1>1 DEF JobOK, Idle, Job, Ops, Steps, Key

LEMMA BeginKeepsData ==
    ASSUME DataInv, NEW w \in Workers, user # NoUser,
           NEW step \in Steps \ {"setToken", "setSecret"},
           NEW op \in Ops \ {"auth", "introspect", "verify"},
           op = "refresh" => step = "getToken", Begin(w, step, op),
           user' \in UserDoc \cup {NoUser}, UNCHANGED <<token, secret, info>>
    PROVE  DataInv'
  BY BeginJobOK, MoveKeepsData DEF Begin, DataInv

LEMMA ServeKeepsData ==
    ASSUME DataInv, NEW w \in Workers, Serve(w)
    PROVE  DataInv'
<1>1. ASSUME NEW p \in Passwords, NEW renew \in BOOLEAN, Auth(w, p, renew) PROVE DataInv'
  <2> DEFINE j == [Idle EXCEPT !.at = IF renew THEN "deleteToken" ELSE "getToken",
                               !.op = "auth", !.id = user.id, !.password = p]
  <2>1. user.id \in Ids
    BY <1>1 DEF Auth, DataInv, TypeOK, UserDoc
  <2>2. JobOK(j) /\ j.at # "setSecret"
    BY <2>1 DEF JobOK, Idle, Job, Ops, Steps, Key
  <2>3. Become(w, j) /\ UNCHANGED <<user, token, secret, info>>
    BY <1>1 DEF Auth
  <2> HIDE DEF j
  <2> QED
    BY <2>2, <2>3, MoveKeepsData DEF DataInv, TypeOK
<1>2. ASSUME NEW p \in Passwords, UpdatePassword(w, p) PROVE DataInv'
  <2>1. user' \in UserDoc
    BY <1>2 DEF UpdatePassword, DataInv, TypeOK, UserDoc
  <2> QED
    BY <1>2, <2>1, BeginKeepsData DEF UpdatePassword, Ops, Steps
<1>3. ASSUME RefreshToken(w) PROVE DataInv'
  BY <1>3, BeginKeepsData DEF RefreshToken, SignedIn, Ops, Steps, DataInv, TypeOK
<1>4. ASSUME Logout(w) PROVE DataInv'
  BY <1>4, BeginKeepsData DEF Logout, SignedIn, Ops, Steps, DataInv, TypeOK
<1>5. ASSUME BlockUser(w) PROVE DataInv'
  <2>1. user' \in UserDoc
    BY <1>5 DEF BlockUser, DataInv, TypeOK, UserDoc
  <2> QED
    BY <1>5, <2>1, BeginKeepsData DEF BlockUser, Ops, Steps
<1>6. ASSUME DeleteUser(w) PROVE DataInv'
  BY <1>6, BeginKeepsData DEF DeleteUser, Ops, Steps, DataInv, TypeOK
<1>7. ASSUME NEW s \in Sessions, NEW op \in {"introspect", "verify"}, Check(w, s, op)
      PROVE  DataInv'
  <2> DEFINE j == [Idle EXCEPT !.at = "getToken", !.op = op, !.s = s,
                               !.late = (Age(s) = 3)]
  <2>1. (Age(s) = 3) \in BOOLEAN
    OBVIOUS
  <2>2. JobOK(j) /\ j.at # "setSecret"
    BY <2>1 DEF JobOK, Idle, Job, Ops, Steps, Key
  <2>3. Become(w, j) /\ UNCHANGED <<user, token, secret, info>>
    BY <1>7 DEF Check
  <2> HIDE DEF j
  <2> QED
    BY <2>2, <2>3, MoveKeepsData DEF DataInv, TypeOK
<1> QED
  BY <1>1, <1>2, <1>3, <1>4, <1>5, <1>6, <1>7 DEF Serve

LEMMA RevokeKeepsData ==
    ASSUME DataInv, NEW w \in Workers, DeleteToken(w) \/ DeleteSecret(w)
    PROVE  DataInv'
<1>1. JobOK(job[w])
  BY DEF DataInv
<1>2. CASE DeleteToken(w)
  <2> DEFINE j == [job[w] EXCEPT !.at = "deleteSecret"]
  <2>1. JobOK(j) /\ j.at # "setSecret"
    BY <1>1, <1>2 DEF JobOK, Job, Steps, DeleteToken, At
  <2>2. Become(w, j) /\ token' = None /\ UNCHANGED <<user, secret, info>>
    BY <1>2 DEF DeleteToken, Goto
  <2> HIDE DEF j
  <2> QED
    BY <2>1, <2>2, MoveKeepsData DEF DataInv, TypeOK
<1>3. CASE DeleteSecret(w)
  <2> DEFINE j == [job[w] EXCEPT !.at = AfterRevocation(job[w].op)]
  <2>1. JobOK(j) /\ j.at # "setSecret"
    BY <1>1, <1>3 DEF JobOK, Job, Steps, Ops, DeleteSecret, At, AfterRevocation
  <2>2. Become(w, j) /\ secret' = None /\ UNCHANGED <<user, token, info>>
    BY <1>3 DEF DeleteSecret, Goto
  <2> HIDE DEF j
  <2> QED
    BY <2>1, <2>2, MoveKeepsData DEF DataInv, TypeOK
<1> QED
  BY <1>2, <1>3

LEMMA ReadKeepsData ==
    ASSUME DataInv, NEW w \in Workers,
           \/ GetToken(w) \/ GetUser(w)
           \/ GetSecretToLogIn(w) \/ GetSecretToRefresh(w) \/ GetSecretToCheck(w)
    PROVE  DataInv'
<1>1. JobOK(job[w]) /\ token \in Key /\ secret \in Key
  BY DEF DataInv, TypeOK
<1>2. \E j : Become(w, j) /\ JobOK(j) /\ j.at # "setSecret"
  <2>1. CASE GetToken(w)
    <3> DEFINE j == [job[w] EXCEPT !.at = "getSecret", !.token = token]
    <3>1. JobOK(j) /\ j.at # "setSecret"
      BY <1>1, <2>1 DEF JobOK, Job, Steps, Key
    <3> HIDE DEF j
    <3> QED
      BY <2>1, <3>1 DEF GetToken, j
  <2>2. CASE GetUser(w)
    <3> DEFINE j == [job[w] EXCEPT !.at = "reply"]
    <3>1. JobOK(j) /\ j.at # "setSecret"
      BY <1>1, <2>2 DEF JobOK, Job, Steps
    <3>2. Become(w, j) \/ Become(w, Idle)
      BY <2>2 DEF GetUser, Goto, Finish
    <3> HIDE DEF j
    <3> QED
      BY <3>1, <3>2, IdleJobOK DEF Idle
  <2>3. CASE GetSecretToLogIn(w)
    <3> DEFINE j == [job[w] EXCEPT
          !.at = IF job[w].token # None /\ secret # None THEN "reply" ELSE "setToken",
          !.secret = secret]
    <3>1. JobOK(j) /\ j.at # "setSecret"
      BY <1>1, <2>3 DEF JobOK, Job, Steps, Key, GetSecretToLogIn
    <3> HIDE DEF j
    <3> QED
      BY <2>3, <3>1 DEF GetSecretToLogIn, j
  <2>4. CASE GetSecretToRefresh(w)
    <3> DEFINE j == [job[w] EXCEPT !.at = "deleteToken", !.s = secret,
                                   !.password = info[secret].password]
    <3>1. ASSUME secret # None PROVE JobOK(j) /\ j.at # "setSecret"
      <4>1. info[secret].password \in Passwords
        BY <3>1, IssuedClaims DEF DataInv, Claims
      <4> QED
        BY <1>1, <2>4, <4>1 DEF JobOK, Job, Steps, Key, GetSecretToRefresh
    <3>2. (secret # None /\ Become(w, j)) \/ Become(w, Idle)
      BY <2>4 DEF GetSecretToRefresh, Finish
    <3> HIDE DEF j
    <3> QED
      BY <3>1, <3>2, IdleJobOK DEF Idle
  <2>5. CASE GetSecretToCheck(w)
    <3> DEFINE at == IF job[w].op = "verify" THEN "reply" ELSE "getUser"
               j == [job[w] EXCEPT !.at = at]
    <3>1. JobOK(j) /\ j.at # "setSecret"
      BY <1>1, <2>5 DEF JobOK, Job, Steps, GetSecretToCheck
    <3>2. Become(w, j) \/ Become(w, Idle)
      BY <2>5 DEF GetSecretToCheck, Goto, Finish
    <3> HIDE DEF j
    <3> QED
      BY <3>1, <3>2, IdleJobOK DEF Idle
  <2> QED
    BY <2>1, <2>2, <2>3, <2>4, <2>5
<1>3. UNCHANGED <<user, token, secret, info>>
  BY DEF GetToken, GetUser, GetSecretToLogIn, GetSecretToRefresh, GetSecretToCheck
<1> QED
  BY <1>2, <1>3, MoveKeepsData DEF DataInv, TypeOK

LEMMA WriteKeepsData ==
    ASSUME DataInv, NEW w \in Workers,
           SetSecret(w) \/ RemoveUser(w) \/ \E s \in Sessions : SetToken(w, s)
    PROVE  DataInv'
<1>1. JobOK(job[w])
  BY DEF DataInv
<1>2. CASE SetSecret(w) \/ RemoveUser(w)
  <2> DEFINE j == [job[w] EXCEPT !.at = "reply"]
  <2>1. JobOK(j) /\ j.at # "setSecret"
    BY <1>1 DEF JobOK, Job, Steps
  <2>2. /\ Become(w, j)
        /\ token' = token /\ info' = info /\ secret' \in Issued \cup {None}
        /\ user' \in {user, NoUser}
    BY <1>2 DEF SetSecret, RemoveUser, Goto, DataInv, At
  <2> HIDE DEF j
  <2> QED
    BY <2>1, <2>2, MoveKeepsData DEF DataInv, TypeOK
<1>3. ASSUME NEW s \in Sessions, SetToken(w, s) PROVE DataInv'
  <2> DEFINE c == [id |-> job[w].id, password |-> job[w].password, current |-> TRUE]
             j == [job[w] EXCEPT !.at = "setSecret", !.token = s, !.secret = s]
  <2>1. c \in Claims
    BY <1>1, <1>3 DEF SetToken, At, JobOK, Claims
  <2>2. JobOK(j) /\ j.secret = s
    BY <1>1, <1>3 DEF JobOK, Job, Steps, Key
  <2>3. /\ info' = [info EXCEPT ![s] = c] /\ token' = s
        /\ job' = [job EXCEPT ![w] = j] /\ user' = user /\ secret' = secret
    BY <1>3 DEF SetToken, Become
  <2> HIDE DEF c, j
  <2>4. Issued' = Issued \cup {s}
    BY <2>1, <2>3, NoClaimsIsNone DEF Issued, DataInv, TypeOK
  <2>5. TypeOK'
    BY <2>1, <2>2, <2>3 DEF DataInv, TypeOK, JobOK, Key
  <2>6. \A v \in Workers : job'[v] = IF v = w THEN j ELSE job[v]
    BY <2>3 DEF DataInv, TypeOK
  <2> QED
    BY <2>2, <2>3, <2>4, <2>5, <2>6 DEF DataInv, At
<1> QED
  BY <1>2, <1>3

LEMMA EndKeepsData ==
    ASSUME DataInv, NEW w \in Workers, Reply(w) \/ Abort(w) \/ IgnoreRedisError(w)
    PROVE  DataInv'
<1>1. JobOK(job[w])
  BY DEF DataInv
<1>2. CASE Reply(w) \/ Abort(w)
  BY <1>2, IdleJobOK, MoveKeepsData DEF Reply, Abort, Finish, Idle, DataInv, TypeOK
<1>3. CASE IgnoreRedisError(w)
  <2>1. PICK step \in {"getToken", "setToken", "reply"} :
           /\ Goto(w, step)
           /\ step = "setToken" => job[w].op = "auth"
           /\ job[w].op \in {"auth", "password"}
    BY <1>3 DEF IgnoreRedisError
  <2> DEFINE j == [job[w] EXCEPT !.at = step]
  <2>2. JobOK(j) /\ j.at # "setSecret"
    BY <1>1, <2>1 DEF JobOK, Job, Steps
  <2>3. Become(w, j) /\ UNCHANGED <<user, token, secret, info>>
    BY <1>3, <2>1 DEF IgnoreRedisError, Goto
  <2> HIDE DEF j
  <2> QED
    BY <2>2, <2>3, MoveKeepsData DEF DataInv, TypeOK
<1> QED
  BY <1>2, <1>3

\* The steps that belong to no request.
Outside ==
    \/ \E i \in Ids, p \in Passwords : Create(i, p)
    \/ EnableUser \/ DisableUser
    \/ ExpireToken \/ ExpireSecret
    \/ \E s \in Sessions : ExpireClaims(s)

LEMMA OutsideKeepsData ==
    ASSUME DataInv, Outside
    PROVE  DataInv'
<1>1. CASE \E i \in Ids, p \in Passwords : Create(i, p)
  <2>1. user' \in UserDoc /\ UNCHANGED <<token, secret, info, job>>
    BY <1>1 DEF Create, UserDoc
  <2> QED
    BY <2>1 DEF DataInv, TypeOK, Issued, At
<1>2. CASE EnableUser \/ DisableUser
  <2>1. user # NoUser /\ UNCHANGED <<token, secret, info, job>>
    BY <1>2 DEF EnableUser, DisableUser, SignedIn
  <2>2. user' \in UserDoc
    BY <1>2, <2>1 DEF EnableUser, DisableUser, UserDoc, DataInv, TypeOK
  <2> QED
    BY <2>1, <2>2 DEF DataInv, TypeOK, Issued, At
<1>3. CASE ExpireToken \/ ExpireSecret
  BY <1>3 DEF ExpireToken, ExpireSecret, DataInv, TypeOK, Issued, At, Key
<1>4. ASSUME NEW s \in Sessions, ExpireClaims(s) PROVE DataInv'
  <2> DEFINE c == [info[s] EXCEPT !.current = FALSE]
  <2>1. c \in Claims
    BY <1>4, IssuedClaims DEF ExpireClaims, DataInv, Claims
  <2>2. info' = [info EXCEPT ![s] = c] /\ UNCHANGED <<user, token, secret, job>>
    BY <1>4 DEF ExpireClaims
  <2> HIDE DEF c
  <2>3. Issued' = Issued
    BY <1>4, <2>1, <2>2, NoClaimsIsNone DEF ExpireClaims, Issued, DataInv, TypeOK
  <2> QED
    BY <2>1, <2>2, <2>3 DEF DataInv, TypeOK, At
<1> QED
  BY <1>1, <1>2, <1>3, <1>4 DEF Outside

LEMMA DataInvInductive ==
    /\ Init => DataInv
    /\ DataInv /\ [Next]_vars => DataInv'
<1>1. ASSUME Init PROVE DataInv
  <2>1. Idle \in Job /\ Idle.at # "setSecret"
    BY IdleJobOK DEF JobOK, Idle
  <2>2. TypeOK
    BY <1>1, <2>1 DEF Init, TypeOK, Key
  <2> QED
    BY <1>1, <2>1, <2>2, IdleJobOK DEF Init, DataInv, At
<1>2. ASSUME DataInv, UNCHANGED vars PROVE DataInv'
  BY <1>2 DEF vars, DataInv, TypeOK, Issued, At
<1>3. ASSUME DataInv, Next PROVE DataInv'
  BY <1>3, ServeKeepsData, RevokeKeepsData, ReadKeepsData, WriteKeepsData,
     EndKeepsData, OutsideKeepsData DEF Next, Work, Fail, Outside
<1> QED
  BY <1>1, <1>2, <1>3

(* Documents, keys and requests keep their shape, whatever overlaps.       *)
THEOREM UserSessionsTyping == Spec => []TypeOK
<1>1. DataInv => TypeOK
  BY DEF DataInv
<1> QED
  BY <1>1, DataInvInductive, PTL DEF Spec

-----------------------------------------------------------------------------
\* All a step can do to the keys but draw a session or store its secret.
Quiet ==
    /\ \A s \in Sessions : info'[s] = NoClaims <=> info[s] = NoClaims
    /\ token' \in {token, None}
    /\ secret' \in {secret, None}
    /\ \A v \in Workers : job'[v].at = "setSecret" =>
          job[v].at = "setSecret" /\ job'[v].secret = job[v].secret

\* A step that is Quiet because only one request moves and it is not storing.
LEMMA MoveIsQuiet ==
    ASSUME DataInv, NEW w \in Workers, NEW j, Become(w, j), j.at # "setSecret",
           info' = info, token' \in {token, None}, secret' \in {secret, None}
    PROVE  Quiet
<1>1. \A v \in Workers : job'[v] = IF v = w THEN j ELSE job[v]
  BY DEF Become, DataInv, TypeOK
<1> QED
  BY <1>1 DEF Quiet

LEMMA ServeIsQuiet == ASSUME DataInv, NEW w \in Workers, Serve(w) PROVE Quiet
<1>1. \E j : Become(w, j) /\ j.at \in {"getToken", "deleteToken"}
  <2>1. ASSUME NEW p \in Passwords, NEW renew \in BOOLEAN, Auth(w, p, renew)
        PROVE  \E j : Become(w, j) /\ j.at \in {"getToken", "deleteToken"}
    <3> DEFINE at == IF renew THEN "deleteToken" ELSE "getToken"
               j == [Idle EXCEPT !.at = at, !.op = "auth", !.id = user.id, !.password = p]
    <3>1. j.at \in {"getToken", "deleteToken"}
      BY DEF Idle
    <3>2. Become(w, j)
      BY <2>1 DEF Auth
    <3> QED
      BY <3>1, <3>2
  <2>2. ASSUME NEW s \in Sessions, NEW op \in {"introspect", "verify"}, Check(w, s, op)
        PROVE  \E j : Become(w, j) /\ j.at \in {"getToken", "deleteToken"}
    <3> DEFINE j == [Idle EXCEPT !.at = "getToken", !.op = op, !.s = s,
                                 !.late = (Age(s) = 3)]
    <3>1. j.at = "getToken" /\ Become(w, j)
      BY <2>2 DEF Check, Idle
    <3> HIDE DEF j
    <3> QED
      BY <3>1
  <2>3. ASSUME NEW step \in {"getToken", "deleteToken"}, NEW op, Begin(w, step, op)
        PROVE  \E j : Become(w, j) /\ j.at \in {"getToken", "deleteToken"}
    <3> DEFINE j == [Idle EXCEPT !.at = step, !.op = op, !.id = user.id]
    <3>1. j.at = step /\ Become(w, j)
      BY <2>3 DEF Begin, Idle
    <3> HIDE DEF j
    <3> QED
      BY <3>1
  <2> QED
    BY <2>1, <2>2, <2>3
    DEF Serve, UpdatePassword, RefreshToken, Logout, BlockUser, DeleteUser
<1>2. UNCHANGED <<token, secret, info>>
  BY DEF Serve, Auth, UpdatePassword, RefreshToken, Logout, BlockUser, DeleteUser, Check
<1> QED
  BY <1>1, <1>2, MoveIsQuiet

LEMMA StepIsQuiet ==
    ASSUME DataInv, NEW w \in Workers,
           \/ DeleteToken(w) \/ DeleteSecret(w) \/ GetToken(w)
           \/ GetSecretToLogIn(w) \/ GetSecretToRefresh(w) \/ GetSecretToCheck(w)
           \/ GetUser(w) \/ RemoveUser(w) \/ Reply(w) \/ Abort(w) \/ IgnoreRedisError(w)
    PROVE  Quiet
<1>1. job[w] \in Job
  BY DEF DataInv, JobOK
<1>2. Idle.at # "setSecret"
  BY DEF Idle
<1>3. \A step \in Steps \ {"setSecret"} : Goto(w, step) =>
         \E j : Become(w, j) /\ j.at # "setSecret"
  BY <1>1 DEF Goto, Job
<1>4. \E j : Become(w, j) /\ j.at # "setSecret"
  <2>1. CASE GetToken(w)
    <3> DEFINE j == [job[w] EXCEPT !.at = "getSecret", !.token = token]
    <3>1. j.at = "getSecret" /\ Become(w, j)
      BY <1>1, <2>1 DEF GetToken, Job
    <3> HIDE DEF j
    <3> QED
      BY <3>1
  <2>2. CASE GetSecretToLogIn(w)
    <3> DEFINE at == IF job[w].token # None /\ secret # None THEN "reply" ELSE "setToken"
               j == [job[w] EXCEPT !.at = at, !.secret = secret]
    <3>1. Become(w, j) /\ j.at = at
      BY <1>1, <2>2 DEF GetSecretToLogIn, Job
    <3> HIDE DEF j
    <3> QED
      BY <3>1
  <2>3. CASE GetSecretToRefresh(w)
    <3> DEFINE j == [job[w] EXCEPT !.at = "deleteToken", !.s = secret,
                                   !.password = info[secret].password]
    <3>1. Become(w, j) \/ Become(w, Idle)
      BY <2>3 DEF GetSecretToRefresh, Finish
    <3>2. j.at = "deleteToken"
      BY <1>1 DEF Job
    <3> QED
      BY <1>2, <3>1, <3>2
  <2>4. CASE GetSecretToCheck(w) \/ GetUser(w)
    BY <1>2, <1>3, <2>4 DEF GetSecretToCheck, GetUser, Finish, Steps
  <2>5. CASE DeleteSecret(w)
    BY <1>1, <1>3, <2>5 DEF DeleteSecret, AfterRevocation, Steps
  <2>6. CASE DeleteToken(w) \/ RemoveUser(w)
    BY <1>3, <2>6 DEF DeleteToken, RemoveUser, Steps
  <2>7. CASE Reply(w) \/ Abort(w)
    BY <1>2, <2>7 DEF Reply, Abort, Finish
  <2>8. CASE IgnoreRedisError(w)
    BY <1>3, <2>8 DEF IgnoreRedisError, Steps
  <2> QED
    BY <2>1, <2>2, <2>3, <2>4, <2>5, <2>6, <2>7, <2>8
<1>5. info' = info /\ token' \in {token, None} /\ secret' \in {secret, None}
  BY DEF DeleteToken, DeleteSecret, GetToken, GetSecretToLogIn, GetSecretToRefresh,
         GetSecretToCheck, GetUser, RemoveUser, Reply, Abort, IgnoreRedisError
<1> QED
  BY <1>4, <1>5, MoveIsQuiet

LEMMA OutsideIsQuiet == ASSUME DataInv, Outside PROVE Quiet /\ job' = job
<1>1. CASE \E i \in Ids, p \in Passwords : Create(i, p)
  BY <1>1 DEF Create, Quiet
<1>2. CASE EnableUser \/ DisableUser \/ ExpireToken \/ ExpireSecret
  BY <1>2 DEF EnableUser, DisableUser, ExpireToken, ExpireSecret, Quiet
<1>3. ASSUME NEW s \in Sessions, ExpireClaims(s) PROVE Quiet /\ job' = job
  <2> DEFINE c == [info[s] EXCEPT !.current = FALSE]
  <2>1. c \in Claims
    BY <1>3, IssuedClaims DEF ExpireClaims, DataInv, Claims
  <2>2. info' = [info EXCEPT ![s] = c] /\ UNCHANGED <<user, token, secret, job>>
    BY <1>3 DEF ExpireClaims
  <2> HIDE DEF c
  <2> QED
    BY <1>3, <2>1, <2>2, NoClaimsIsNone DEF ExpireClaims, Issued, DataInv, TypeOK, Quiet
<1> QED
  BY <1>1, <1>2, <1>3 DEF Outside

(* Every step is quiet but the two writes of set_access_token.             *)
LEMMA StepKinds ==
    ASSUME DataInv, [Next]_vars
    PROVE  Quiet \/ \E w \in Workers : SetSecret(w) \/ \E s \in Sessions : SetToken(w, s)
<1>1. CASE UNCHANGED vars
  BY <1>1 DEF vars, Quiet
<1>2. CASE Next
  BY <1>2, ServeIsQuiet, StepIsQuiet, OutsideIsQuiet DEF Next, Work, Fail, Outside
<1> QED
  BY <1>1, <1>2

-----------------------------------------------------------------------------
Writers == \A w \in Workers : OneWriter(w)

LEMMA QuietFacts ==
    ASSUME DataInv, Quiet
    PROVE  /\ Issued' = Issued
           /\ \A s \in Sessions : Opening(s)' => Opening(s)
           /\ \A s \in Sessions : s = Live' => s = Live
           /\ \A s \in Sessions : secret' = s => secret = s
           /\ Writers => Writers'
<1>1. Issued' = Issued
  BY DEF Quiet, Issued
<1>2. \A s \in Sessions : Opening(s)' => Opening(s)
  BY DEF Quiet, Opening
<1>3. \A s \in Sessions : (s = Live' => s = Live) /\ (secret' = s => secret = s)
  BY NoneIsFresh DEF Quiet, Live
<1>4. Writers => Writers'
  <2>1. ASSUME Writers, NEW w \in Workers, At(w, "setSecret")' PROVE OneWriter(w)'
    <3>1. At(w, "setSecret") /\ job'[w].secret = job[w].secret
      BY <2>1 DEF Quiet, At
    <3>2. job[w].secret \in Issued /\ job[w].secret # secret
      BY <2>1, <3>1 DEF Writers, OneWriter
    <3>3. job'[w].secret # secret'
      BY <3>1, <3>2, NoneIsFresh DEF Quiet, Issued
    <3>4. \A v \in Workers \ {w} : job'[v].at = "setSecret" =>
             job'[v].secret # job'[w].secret
      BY <2>1, <3>1 DEF Quiet, Writers, OneWriter, At
    <3> QED
      BY <1>1, <3>1, <3>2, <3>3, <3>4 DEF OneWriter, At
  <2> QED
    BY <2>1 DEF Writers, OneWriter
<1> QED
  BY <1>1, <1>2, <1>3, <1>4

LEMMA SetSecretFacts ==
    ASSUME DataInv, Writers, NEW w \in Workers, SetSecret(w)
    PROVE  /\ Issued' = Issued
           /\ \A s \in Sessions : Opening(s)' => Opening(s)
           /\ \A s \in Sessions : s = Live' => s = Live \/ Opening(s)
           /\ \A s \in Sessions : secret' = s => secret = s \/ Opening(s)
           /\ Writers'
<1>1. job[w] \in Job /\ job[w].at = "setSecret"
  BY DEF SetSecret, At, DataInv, JobOK
<1>2. \A v \in Workers : job'[v] = IF v = w THEN [job[w] EXCEPT !.at = "reply"] ELSE job[v]
  BY DEF SetSecret, Goto, Become, DataInv, TypeOK
<1>3. job'[w].at = "reply"
  BY <1>1, <1>2 DEF Job
<1>4. secret' = job[w].secret /\ token' = token /\ info' = info
  BY DEF SetSecret
<1>5. \A s \in Sessions : Opening(s)' => Opening(s)
  BY <1>2, <1>3 DEF Opening
<1>6. \A s \in Sessions : secret' = s => Opening(s)
  BY <1>1, <1>4 DEF Opening
<1>7. \A s \in Sessions : s = Live' => secret' = s
  BY <1>4, NoneIsFresh DEF Live
<1>8. \A v \in Workers : At(v, "setSecret")' => v # w /\ job'[v] = job[v] /\ At(v, "setSecret")
  BY <1>2, <1>3 DEF At
<1>9. Writers'
  <2>1. ASSUME NEW v \in Workers, At(v, "setSecret")' PROVE OneWriter(v)'
    <3>1. v # w /\ job'[v] = job[v] /\ At(v, "setSecret")
      BY <1>8, <2>1
    <3>2. job[v].secret \in Issued' /\ job[v].secret # secret'
      BY <1>1, <1>4, <3>1 DEF Writers, OneWriter, At, Issued
    <3>3. \A u \in Workers \ {v} : job'[u].at = "setSecret" =>
             job'[u].secret # job[v].secret
      BY <1>8, <3>1 DEF Writers, OneWriter, At
    <3> QED
      BY <3>1, <3>2, <3>3 DEF OneWriter, At
  <2> QED
    BY <2>1 DEF Writers, OneWriter
<1> QED
  BY <1>4, <1>5, <1>6, <1>7, <1>9 DEF Issued

LEMMA SetTokenFacts ==
    ASSUME DataInv, Writers, NEW w \in Workers, NEW t \in Sessions, SetToken(w, t)
    PROVE  /\ t \notin Issued /\ Issued' = Issued \cup {t}
           /\ \A s \in Sessions \ {t} : Opening(s)' => Opening(s)
           /\ \A s \in Sessions : s = Live' => s = Live
           /\ secret' = secret
           /\ Writers'
<1> DEFINE c == [id |-> job[w].id, password |-> job[w].password, current |-> TRUE]
           j == [job[w] EXCEPT !.at = "setSecret", !.token = t, !.secret = t]
<1>1. job[w].at = "setToken" /\ JobOK(job[w])
  BY DEF SetToken, At, DataInv
<1>2. c \in Claims
  BY <1>1 DEF JobOK, Claims
<1>3. j.at = "setSecret" /\ j.secret = t
  BY <1>1 DEF JobOK, Job
<1>4. /\ t \notin Issued /\ info' = [info EXCEPT ![t] = c]
      /\ token' = t /\ secret' = secret /\ job' = [job EXCEPT ![w] = j]
  BY DEF SetToken, Become
<1> HIDE DEF c, j
<1>5. Issued' = Issued \cup {t}
  BY <1>2, <1>4, NoClaimsIsNone DEF Issued, DataInv, TypeOK
<1>6. \A v \in Workers : job'[v] = IF v = w THEN j ELSE job[v]
  BY <1>4 DEF DataInv, TypeOK
<1>7. \A s \in Sessions \ {t} : Opening(s)' => Opening(s)
  BY <1>3, <1>6 DEF Opening
<1>8. secret # t
  BY <1>4, NoneIsFresh DEF DataInv
<1>9. \A s \in Sessions : s = Live' => s = Live
  BY <1>4, <1>8, NoneIsFresh DEF Live
<1>10. \A v \in Workers \ {w} : At(v, "setSecret")' =>
          At(v, "setSecret") /\ job'[v] = job[v] /\ job[v].secret \in Issued
  BY <1>6 DEF At, DataInv
<1>11. Writers'
  <2>1. OneWriter(w)'
    BY <1>3, <1>4, <1>5, <1>6, <1>8, <1>10 DEF OneWriter, At
  <2>2. ASSUME NEW v \in Workers \ {w}, At(v, "setSecret")' PROVE OneWriter(v)'
    <3>1. At(v, "setSecret") /\ job'[v] = job[v] /\ job[v].secret \in Issued
      BY <1>10, <2>2
    <3>2. job[v].secret # secret' /\ job[v].secret # t
      BY <1>4, <3>1 DEF Writers, OneWriter
    <3>3. \A u \in Workers \ {v} : job'[u].at = "setSecret" =>
             job'[u].secret # job[v].secret
      BY <1>3, <1>6, <3>1, <3>2 DEF Writers, OneWriter, At
    <3> QED
      BY <1>5, <3>1, <3>2, <3>3 DEF OneWriter, At
  <2> QED
    BY <2>1, <2>2 DEF Writers, OneWriter
<1> QED
  BY <1>4, <1>5, <1>7, <1>9, <1>11

(* What every step does to a session that was drawn before it.             *)
LEMMA StepFacts ==
    ASSUME DataInv, Writers, [Next]_vars
    PROVE  /\ Issued \subseteq Issued'
           /\ \A s \in Issued : Opening(s)' => Opening(s)
           /\ \A s \in Issued : s = Live' => s = Live \/ Opening(s)
           /\ \A s \in Issued : secret' = s => secret = s \/ Opening(s)
           /\ Writers'
<1>1. Issued \subseteq Sessions
  BY DEF Issued
<1>2. CASE Quiet
  BY <1>1, <1>2, QuietFacts
<1>3. ASSUME NEW w \in Workers, SetSecret(w)
      PROVE  /\ Issued \subseteq Issued'
             /\ \A s \in Issued : Opening(s)' => Opening(s)
             /\ \A s \in Issued : s = Live' => s = Live \/ Opening(s)
             /\ \A s \in Issued : secret' = s => secret = s \/ Opening(s)
             /\ Writers'
  BY <1>1, <1>3, SetSecretFacts
<1>4. ASSUME NEW w \in Workers, NEW t \in Sessions, SetToken(w, t)
      PROVE  /\ Issued \subseteq Issued'
             /\ \A s \in Issued : Opening(s)' => Opening(s)
             /\ \A s \in Issued : s = Live' => s = Live \/ Opening(s)
             /\ \A s \in Issued : secret' = s => secret = s \/ Opening(s)
             /\ Writers'
  BY <1>1, <1>4, SetTokenFacts
<1> QED
  BY <1>2, <1>3, <1>4, StepKinds

LEMMA AgeIs ==
    ASSUME NEW s \in Sessions
    PROVE  /\ Age(s) \in 0..3
           /\ Age(s) = 0 <=> s \notin Issued
           /\ Age(s) = 1 <=> s \in Issued /\ s # Live /\ Opening(s)
           /\ Age(s) = 2 <=> s \in Issued /\ s = Live
           /\ Age(s) = 3 <=> s \in Issued /\ s # Live /\ ~Opening(s)
  BY DEF Age

LEMMA LiveIsNotOpening ==
    ASSUME DataInv, Writers, NEW s \in Sessions, s = Live
    PROVE  ~Opening(s)
<1>1. secret = s
  BY NoneIsFresh DEF Live
<1> QED
  BY <1>1 DEF Opening, Writers, OneWriter, At

LEMMA AgeMonotone ==
    ASSUME DataInv, Writers, [Next]_vars, NEW s \in Sessions
    PROVE  Age(s)' >= Age(s)
<1>1. /\ Age(s)' \in 0..3
      /\ Age(s)' = 0 <=> s \notin Issued'
      /\ Age(s)' = 1 <=> s \in Issued' /\ s # Live' /\ Opening(s)'
      /\ Age(s)' = 2 <=> s \in Issued' /\ s = Live'
  BY DEF Age
<1>2. CASE Age(s) = 0
  BY <1>1, <1>2
<1>3. CASE Age(s) = 1
  BY <1>1, <1>3, AgeIs, StepFacts
<1>4. CASE Age(s) = 2
  BY <1>1, <1>4, AgeIs, StepFacts, LiveIsNotOpening
<1>5. CASE Age(s) = 3
  BY <1>1, <1>5, AgeIs, StepFacts
<1> QED
  BY <1>2, <1>3, <1>4, <1>5, AgeIs

-----------------------------------------------------------------------------
Rejecting == \A w \in Workers : StaysRejected(w)

\* A check that came too late keeps its place, has just come in, or has just
\* read the token.
LateKinds(v) ==
    job'[v].late =>
        \/ job'[v] = job[v]
        \/ \E s \in Sessions, op \in {"introspect", "verify"} : Check(v, s, op)
        \/ GetToken(v)

LEMMA OthersKeepTheirPlace ==
    ASSUME DataInv, NEW w \in Workers, NEW j, Become(w, j),
           NEW v \in Workers, w # v \/ ~j.late
    PROVE  LateKinds(v)
  BY DEF Become, DataInv, TypeOK, LateKinds

LEMMA ServeIsLate ==
    ASSUME DataInv, NEW w \in Workers, NEW v \in Workers, Serve(w)
    PROVE  LateKinds(v)
<1>1. ASSUME NEW p \in Passwords, NEW renew \in BOOLEAN, Auth(w, p, renew)
      PROVE  LateKinds(v)
  <2> DEFINE at == IF renew THEN "deleteToken" ELSE "getToken"
             j == [Idle EXCEPT !.at = at, !.op = "auth", !.id = user.id, !.password = p]
  <2>1. ~j.late
    BY DEF Idle
  <2>2. Become(w, j)
    BY <1>1 DEF Auth
  <2> HIDE DEF j
  <2> QED
    BY <2>1, <2>2, OthersKeepTheirPlace
<1>2. ASSUME NEW step, NEW op, Begin(w, step, op) PROVE LateKinds(v)
  <2> DEFINE j == [Idle EXCEPT !.at = step, !.op = op, !.id = user.id]
  <2>1. ~j.late
    BY DEF Idle
  <2>2. Become(w, j)
    BY <1>2 DEF Begin
  <2> HIDE DEF j
  <2> QED
    BY <2>1, <2>2, OthersKeepTheirPlace
<1>3. ASSUME NEW s \in Sessions, NEW op \in {"introspect", "verify"}, Check(w, s, op)
      PROVE  LateKinds(v)
  BY <1>3 DEF Check, Become, DataInv, TypeOK, LateKinds
<1> QED
  BY <1>1, <1>2, <1>3
  DEF Serve, UpdatePassword, RefreshToken, Logout, BlockUser, DeleteUser

LEMMA GotoIsLate ==
    ASSUME DataInv, NEW w \in Workers, NEW v \in Workers, ~job[w].late,
           NEW step, Goto(w, step)
    PROVE  LateKinds(v)
<1> DEFINE j == [job[w] EXCEPT !.at = step]
<1>1. ~j.late
  BY DEF DataInv, JobOK, Job
<1>2. Become(w, j)
  BY DEF Goto
<1> HIDE DEF j
<1> QED
  BY <1>1, <1>2, OthersKeepTheirPlace

LEMMA StepIsLate ==
    ASSUME DataInv, Rejecting, NEW w \in Workers, NEW v \in Workers,
           \/ DeleteToken(w) \/ DeleteSecret(w) \/ GetToken(w)
           \/ GetSecretToLogIn(w) \/ GetSecretToRefresh(w) \/ GetSecretToCheck(w)
           \/ GetUser(w) \/ SetSecret(w) \/ RemoveUser(w) \/ Reply(w) \/ Abort(w)
           \/ IgnoreRedisError(w) \/ \E s \in Sessions : SetToken(w, s)
    PROVE  LateKinds(v)
<1>1. job[w] \in Job
  BY DEF DataInv, JobOK
<1>2. job[w].late =>
         job[w].op \in {"introspect", "verify"} /\ job[w].at \in {"getToken", "getSecret"}
  BY DEF Rejecting, StaysRejected
<1>3. ASSUME Finish(w) PROVE LateKinds(v)
  BY <1>3, OthersKeepTheirPlace DEF Finish, Idle
<1>4. CASE \/ DeleteToken(w) \/ DeleteSecret(w) \/ GetUser(w) \/ SetSecret(w)
           \/ RemoveUser(w) \/ Reply(w) \/ Abort(w) \/ IgnoreRedisError(w)
  <2>1. \/ Finish(w)
        \/ ~job[w].late /\ \E step : Goto(w, step)
    BY <1>2, <1>4
    DEF DeleteToken, DeleteSecret, GetUser, SetSecret, RemoveUser, Reply, Abort,
        IgnoreRedisError, At
  <2> QED
    BY <1>3, <2>1, GotoIsLate
<1>5. CASE GetToken(w)
  BY <1>5 DEF GetToken, Become, DataInv, TypeOK, LateKinds
<1>6. CASE GetSecretToLogIn(w)
  <2> DEFINE at == IF job[w].token # None /\ secret # None THEN "reply" ELSE "setToken"
             j == [job[w] EXCEPT !.at = at, !.secret = secret]
  <2>1. ~j.late /\ Become(w, j)
    BY <1>1, <1>2, <1>6 DEF GetSecretToLogIn, Job
  <2> HIDE DEF j
  <2> QED
    BY <2>1, OthersKeepTheirPlace
<1>7. CASE GetSecretToRefresh(w)
  <2> DEFINE j == [job[w] EXCEPT !.at = "deleteToken", !.s = secret,
                                 !.password = info[secret].password]
  <2>1. ~j.late
    BY <1>1, <1>2, <1>7 DEF GetSecretToRefresh, Job
  <2>2. Become(w, j) \/ Finish(w)
    BY <1>7 DEF GetSecretToRefresh
  <2> HIDE DEF j
  <2> QED
    BY <1>3, <2>1, <2>2, OthersKeepTheirPlace
<1>8. CASE GetSecretToCheck(w)
  <2>1. CASE job[w].late
    <3>1. job[w].s \in Issued /\ ~PairMatches(w, job[w].s)
      BY <1>8, <2>1, AgeIs DEF Rejecting, StaysRejected, GetSecretToCheck, PairMatches, At
    <3> QED
      BY <1>3, <1>8, <3>1 DEF GetSecretToCheck
  <2>2. CASE ~job[w].late
    <3>1. Finish(w) \/ \E step : Goto(w, step)
      BY <1>8 DEF GetSecretToCheck
    <3> QED
      BY <1>3, <2>2, <3>1, GotoIsLate
  <2> QED
    BY <2>1, <2>2
<1>9. ASSUME NEW s \in Sessions, SetToken(w, s) PROVE LateKinds(v)
  <2> DEFINE j == [job[w] EXCEPT !.at = "setSecret", !.token = s, !.secret = s]
  <2>1. ~j.late /\ Become(w, j)
    BY <1>1, <1>2, <1>9 DEF SetToken, At, Job
  <2> HIDE DEF j
  <2> QED
    BY <2>1, OthersKeepTheirPlace
<1> QED
  BY <1>4, <1>5, <1>6, <1>7, <1>8, <1>9

LEMMA RejectingIsKept ==
    ASSUME DataInv, Writers, Rejecting, [Next]_vars
    PROVE  Rejecting'
<1> SUFFICES ASSUME NEW v \in Workers, job'[v].late PROVE StaysRejected(v)'
  BY DEF Rejecting, StaysRejected
<1>1. LateKinds(v)
  <2>1. CASE UNCHANGED vars
    BY <2>1 DEF vars, LateKinds
  <2>2. CASE Outside
    BY <2>2, OutsideIsQuiet DEF LateKinds
  <2> QED
    BY <2>1, <2>2, ServeIsLate, StepIsLate DEF Next, Work, Fail, Outside
<1>2. ASSUME NEW s \in Sessions, Age(s) = 3
      PROVE  Age(s)' = 3 /\ (secret' = s => secret = s)
  <2>1. Age(s)' \in 0..3 /\ Age(s)' >= 3
    BY <1>2, AgeMonotone DEF Age
  <2> QED
    BY <1>2, <2>1, AgeIs, StepFacts
<1>3. CASE job'[v] = job[v]
  BY <1>2, <1>3 DEF Rejecting, StaysRejected, At
<1>4. ASSUME NEW s \in Sessions, NEW op \in {"introspect", "verify"}, Check(v, s, op)
      PROVE  StaysRejected(v)'
  <2> DEFINE late == (Age(s) = 3)
  <2>1. job'[v] = [Idle EXCEPT !.at = "getToken", !.op = op, !.s = s, !.late = late]
    BY <1>4 DEF Check, Become, DataInv, TypeOK
  <2>2. late => Age(s) = 3
    OBVIOUS
  <2> HIDE DEF late
  <2>3. job'[v].at = "getToken" /\ job'[v].op = op /\ job'[v].s = s /\ job'[v].late = late
    BY <2>1 DEF Idle
  <2> QED
    BY <1>2, <2>2, <2>3 DEF StaysRejected, At
<1>5. CASE GetToken(v)
  <2>1. job[v] \in Job /\ job'[v] = [job[v] EXCEPT !.at = "getSecret", !.token = token]
    BY <1>5 DEF GetToken, Become, DataInv, TypeOK
  <2>2. /\ job'[v].at = "getSecret" /\ job'[v].token = token
        /\ job'[v].op = job[v].op /\ job'[v].s = job[v].s /\ job[v].late
    BY <2>1 DEF Job
  <2>3. job[v].s \in Sessions /\ Age(job[v].s) = 3 /\ job[v].op \in {"introspect", "verify"}
    BY <2>2 DEF Rejecting, StaysRejected
  <2>4. token = job[v].s => secret # job[v].s
    BY <2>3, AgeIs DEF Live
  <2> QED
    BY <1>2, <2>2, <2>3, <2>4 DEF StaysRejected, At
<1> QED
  BY <1>1, <1>3, <1>4, <1>5 DEF LateKinds

(* The invariant that the runs check is inductive together with the shape  *)
(* of the data.                                                            *)
THEOREM SessionInvariant == Spec => [](DataInv /\ SessionInv)
<1>1. DataInv /\ SessionInv <=> DataInv /\ Writers /\ Rejecting
  BY DEF DataInv, SessionInv, Writers, Rejecting
<1>2. Init => Writers /\ Rejecting
  BY DEF Init, Idle, Writers, Rejecting, OneWriter, StaysRejected, At
<1>3. DataInv /\ Writers /\ Rejecting /\ [Next]_vars => Writers' /\ Rejecting'
  BY StepFacts, RejectingIsKept
<1> QED
  BY <1>1, <1>2, <1>3, DataInvInductive, PTL DEF Spec

(* A session that was replaced, revoked or has expired never becomes valid *)
(* again, whatever overlaps and wherever it fails.                         *)
THEOREM EndedSessionsStayEnded == Spec => SessionsOnlyAge
<1>1. DataInv /\ SessionInv /\ [Next]_vars => [\A s \in Sessions : Age(s)' >= Age(s)]_vars
  BY AgeMonotone DEF SessionInv, Writers
<1> QED
  BY <1>1, SessionInvariant, PTL DEF Spec, SessionsOnlyAge

(* introspect_session and verify never accept a session that had ended     *)
(* when they were asked.                                                   *)
THEOREM RevokedSessionsAreRejected == Spec => []RevokedIsRejected
<1>1. SessionInv => RevokedIsRejected
  BY DEF SessionInv, StaysRejected, RevokedIsRejected, At
<1> QED
  BY <1>1, SessionInvariant, PTL

-----------------------------------------------------------------------------
(* Why calm sessions are sound: what the one request that is being served  *)
(* has read or is about to write agrees with the document and the keys,    *)
(* and keys that the document does not match are about to be deleted.      *)
KeysGone == token = None /\ secret = None

\* s is a session of the present user.
OfPresentUser(s) == user # NoUser /\ info[s].id = user.id

\* The positions that each kind of request passes through.
InPlace(j) ==
    /\ j.at = "idle" => j = Idle
    /\ j.at \in {"setToken", "setSecret"} => j.op \in {"auth", "refresh"}
    /\ j.at = "deleteUser" => j.op = "delete"
    /\ j.at = "getUser" => j.op = "introspect"
    /\ j.op = "password" => j.at \in {"deleteToken", "deleteSecret", "reply"}

\* A request that revokes has deleted what it has passed.
RevokedSoFar(j) ==
    /\ j.at = "deleteSecret" => token = None
    /\ j.at = "deleteUser" => KeysGone
    /\ j.op = "password" /\ j.at = "reply" => KeysGone

\* The document is still the one that the request is about.
ForPresentUser(j) ==
    /\ j.op \in {"auth", "refresh"} => user # NoUser /\ j.id = user.id
    /\ j.op = "delete" /\ j.at # "reply" => user # NoUser /\ j.id = user.id
    /\ \/ j.op = "auth"
       \/ j.op = "refresh" /\ j.at \in {"deleteToken", "deleteSecret", "setToken"}
       => j.password = user.password

\* What has been read or drawn of the two keys belongs together.
PairInHand(j) ==
    /\ j.at = "getSecret" /\ j.token # None /\ secret # None => j.token = secret
    /\ j.at = "setSecret" =>
          /\ token \in {None, j.secret} /\ j.token = j.secret
          /\ OfPresentUser(j.secret) /\ info[j.secret].password = user.password
    /\ j.at = "reply" /\ j.op \in {"auth", "refresh"} =>
          j.token = j.secret /\ j.secret # None /\ OfPresentUser(j.secret)

Sound(j) == InPlace(j) /\ RevokedSoFar(j) /\ ForPresentUser(j) /\ PairInHand(j)

\* The keys as they may stand while j is the request being served.
KeysFit(j) ==
    /\ token # None /\ secret # None => token = secret \/ j.at = "setSecret"
    /\ \A s \in {token, secret} \ {None} :
          OfPresentUser(s) /\ (j.op = "password" \/ info[s].password = user.password)

KeysMatch ==
    token # None /\ secret # None =>
        token = secret \/ \E w \in Workers : At(w, "setSecret")

KeysCurrent ==
    \A s \in {token, secret} \ {None} :
        OfPresentUser(s) /\ (Revoking \/ info[s].password = user.password)

CalmInv == ~Overlapping /\ KeysMatch /\ KeysCurrent /\ \A w \in Workers : Sound(job[w])

Fits(w) == job[w] \in Job /\ Sound(job[w]) /\ KeysFit(job[w])

\* Only the request of w moves, and w serves one before or after the step.
Turn(w) ==
    /\ \A v \in Workers \ {w} : job'[v] = job[v]
    /\ ~At(w, "idle") \/ ~At(w, "idle")'

LEMMA IdleIsSound == Sound(Idle) /\ Sound(Idle)'
  BY DEF Sound, Idle, InPlace, RevokedSoFar, ForPresentUser, PairInHand

(* A request that is served alone sees keys that fit it.                   *)
LEMMA AloneFits ==
    ASSUME DataInv, CalmInv, ~Overlapping', NEW w \in Workers, Turn(w)
    PROVE  Fits(w) /\ \A v \in Workers \ {w} : job[v] = Idle
<1>1. \A v \in Workers \ {w} : job[v] = Idle
  <2>1. \A v \in Workers \ {w} : At(v, "idle")
    BY DEF Turn, CalmInv, Overlapping, At
  <2> QED
    BY <2>1 DEF CalmInv, Sound, InPlace, At
<1>2. Revoking => job[w].op = "password"
  BY <1>1 DEF Revoking, Idle
<1>3. (\E v \in Workers : At(v, "setSecret")) => job[w].at = "setSecret"
  BY <1>1 DEF At, Idle
<1> QED
  BY <1>1, <1>2, <1>3 DEF Fits, CalmInv, KeysFit, KeysMatch, KeysCurrent, DataInv, JobOK

LEMMA TurnStaysCalm ==
    ASSUME DataInv, CalmInv, ~Overlapping', NEW w \in Workers, Turn(w),
           Sound(job[w])', KeysFit(job[w])'
    PROVE  CalmInv'
<1>1. \A v \in Workers : Sound(job[v])'
  BY AloneFits, IdleIsSound DEF Turn
<1>2. KeysMatch' /\ KeysCurrent'
  BY DEF KeysFit, KeysMatch, KeysCurrent, Revoking, At
<1> QED
  BY <1>1, <1>2 DEF CalmInv

-----------------------------------------------------------------------------
\* All that a new request has to satisfy.
LEMMA BeginStaysCalm ==
    ASSUME DataInv, CalmInv, ~Overlapping', NEW w \in Workers, NEW j,
           At(w, "idle"), Become(w, j), UNCHANGED <<token, secret, info>>,
           j.at \in {"getToken", "deleteToken"},
           j.op = "password" => j.at = "deleteToken",
           user # NoUser, user' # NoUser, user'.id = user.id,
           j.op # "password" => user'.password = user.password,
           j.op \in {"auth", "refresh", "delete"} => j.id = user.id,
           j.op = "auth" => j.password = user.password,
           j.op = "refresh" => j.at = "getToken"
    PROVE  CalmInv'
<1>1. Turn(w) /\ job'[w] = j
  BY DEF Turn, Become, At, DataInv, TypeOK
<1>2. job[w] = Idle /\ Fits(w)
  BY <1>1, AloneFits DEF CalmInv, Sound, InPlace, At
<1>3. Sound(job[w])'
  BY <1>1 DEF Sound, InPlace, RevokedSoFar, ForPresentUser, PairInHand
<1>4. KeysFit(job[w])'
  BY <1>1, <1>2 DEF Fits, KeysFit, OfPresentUser, Idle
<1> QED
  BY <1>1, <1>3, <1>4, TurnStaysCalm

LEMMA ServeStaysCalm ==
    ASSUME DataInv, CalmInv, ~Overlapping', NEW w \in Workers, Serve(w)
    PROVE  CalmInv'
<1>1. ASSUME NEW p \in Passwords, NEW renew \in BOOLEAN, Auth(w, p, renew) PROVE CalmInv'
  <2> DEFINE at == IF renew THEN "deleteToken" ELSE "getToken"
             j == [Idle EXCEPT !.at = at, !.op = "auth", !.id = user.id, !.password = p]
  <2>1. /\ j.at \in {"getToken", "deleteToken"} /\ j.op = "auth"
        /\ j.id = user.id /\ j.password = user.password
    BY <1>1 DEF Idle, Auth
  <2>2. At(w, "idle") /\ Become(w, j) /\ user # NoUser /\ UNCHANGED <<user, token, secret, info>>
    BY <1>1 DEF Auth
  <2> HIDE DEF j
  <2> QED
    BY <2>1, <2>2, BeginStaysCalm
<1>2. ASSUME NEW step \in {"getToken", "deleteToken"}, NEW op, Begin(w, step, op),
             op = "password" => step = "deleteToken", op # "auth",
             op = "refresh" => step = "getToken",
             UNCHANGED <<token, secret, info>>, user # NoUser, user' # NoUser,
             user'.id = user.id, op # "password" => user'.password = user.password
      PROVE  CalmInv'
  <2> DEFINE j == [Idle EXCEPT !.at = step, !.op = op, !.id = user.id]
  <2>1. j.at = step /\ j.op = op /\ j.id = user.id
    BY DEF Idle
  <2>2. At(w, "idle") /\ Become(w, j)
    BY <1>2 DEF Begin
  <2> HIDE DEF j
  <2> QED
    BY <1>2, <2>1, <2>2, BeginStaysCalm
<1>3. ASSUME NEW p \in Passwords, UpdatePassword(w, p) PROVE CalmInv'
  <2>1. user' \in UserDoc /\ user'.id = user.id
    BY <1>3 DEF UpdatePassword, DataInv, TypeOK, UserDoc
  <2> QED
    BY <1>2, <1>3, <2>1, NoUserIsNone DEF UpdatePassword
<1>4. ASSUME RefreshToken(w) \/ Logout(w) PROVE CalmInv'
  BY <1>2, <1>4 DEF RefreshToken, Logout, SignedIn
<1>5. ASSUME BlockUser(w) PROVE CalmInv'
  <2>1. user' \in UserDoc /\ user'.id = user.id /\ user'.password = user.password
    BY <1>5 DEF BlockUser, DataInv, TypeOK, UserDoc
  <2> QED
    BY <1>2, <1>5, <2>1, NoUserIsNone DEF BlockUser
<1>6. ASSUME DeleteUser(w) PROVE CalmInv'
  BY <1>2, <1>6 DEF DeleteUser
<1>7. ASSUME NEW s \in Sessions, NEW op \in {"introspect", "verify"}, Check(w, s, op)
      PROVE  CalmInv'
  <2> DEFINE late == (Age(s) = 3)
             j == [Idle EXCEPT !.at = "getToken", !.op = op, !.s = s, !.late = late]
  <2>1. j.at = "getToken" /\ j.op = op
    BY DEF Idle
  <2>2. At(w, "idle") /\ Become(w, j) /\ UNCHANGED <<user, token, secret, info>>
    BY <1>7 DEF Check
  <2>3. Turn(w) /\ job'[w] = j
    BY <2>1, <2>2 DEF Turn, Become, At, DataInv, TypeOK
  <2> HIDE DEF j
  <2>4. job[w] = Idle /\ Fits(w)
    BY <2>2, <2>3, AloneFits DEF CalmInv, Sound, InPlace, At
  <2>5. Sound(job[w])'
    BY <2>1, <2>3 DEF Sound, InPlace, RevokedSoFar, ForPresentUser, PairInHand
  <2>6. KeysFit(job[w])'
    BY <2>1, <2>2, <2>3, <2>4 DEF Fits, KeysFit, OfPresentUser, Idle
  <2> QED
    BY <2>3, <2>5, <2>6, TurnStaysCalm
<1> QED
  BY <1>1, <1>3, <1>4, <1>5, <1>6, <1>7 DEF Serve

-----------------------------------------------------------------------------
\* The request that moves has a record of known fields.
LEMMA GotoIs ==
    ASSUME DataInv, NEW w \in Workers, ~At(w, "idle"), NEW step \in Steps, Goto(w, step)
    PROVE  /\ Turn(w)
           /\ job'[w].at = step
           /\ job'[w].op = job[w].op /\ job'[w].id = job[w].id
           /\ job'[w].password = job[w].password
           /\ job'[w].token = job[w].token /\ job'[w].secret = job[w].secret
<1>1. job[w] \in Job
  BY DEF DataInv, JobOK
<1>2. job'[w] = [job[w] EXCEPT !.at = step] /\ Turn(w)
  BY DEF Turn, Goto, Become, DataInv, TypeOK, At
<1> QED
  BY <1>1, <1>2 DEF Job

LEMMA FinishStaysCalm ==
    ASSUME DataInv, CalmInv, ~Overlapping', NEW w \in Workers, ~At(w, "idle"),
           Finish(w), UNCHANGED <<user, token, secret, info>>,
           job[w].op = "password" => At(w, "reply"),
           ~At(w, "setSecret")
    PROVE  CalmInv'
<1>1. Turn(w) /\ job'[w] = Idle
  BY DEF Turn, Finish, Become, DataInv, TypeOK, At
<1>2. Fits(w)
  BY <1>1, AloneFits
<1>3. KeysFit(job[w])'
  BY <1>1, <1>2 DEF Fits, Sound, RevokedSoFar, KeysGone, KeysFit, OfPresentUser, At
<1> QED
  BY <1>1, <1>3, IdleIsSound, TurnStaysCalm

LEMMA RevokeStaysCalm ==
    ASSUME DataInv, CalmInv, ~Overlapping', NEW w \in Workers,
           DeleteToken(w) \/ DeleteSecret(w)
    PROVE  CalmInv'
<1>1. CASE DeleteToken(w)
  <2>1. /\ Goto(w, "deleteSecret") /\ ~At(w, "idle") /\ job[w].at = "deleteToken"
        /\ token' = None /\ UNCHANGED <<user, secret, info>>
    BY <1>1 DEF DeleteToken, At
  <2>2. /\ Turn(w) /\ job'[w].at = "deleteSecret"
        /\ job'[w].op = job[w].op /\ job'[w].id = job[w].id
        /\ job'[w].password = job[w].password
    BY <2>1, GotoIs DEF Steps
  <2>3. Fits(w)
    BY <2>2, AloneFits
  <2>4. Sound(job[w])'
    BY <2>1, <2>2, <2>3
    DEF Fits, Sound, InPlace, RevokedSoFar, ForPresentUser, PairInHand
  <2>5. KeysFit(job[w])'
    BY <2>1, <2>2, <2>3 DEF Fits, KeysFit, OfPresentUser
  <2> QED
    BY <2>2, <2>4, <2>5, TurnStaysCalm
<1>2. CASE DeleteSecret(w)
  <2> DEFINE step == AfterRevocation(job[w].op)
  <2>1. /\ Goto(w, step) /\ ~At(w, "idle") /\ job[w].at = "deleteSecret"
        /\ secret' = None /\ UNCHANGED <<user, token, info>>
    BY <1>2 DEF DeleteSecret, At
  <2>2. /\ step \in {"getToken", "setToken", "deleteUser", "reply"}
        /\ job[w].op = "auth" => step = "getToken"
        /\ job[w].op = "refresh" => step = "setToken"
        /\ job[w].op = "password" => step = "reply"
        /\ job[w].op = "delete" => step = "deleteUser"
        /\ step = "setToken" => job[w].op = "refresh"
        /\ step = "deleteUser" => job[w].op = "delete"
    BY DEF AfterRevocation
  <2> HIDE DEF step
  <2>3. /\ Turn(w) /\ job'[w].at = step
        /\ job'[w].op = job[w].op /\ job'[w].id = job[w].id
        /\ job'[w].password = job[w].password
    BY <2>1, <2>2, GotoIs DEF Steps
  <2>4. Fits(w)
    BY <2>3, AloneFits
  <2>5. token' = None /\ secret' = None
    BY <2>1, <2>4 DEF Fits, Sound, RevokedSoFar
  <2>6. Sound(job[w])'
    BY <2>1, <2>2, <2>3, <2>4, <2>5
    DEF Fits, Sound, InPlace, RevokedSoFar, KeysGone, ForPresentUser, PairInHand
  <2>7. KeysFit(job[w])'
    BY <2>5 DEF KeysFit
  <2> QED
    BY <2>3, <2>6, <2>7, TurnStaysCalm
<1> QED
  BY <1>1, <1>2

LEMMA ReadStaysCalm ==
    ASSUME DataInv, CalmInv, ~Overlapping', NEW w \in Workers,
           \/ GetToken(w) \/ GetUser(w)
           \/ GetSecretToLogIn(w) \/ GetSecretToRefresh(w) \/ GetSecretToCheck(w)
    PROVE  CalmInv'
<1>1. /\ UNCHANGED <<user, token, secret, info>> /\ ~At(w, "idle") /\ ~At(w, "setSecret")
      /\ job[w].at \in {"getToken", "getSecret", "getUser"} /\ job[w] \in Job
  BY DEF GetToken, GetUser, GetSecretToLogIn, GetSecretToRefresh, GetSecretToCheck, At,
         DataInv, JobOK
<1>2. Sound(job[w])
  BY DEF CalmInv
<1>3. job[w].op # "password"
  BY <1>1, <1>2 DEF Sound, InPlace
<1>4. ASSUME Finish(w) PROVE CalmInv'
  BY <1>1, <1>3, <1>4, FinishStaysCalm
<1>5. CASE GetToken(w)
  <2>1. job'[w] = [job[w] EXCEPT !.at = "getSecret", !.token = token] /\ Turn(w)
    BY <1>1, <1>5 DEF GetToken, Become, DataInv, TypeOK, Turn
  <2>2. /\ job'[w].at = "getSecret" /\ job'[w].op = job[w].op /\ job'[w].id = job[w].id
        /\ job'[w].password = job[w].password /\ job'[w].token = token
    BY <1>1, <2>1 DEF Job
  <2>3. Fits(w) /\ job[w].at = "getToken"
    BY <1>5, <2>1, AloneFits DEF GetToken, At
  <2>4. Sound(job[w])'
    BY <1>1, <1>3, <2>2, <2>3
    DEF Fits, Sound, InPlace, RevokedSoFar, ForPresentUser, PairInHand, KeysFit
  <2>5. KeysFit(job[w])'
    BY <1>1, <2>2, <2>3 DEF Fits, KeysFit, OfPresentUser
  <2> QED
    BY <2>1, <2>4, <2>5, TurnStaysCalm
<1>6. ASSUME NEW step \in {"getUser", "reply"}, Goto(w, step),
             job[w].op \in {"introspect", "verify"},
             step = "getUser" => job[w].op = "introspect"
      PROVE  CalmInv'
  <2>1. /\ Turn(w) /\ job'[w].at = step
        /\ job'[w].op = job[w].op /\ job'[w].id = job[w].id
    BY <1>1, <1>6, GotoIs DEF Steps
  <2>2. Fits(w)
    BY <2>1, AloneFits
  <2>3. Sound(job[w])'
    BY <1>1, <1>3, <1>6, <2>1, <2>2
    DEF Fits, Sound, InPlace, RevokedSoFar, ForPresentUser, PairInHand
  <2>4. KeysFit(job[w])'
    BY <1>1, <2>1, <2>2 DEF Fits, KeysFit, OfPresentUser
  <2> QED
    BY <2>1, <2>3, <2>4, TurnStaysCalm
<1>7. CASE GetUser(w) \/ GetSecretToCheck(w)
  <2>1. CASE GetSecretToCheck(w)
    BY <1>4, <1>6, <2>1 DEF GetSecretToCheck
  <2>2. CASE GetUser(w)
    <3>1. job[w].op = "introspect"
      BY <1>2, <2>2 DEF GetUser, At, Sound, InPlace
    <3> QED
      BY <1>4, <1>6, <2>2, <3>1 DEF GetUser
  <2> QED
    BY <1>7, <2>1, <2>2
<1>8. CASE GetSecretToLogIn(w)
  <2> DEFINE at == IF job[w].token # None /\ secret # None THEN "reply" ELSE "setToken"
  <2>1. job'[w] = [job[w] EXCEPT !.at = at, !.secret = secret] /\ Turn(w)
    BY <1>1, <1>8 DEF GetSecretToLogIn, Become, DataInv, TypeOK, Turn
  <2>2. at \in {"reply", "setToken"} /\ (at = "reply" => job[w].token # None /\ secret # None)
    OBVIOUS
  <2> HIDE DEF at
  <2>3. /\ job'[w].at = at /\ job'[w].op = job[w].op /\ job'[w].id = job[w].id
        /\ job'[w].password = job[w].password
        /\ job'[w].token = job[w].token /\ job'[w].secret = secret
    BY <1>1, <2>1 DEF Job
  <2>4. Fits(w) /\ job[w].at = "getSecret" /\ job[w].op = "auth"
    BY <1>8, <2>1, AloneFits DEF GetSecretToLogIn, At
  <2>5. Sound(job[w])'
    BY <1>1, <2>2, <2>3, <2>4
    DEF Fits, Sound, InPlace, RevokedSoFar, ForPresentUser, PairInHand, KeysFit, OfPresentUser
  <2>6. KeysFit(job[w])'
    BY <1>1, <2>3, <2>4 DEF Fits, KeysFit, OfPresentUser
  <2> QED
    BY <2>1, <2>5, <2>6, TurnStaysCalm
<1>9. CASE GetSecretToRefresh(w) /\ ~Finish(w)
  <2> DEFINE p == info[secret].password
  <2>1. job'[w] = [job[w] EXCEPT !.at = "deleteToken", !.s = secret, !.password = p] /\ Turn(w)
    BY <1>1, <1>9 DEF GetSecretToRefresh, Become, DataInv, TypeOK, Turn
  <2>2. /\ job'[w].at = "deleteToken" /\ job'[w].op = job[w].op /\ job'[w].id = job[w].id
        /\ job'[w].password = info[secret].password
    BY <1>1, <2>1 DEF Job
  <2>3. Fits(w) /\ job[w].at = "getSecret" /\ job[w].op = "refresh" /\ secret # None
    BY <1>9, <2>1, AloneFits DEF GetSecretToRefresh, At
  <2>4. Sound(job[w])'
    BY <1>1, <2>2, <2>3
    DEF Fits, Sound, InPlace, RevokedSoFar, ForPresentUser, PairInHand, KeysFit, OfPresentUser
  <2>5. KeysFit(job[w])'
    BY <1>1, <2>2, <2>3 DEF Fits, KeysFit, OfPresentUser
  <2> QED
    BY <2>1, <2>4, <2>5, TurnStaysCalm
<1> QED
  BY <1>4, <1>5, <1>7, <1>8, <1>9

LEMMA WriteStaysCalm ==
    ASSUME DataInv, CalmInv, ~Overlapping', NEW w \in Workers,
           SetSecret(w) \/ RemoveUser(w)
    PROVE  CalmInv'
<1>1. CASE SetSecret(w)
  <2>1. /\ Goto(w, "reply") /\ ~At(w, "idle") /\ job[w].at = "setSecret"
        /\ secret' = job[w].secret /\ UNCHANGED <<user, token, info>>
        /\ job[w].secret \in Issued
    BY <1>1 DEF SetSecret, At, DataInv
  <2>2. /\ Turn(w) /\ job'[w].at = "reply"
        /\ job'[w].op = job[w].op /\ job'[w].id = job[w].id
        /\ job'[w].password = job[w].password
        /\ job'[w].token = job[w].token /\ job'[w].secret = job[w].secret
    BY <2>1, GotoIs DEF Steps
  <2>3. Fits(w) /\ job[w].secret # None
    BY <2>1, <2>2, AloneFits, NoneIsFresh DEF Issued
  <2>4. Sound(job[w])'
    BY <2>1, <2>2, <2>3
    DEF Fits, Sound, InPlace, RevokedSoFar, ForPresentUser, PairInHand, OfPresentUser
  <2>5. KeysFit(job[w])'
    BY <2>1, <2>2, <2>3
    DEF Fits, Sound, InPlace, PairInHand, KeysFit, OfPresentUser
  <2> QED
    BY <2>2, <2>4, <2>5, TurnStaysCalm
<1>2. CASE RemoveUser(w)
  <2>1. /\ Goto(w, "reply") /\ ~At(w, "idle") /\ job[w].at = "deleteUser"
        /\ UNCHANGED <<token, secret, info>>
    BY <1>2 DEF RemoveUser, At
  <2>2. /\ Turn(w) /\ job'[w].at = "reply" /\ job'[w].op = job[w].op
    BY <2>1, GotoIs DEF Steps
  <2>3. Fits(w)
    BY <2>2, AloneFits
  <2>4. job[w].op = "delete" /\ token' = None /\ secret' = None
    BY <2>1, <2>3 DEF Fits, Sound, InPlace, RevokedSoFar, KeysGone
  <2>5. Sound(job[w])'
    BY <2>2, <2>4 DEF Sound, InPlace, RevokedSoFar, KeysGone, ForPresentUser, PairInHand
  <2>6. KeysFit(job[w])'
    BY <2>4 DEF KeysFit
  <2> QED
    BY <2>2, <2>5, <2>6, TurnStaysCalm
<1> QED
  BY <1>1, <1>2

LEMMA DrawStaysCalm ==
    ASSUME DataInv, CalmInv, ~Overlapping', NEW w \in Workers, NEW s \in Sessions,
           SetToken(w, s)
    PROVE  CalmInv'
<1> DEFINE c == [id |-> job[w].id, password |-> job[w].password, current |-> TRUE]
           j == [job[w] EXCEPT !.at = "setSecret", !.token = s, !.secret = s]
<1>1. /\ info' = [info EXCEPT ![s] = c] /\ token' = s /\ UNCHANGED <<user, secret>>
      /\ s \notin Issued /\ job' = [job EXCEPT ![w] = j]
  BY DEF SetToken, Become
<1> job[w].at = "setToken"
  BY DEF SetToken, At
<1> job[w] \in Job
  BY DEF DataInv, JobOK
<1>2. /\ c.id = job[w].id /\ c.password = job[w].password
      /\ j.at = "setSecret" /\ j.op = job[w].op /\ j.id = job[w].id
      /\ j.password = job[w].password /\ j.token = s /\ j.secret = s
  BY DEF Job
<1> HIDE DEF c, j
<1>3. job'[w] = j /\ Turn(w)
  BY <1>1 DEF DataInv, TypeOK, Turn, At
<1>4. /\ job'[w].at = "setSecret" /\ job'[w].op = job[w].op /\ job'[w].id = job[w].id
      /\ job'[w].password = job[w].password
      /\ job'[w].token = s /\ job'[w].secret = s
  BY <1>2, <1>3
<1>5. /\ info'[s].id = job[w].id /\ info'[s].password = job[w].password
      /\ \A x \in Sessions \ {s} : info'[x] = info[x]
  BY <1>1, <1>2 DEF DataInv, TypeOK
<1>6. secret # s /\ secret \in Sessions \cup {None}
  BY <1>1, NoneIsFresh DEF DataInv, Issued
<1>7. Fits(w)
  BY <1>3, AloneFits
<1>8. /\ job[w].op \in {"auth", "refresh"} /\ user # NoUser
      /\ job[w].id = user.id /\ job[w].password = user.password
  BY <1>1, <1>7 DEF Fits, Sound, InPlace, ForPresentUser
<1>9. Sound(job[w])'
  BY <1>1, <1>4, <1>5, <1>8
  DEF Sound, InPlace, RevokedSoFar, ForPresentUser, PairInHand, OfPresentUser
<1>10. KeysFit(job[w])'
  BY <1>1, <1>4, <1>5, <1>6, <1>7, <1>8 DEF Fits, KeysFit, OfPresentUser
<1> QED
  BY <1>3, <1>9, <1>10, TurnStaysCalm

LEMMA ReplyStaysCalm ==
    ASSUME DataInv, CalmInv, ~Overlapping', NEW w \in Workers, Reply(w)
    PROVE  CalmInv'
  BY FinishStaysCalm DEF Reply, At

(* What belongs to no request leaves the keys and the requests alone, or   *)
(* takes a key away, or creates a user where there is neither.             *)
LEMMA OutsideStaysCalm ==
    ASSUME DataInv, CalmInv, ~Overlapping', Outside
    PROVE  CalmInv'
<1> DEFINE Same == user # NoUser => user' # NoUser /\ user'.id = user.id
                                    /\ user'.password = user.password
           SameClaims == \A s \in Sessions : info'[s].id = info[s].id
                                             /\ info'[s].password = info[s].password
<1>1. ASSUME Same, SameClaims, job' = job, token' \in {token, None}, secret' \in {secret, None},
             user = NoUser => user' = NoUser \/ UNCHANGED <<token, secret, info>>
      PROVE  CalmInv'
  <2>1. token \in Sessions \cup {None} /\ secret \in Sessions \cup {None}
    BY DEF DataInv, Issued
  <2>2. KeysMatch' /\ KeysCurrent'
    BY <1>1, <2>1 DEF CalmInv, KeysMatch, KeysCurrent, OfPresentUser, Revoking, At
  <2>3. ASSUME NEW w \in Workers PROVE Sound(job[w])'
    <3>1. Sound(job[w]) /\ job[w].secret \in Sessions \cup {None}
      BY DEF CalmInv, DataInv, JobOK, Job, Key
    <3>2. At(w, "setSecret") => job[w].secret \in Sessions
      BY DEF DataInv, Issued
    <3>3. InPlace(job[w])' /\ RevokedSoFar(job[w])' /\ ForPresentUser(job[w])'
      BY <1>1, <3>1 DEF Sound, InPlace, RevokedSoFar, KeysGone, ForPresentUser
    <3>4. PairInHand(job[w])'
      BY <1>1, <3>1, <3>2 DEF Sound, PairInHand, OfPresentUser, At
    <3> QED
      BY <3>3, <3>4 DEF Sound
  <2> QED
    BY <2>2, <2>3 DEF CalmInv
<1>2. CASE \E i \in Ids, p \in Passwords : Create(i, p)
  BY <1>1, <1>2 DEF Create
<1>3. CASE EnableUser \/ DisableUser
  <2>1. user \in UserDoc /\ UNCHANGED <<token, secret, info, job>>
    BY <1>3 DEF EnableUser, DisableUser, SignedIn, DataInv, TypeOK
  <2>2. user' \in UserDoc /\ user'.id = user.id /\ user'.password = user.password
    BY <1>3, <2>1 DEF EnableUser, DisableUser, UserDoc
  <2> QED
    BY <1>1, <2>1, <2>2, NoUserIsNone
<1>4. CASE ExpireToken \/ ExpireSecret
  BY <1>1, <1>4 DEF ExpireToken, ExpireSecret
<1>5. ASSUME NEW s \in Sessions, ExpireClaims(s) PROVE CalmInv'
  <2>1. /\ info[s] \in Claims /\ UNCHANGED <<user, token, secret, job>>
        /\ info' = [info EXCEPT ![s] = [info[s] EXCEPT !.current = FALSE]]
    BY <1>5, IssuedClaims DEF ExpireClaims, DataInv
  <2>2. SameClaims
    BY <2>1 DEF Claims, DataInv, TypeOK
  <2> QED
    BY <1>1, <2>1, <2>2
<1> QED
  BY <1>2, <1>3, <1>4, <1>5 DEF Outside

LEMMA CalmInvInductive ==
    /\ CalmInit => CalmInv
    /\ DataInv /\ (calm => CalmInv) /\ [CalmNext]_calmVars => (calm => CalmInv)'
<1>1. ASSUME CalmInit PROVE CalmInv
  <2>1. \A w \in Workers : job[w] = Idle
    BY <1>1 DEF CalmInit, Init
  <2>2. token = None /\ secret = None
    BY <1>1 DEF CalmInit, Init
  <2> QED
    BY <2>1, <2>2, IdleIsSound DEF CalmInv, Overlapping, KeysMatch, KeysCurrent, At, Idle
<1>2. ASSUME DataInv, calm => CalmInv, Work, calm /\ ~Overlapping' PROVE CalmInv'
  BY <1>2, ServeStaysCalm, RevokeStaysCalm, ReadStaysCalm, WriteStaysCalm,
     DrawStaysCalm, ReplyStaysCalm, OutsideStaysCalm DEF Work, Outside
<1>3. ASSUME calm => CalmInv, UNCHANGED calmVars PROVE (calm => CalmInv)'
  BY <1>3 DEF calmVars, vars, CalmInv, Overlapping, KeysMatch, KeysCurrent, Sound, InPlace,
     RevokedSoFar, KeysGone, ForPresentUser, PairInHand, OfPresentUser, Revoking, At
<1>4. ASSUME DataInv, calm => CalmInv, CalmNext PROVE calm' => CalmInv'
  <2>1. CASE Work /\ calm' = (calm /\ ~Overlapping')
    <3>1. calm' => calm /\ ~Overlapping'
      BY <2>1, Zenon
    <3> QED
      BY <1>2, <1>4, <2>1, <3>1
  <2>2. CASE Fail /\ calm' = FALSE
    BY <2>2
  <2> QED
    BY <1>4, <2>1, <2>2 DEF CalmNext
<1> QED
  BY <1>1, <1>3, <1>4

(* One request at a time and without failures, a login or a refresh        *)
(* answers a token with its secret and for the user that logged in, and    *)
(* the session in Redis is one of the present user and password.           *)
THEOREM CalmSessionsAreTheUsers == CalmSpec => []CalmSessionsAreSound
<1>1. CalmInit => Init
  BY DEF CalmInit
<1>2. [CalmNext]_calmVars => [Next]_vars
  BY DEF CalmNext, calmVars, Next
<1>3. CalmInv => CalmSessionsAreSound
  <2>1. CalmInv => LoginAnswersUsable
    BY DEF CalmInv, Sound, ForPresentUser, PairInHand, OfPresentUser, LoginAnswersUsable, At
  <2>2. CalmInv => LiveIsCurrent
    BY DEF CalmInv, KeysCurrent, OfPresentUser, LiveIsCurrent, Live
  <2> QED
    BY <2>1, <2>2 DEF CalmSessionsAreSound
<1>4. (calm => CalmInv) => CalmSessionsAreSound
  BY <1>3 DEF CalmSessionsAreSound
<1> QED
  BY <1>1, <1>2, <1>4, DataInvInductive, CalmInvInductive, PTL DEF CalmSpec
=============================================================================
