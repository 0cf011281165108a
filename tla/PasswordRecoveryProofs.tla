----------------------- MODULE PasswordRecoveryProofs -----------------------
(***************************************************************************)
(* Proofs about PasswordRecovery, for any number of requests,              *)
(* confirmations and deletions that overlap and stop anywhere.             *)
(***************************************************************************)
EXTENDS PasswordRecovery, TLAPS

(* What a request relies on at each await, about the tokens tk, the        *)
(* present user u and the answers an.                                      *)
JobOK(j, tk, u, an) ==
    /\ j.at \in {"invalidate", "createToken", "mail", "invalidateAgain", "deleteTokens",
                 "deleteUser"} => j.user \in UserIds
    /\ j.at \in {"mail", "setPassword", "markUsed", "revoke"} \/ j.hit # None =>
          j.t \in Tokens /\ tk[j.t].state # "none"
    /\ j.hit # None => j.at \in {"markUsed", "revoke"}
    /\ \A t \in j.old : tk[t].state # "none"
    /\ j.at = "invalidate" => \A t \in j.old : tk[t].user = j.user
    /\ j.at \in {"createToken", "mail"} => \A t \in j.old : tk[t].state # "active"
    /\ j.at \in {"invalidate", "createToken"} /\ ~j.late => j.user = u
    /\ j.at = "deleteUser" =>
          \A t \in Tokens : tk[t].user = j.user /\ tk[t].state = "active" => tk[t].late
    /\ j.at = "setPassword" /\ ~j.late /\ ~tk[j.t].late => u = tk[j.t].user
    /\ j.hit # None /\ ~j.late /\ ~tk[j.t].late => j.hit = tk[j.t].user
    /\ j.at = "revoke" => tk[j.t].state = "used" /\ an[j.t] = 0

(* A token is answered once and then used; one that works and met no       *)
(* deletion is of the present user.                                        *)
TokenOK(d, u, n) ==
    /\ n <= 1
    /\ n = 1 => d.state = "used"
    /\ d.state # "none" => d.user \in UserIds
    /\ d.state = "active" /\ ~d.late => u = d.user

(* Two confirmations that come to the end have different tokens.           *)
Apart(v, w) == job[v].at = "revoke" /\ job[w].at = "revoke" /\ job[v].t = job[w].t => v = w

IInv ==
    /\ TypeOK
    /\ \A t \in Tokens : TokenOK(token[t], user, answers[t])
    /\ \A w \in Workers : JobOK(job[w], token, user, answers)
    /\ \A v, w \in Workers : Apart(v, w)

(* What any step but CreateToken does to a token.                          *)
Aged(d, e) ==
    /\ e \in TokenDoc
    /\ e.user = d.user /\ e.late = d.late
    /\ \/ e.state = d.state
       \/ d.state \in {"active", "expired"} /\ e.state \in {"used", "expired", "removed"}

TokensAge == /\ token' \in [Tokens -> TokenDoc]
             /\ \A t \in Tokens : Aged(token[t], token'[t])

-----------------------------------------------------------------------------
LEMMA StillAges == ASSUME TypeOK, token' = token PROVE TokensAge
  BY DEF TypeOK, TokensAge, Aged

LEMMA InvalidationAges ==
    ASSUME TypeOK, NEW u, NEW T \in SUBSET Tokens, token' = Invalidated(u, T)
    PROVE  /\ TokensAge
           /\ \A t \in T : token[t].user = u => token'[t].state # "active"
<1>1. ASSUME NEW t \in Tokens
      PROVE  /\ token'[t] = IF t \in T /\ token[t].user = u /\ Unused(t)
                            THEN [token[t] EXCEPT !.state = "used"] ELSE token[t]
             /\ Aged(token[t], token'[t])
  BY DEF Invalidated, OfUser, TypeOK, TokenDoc, Aged, Unused, States
<1>2. token' \in [Tokens -> TokenDoc]
  BY <1>1 DEF Invalidated, Aged
<1>3. ASSUME NEW t \in T, token[t].user = u PROVE token'[t].state # "active"
  BY <1>1, <1>3 DEF Unused, TypeOK, TokenDoc
<1> QED
  BY <1>1, <1>2, <1>3 DEF TokensAge

LEMMA IdleOK == Idle \in Job /\ \A tk, u, an : JobOK(Idle, tk, u, an)
  BY DEF Idle, Job, JobOK, Steps

(* As tokens age, a request keeps what it relies on.                       *)
LEMMA AgingKeepsJob ==
    ASSUME TypeOK, TokensAge, NEW j \in Job, JobOK(j, token, user, answers)
    PROVE  j.at # "revoke" => JobOK(j, token', user, answers')
<1>1. \A t \in Tokens : /\ token'[t].user = token[t].user
                        /\ token'[t].late = token[t].late
                        /\ token'[t].state = "active" => token[t].state = "active"
                        /\ token'[t].state = "none" <=> token[t].state = "none"
  BY DEF TokensAge, Aged, TypeOK, TokenDoc, States
<1> QED
  BY <1>1 DEF JobOK, Job

(* A request that is about to answer keeps it as long as no other answers. *)
LEMMA AgingKeepsRevoke ==
    ASSUME TypeOK, TokensAge, NEW j \in Job, JobOK(j, token, user, answers),
           j.at = "revoke", answers'[j.t] = answers[j.t]
    PROVE  JobOK(j, token', user, answers')
<1>1. \A t \in Tokens : /\ token'[t].user = token[t].user
                        /\ token'[t].late = token[t].late
                        /\ token'[t].state = "none" <=> token[t].state = "none"
                        /\ token[t].state = "used" => token'[t].state = "used"
  BY DEF TokensAge, Aged, TypeOK, TokenDoc, States
<1> QED
  BY <1>1 DEF JobOK, Job

LEMMA AgingKeepsTokens ==
    ASSUME IInv, TokensAge, answers' = answers
    PROVE  \A t \in Tokens : TokenOK(token'[t], user, answers'[t])
  BY DEF IInv, TypeOK, TokensAge, Aged, TokenOK, TokenDoc, States

(* A step that moves one request on and draws no token.                    *)
LEMMA MoveKeeps ==
    ASSUME IInv, NEW w \in Workers, NEW j \in Job, Become(w, j), TokensAge,
           UNCHANGED <<user, born, answers>>, JobOK(j, token', user, answers'),
           j.at = "revoke" =>
              \A v \in Workers : job[v].at = "revoke" /\ job[v].t = j.t => v = w
    PROVE  IInv'
<1>1. \A v \in Workers : job'[v] = IF v = w THEN j ELSE job[v]
  BY DEF IInv, TypeOK, Become
<1>2. TypeOK'
  BY DEF IInv, TypeOK, Become, TokensAge
<1>3. \A v \in Workers : JobOK(job[v], token', user, answers')
  BY AgingKeepsJob, AgingKeepsRevoke DEF IInv, TypeOK
<1>4. \A v \in Workers : JobOK(job'[v], token', user', answers')
  BY <1>1, <1>3
<1>5. \A u, v \in Workers : Apart(u, v)'
  BY <1>1 DEF IInv, Apart
<1> QED
  BY <1>2, <1>4, <1>5, AgingKeepsTokens DEF IInv

LEMMA RequestKeeps ==
    ASSUME IInv, NEW w \in Workers,
           RequestRecovery(w) \/ Invalidate(w) \/ Mail(w) \/ MailFails(w) \/ InvalidateAgain(w)
    PROVE  IInv'
<1>1. TypeOK /\ job[w] \in Job /\ JobOK(job[w], token, user, answers)
  BY DEF IInv, TypeOK
<1>2. CASE RequestRecovery(w)
  <2> DEFINE j == [Idle EXCEPT !.at = "invalidate", !.user = user,
                               !.old = {t \in OfUser(user) : Active(t)}]
  <2>1. j \in Job /\ JobOK(j, token, user, answers) /\ j.at # "revoke"
    BY <1>1, <1>2 DEF RequestRecovery, Idle, Job, Steps, JobOK, OfUser, Active, TypeOK
  <2>2. Become(w, j) /\ UNCHANGED <<user, born, token, answers>>
    BY <1>2 DEF RequestRecovery
  <2> HIDE DEF j
  <2> QED
    BY <1>1, <2>1, <2>2, StillAges, MoveKeeps
<1>3. CASE Invalidate(w)
  <2> DEFINE j == [job[w] EXCEPT !.at = "createToken"]
  <2>1. TokensAge /\ \A t \in Tokens : token[t].user = job[w].user => token'[t].state # "active"
    BY <1>1, <1>3, InvalidationAges DEF Invalidate
  <2>2. JobOK(job[w], token', user, answers') /\ job[w].at = "invalidate"
    BY <1>1, <1>3, <2>1, AgingKeepsJob DEF Invalidate, At
  <2>3. j \in Job /\ j.at # "revoke" /\ job[w].old \subseteq Tokens
    BY <1>1 DEF Job, Steps
  <2>4. \A t \in job[w].old : token[t].user = job[w].user
    BY <1>1, <2>2 DEF JobOK
  <2>5. JobOK(j, token', user, answers')
    BY <1>1, <2>1, <2>2, <2>3, <2>4 DEF JobOK, Job
  <2>6. Become(w, j) /\ UNCHANGED <<user, born, answers>>
    BY <1>3 DEF Invalidate, Goto
  <2> HIDE DEF j
  <2> QED
    BY <2>1, <2>3, <2>5, <2>6, MoveKeeps
<1>4. CASE Mail(w)
  BY <1>1, <1>4, IdleOK, StillAges, MoveKeeps DEF Mail, Finish, Idle
<1>5. CASE MailFails(w)
  <2> DEFINE j == [job[w] EXCEPT !.at = "invalidateAgain"]
  <2>1. j \in Job /\ JobOK(j, token, user, answers) /\ j.at # "revoke"
    BY <1>1, <1>5 DEF MailFails, At, Job, Steps, JobOK
  <2>2. Become(w, j) /\ UNCHANGED <<user, born, token, answers>>
    BY <1>5 DEF MailFails, Goto
  <2> HIDE DEF j
  <2> QED
    BY <1>1, <2>1, <2>2, StillAges, MoveKeeps
<1>6. CASE InvalidateAgain(w)
  <2>1. TokensAge
    BY <1>1, <1>6, InvalidationAges, StillAges DEF InvalidateAgain
  <2> QED
    BY <1>6, <2>1, IdleOK, MoveKeeps DEF InvalidateAgain, Finish, Idle
<1> QED
  BY <1>2, <1>3, <1>4, <1>5, <1>6

LEMMA CreateTokenKeeps ==
    ASSUME IInv, NEW w \in Workers, NEW t \in Tokens, CreateToken(w, t)
    PROVE  IInv'
<1> DEFINE j == [job[w] EXCEPT !.at = "mail", !.t = t]
           late == job[w].late \/ \E v \in Workers : At(v, "deleteUser")
           d == [state |-> "active", user |-> job[w].user, late |-> late]
<1>1. /\ job[w] \in Job /\ JobOK(job[w], token, user, answers)
      /\ job[w].at = "createToken" /\ job[w].user \in UserIds /\ job[w].late \in BOOLEAN
      /\ token[t] = NoToken /\ token[t].state = "none"
      /\ UNCHANGED <<user, born, answers>>
  BY DEF IInv, TypeOK, CreateToken, At, JobOK, Job, NoToken
<1>2. \A v \in Workers : job'[v] = IF v = w THEN j ELSE job[v]
  BY DEF IInv, TypeOK, CreateToken, Become
<1>3. \A x \in Tokens : token'[x] = IF x = t THEN d ELSE token[x]
  BY DEF IInv, TypeOK, CreateToken
<1>4. d \in TokenDoc
  <2>1. late \in BOOLEAN
    BY <1>1
  <2> HIDE DEF late
  <2> QED
    BY <1>1, <2>1 DEF TokenDoc, States
<1>5. j \in Job
  BY <1>1 DEF Job, Steps
<1>6. TypeOK'
  <2>1. token' \in [Tokens -> TokenDoc]
    BY <1>3, <1>4 DEF CreateToken, IInv, TypeOK
  <2>2. job' \in [Workers -> Job]
    BY <1>2, <1>5 DEF CreateToken, Become, IInv, TypeOK
  <2> QED
    BY <1>1, <2>1, <2>2 DEF IInv, TypeOK
<1>7. ~late => job[w].user = user
  BY <1>1 DEF JobOK
<1>8. \A x \in Tokens : TokenOK(token'[x], user', answers'[x])
  <2>1. TokenOK(d, user, answers[t])
    BY <1>1, <1>7 DEF IInv, TokenOK, TypeOK
  <2> HIDE DEF d
  <2> QED
    BY <1>1, <1>3, <2>1 DEF IInv
<1>9. ASSUME NEW v \in Workers PROVE JobOK(job'[v], token', user', answers')
  <2>1. job[v] \in Job /\ JobOK(job[v], token, user, answers)
    BY DEF IInv, TypeOK
  <2>2. job[v].at = "deleteUser" => late
    BY DEF At
  <2> HIDE DEF late
  <2>3. d.state = "active" /\ d.user = job[w].user /\ d.late = late
    OBVIOUS
  <2> HIDE DEF d
  <2>4. CASE v = w
    <3>1. \A x \in job[w].old : x # t /\ token'[x] = token[x] /\ x \in Tokens
      BY <1>1, <1>3 DEF JobOK, Job
    <3>2. job'[v] = j /\ j.at = "mail" /\ j.user = job[w].user /\ j.t = t
          /\ j.old = job[w].old /\ j.hit = job[w].hit /\ j.late = job[w].late
      BY <1>1, <1>2, <2>4 DEF Job
    <3>3. token'[t].state = "active"
      BY <1>3, <2>3
    <3>4. job[w].hit = None
      BY <1>1 DEF JobOK
    <3> HIDE DEF j
    <3> QED
      BY <1>1, <3>1, <3>2, <3>3, <3>4 DEF JobOK
  <2>5. CASE v # w
    <3>1. job'[v] = job[v]
      BY <1>2, <2>5
    <3>2. \A x \in Tokens : token[x].state # "none" => token'[x] = token[x]
      BY <1>1, <1>3
    <3>3. \A x \in Tokens : token'[x] = token[x] \/ x = t
      BY <1>3
    <3>4. job[v].at = "deleteUser" => token'[t].late
      BY <1>3, <2>2, <2>3
    <3> QED
      BY <1>1, <2>1, <3>1, <3>2, <3>3, <3>4 DEF JobOK, Job
  <2> QED
    BY <2>4, <2>5
<1>10. \A u, v \in Workers : Apart(u, v)'
  <2>1. j.at # "revoke"
    BY <1>1 DEF Job
  <2> HIDE DEF j
  <2> QED
    BY <1>2, <2>1 DEF IInv, Apart
<1> QED
  BY <1>6, <1>8, <1>9, <1>10 DEF IInv

LEMMA ConfirmKeeps ==
    ASSUME IInv, NEW w \in Workers,
           (\E t \in Tokens : Confirm(w, t)) \/ SetPassword(w) \/ MarkUsed(w)
    PROVE  IInv'
<1>1. TypeOK /\ job[w] \in Job /\ JobOK(job[w], token, user, answers)
  BY DEF IInv, TypeOK
<1>2. ASSUME NEW t \in Tokens, Confirm(w, t) PROVE IInv'
  <2> DEFINE j == [Idle EXCEPT !.at = "setPassword", !.t = t]
  <2>1. TokenOK(token[t], user, answers[t]) /\ token[t].state = "active"
    BY <1>2 DEF IInv, Confirm, Active
  <2>2. j \in Job /\ JobOK(j, token, user, answers) /\ j.at # "revoke"
    BY <1>1, <2>1 DEF TokenOK, Idle, Job, Steps, JobOK
  <2>3. Become(w, j) /\ UNCHANGED <<user, born, token, answers>>
    BY <1>2 DEF Confirm
  <2> HIDE DEF j
  <2> QED
    BY <1>1, <2>2, <2>3, StillAges, MoveKeeps
<1>3. CASE SetPassword(w)
  <2> DEFINE j == [job[w] EXCEPT !.at = "markUsed", !.hit = user]
  <2>1. CASE user = None
    BY <1>1, <1>3, <2>1, IdleOK, StillAges, MoveKeeps DEF SetPassword, Finish, Idle
  <2>2. CASE user # None
    <3>1. j \in Job /\ JobOK(j, token, user, answers) /\ j.at # "revoke"
      BY <1>1, <1>3, <2>2 DEF SetPassword, At, Job, Steps, JobOK, TypeOK
    <3>2. Become(w, j) /\ UNCHANGED <<user, born, token, answers>>
      BY <1>3, <2>2 DEF SetPassword
    <3> HIDE DEF j
    <3> QED
      BY <1>1, <3>1, <3>2, StillAges, MoveKeeps
  <2> QED
    BY <2>1, <2>2
<1>4. CASE MarkUsed(w)
  <2> DEFINE j == [job[w] EXCEPT !.at = "revoke"]
             t == job[w].t
  <2>1. t \in Tokens /\ job[w].at = "markUsed"
    BY <1>1, <1>4 DEF MarkUsed, At, JobOK
  <2>2. CASE ~Unused(t)
    BY <1>1, <1>4, <2>2, IdleOK, StillAges, MoveKeeps DEF MarkUsed, Finish, Idle
  <2>3. CASE Unused(t)
    <3>1. token' = [token EXCEPT ![t].state = "used"] /\ Become(w, j)
          /\ UNCHANGED <<user, born, answers>>
      BY <1>4, <2>3 DEF MarkUsed, Goto
    <3>2. TokensAge
      BY <1>1, <2>1, <2>3, <3>1 DEF TokensAge, Aged, TypeOK, TokenDoc, States, Unused
    <3>3. token'[t].state = "used"
      BY <1>1, <2>1, <3>1 DEF TypeOK, TokenDoc
    <3>4. answers[t] = 0
      BY <1>1, <2>1, <2>3 DEF IInv, TypeOK, TokenOK, Unused
    <3>5. JobOK(job[w], token', user, answers')
      BY <1>1, <2>1, <3>2, AgingKeepsJob
    <3>6. j \in Job /\ j.t = t
      BY <1>1 DEF Job, Steps
    <3>7. JobOK(j, token', user, answers')
      BY <1>1, <2>1, <3>1, <3>3, <3>4, <3>5 DEF JobOK, Job
    <3>8. ASSUME NEW v \in Workers, job[v].at = "revoke", job[v].t = t PROVE v = w
      BY <2>3, <3>8 DEF IInv, JobOK, Unused
    <3> HIDE DEF j
    <3> QED
      BY <3>1, <3>2, <3>6, <3>7, <3>8, MoveKeeps
  <2> QED
    BY <2>2, <2>3
<1> QED
  BY <1>2, <1>3, <1>4

LEMMA RevokeKeeps == ASSUME IInv, NEW w \in Workers, Revoke(w) PROVE IInv'
<1> DEFINE t == job[w].t
<1>1. /\ job[w].at = "revoke" /\ t \in Tokens
      /\ token[t].state = "used" /\ answers[t] = 0
      /\ UNCHANGED <<user, born, token>>
  BY DEF Revoke, At, IInv, JobOK
<1>2. \A x \in Tokens : answers'[x] = IF x = t THEN 1 ELSE answers[x]
  BY <1>1 DEF Revoke, IInv, TypeOK
<1>3. \A v \in Workers : job'[v] = IF v = w THEN Idle ELSE job[v]
  BY DEF Revoke, Finish, Become, IInv, TypeOK
<1>4. TypeOK'
  BY <1>1, IdleOK DEF Revoke, Finish, Become, IInv, TypeOK
<1>5. \A x \in Tokens : TokenOK(token'[x], user', answers'[x])
  BY <1>1, <1>2 DEF IInv, TokenOK
<1>6. ASSUME NEW v \in Workers PROVE JobOK(job'[v], token', user', answers')
  <2>1. CASE v = w
    BY <1>3, <2>1, IdleOK
  <2>2. CASE v # w
    <3>1. job[v].at = "revoke" => job[v].t # t
      BY <1>1, <2>2 DEF IInv, Apart
    <3>2. job[v].at = "revoke" => answers'[job[v].t] = answers[job[v].t]
      BY <1>2, <3>1 DEF IInv, JobOK
    <3> QED
      BY <1>1, <1>3, <2>2, <3>2 DEF IInv, JobOK
  <2> QED
    BY <2>1, <2>2
<1>7. \A u, v \in Workers : Apart(u, v)'
  BY <1>3 DEF IInv, Apart, Idle
<1> QED
  BY <1>4, <1>5, <1>6, <1>7 DEF IInv

(* A request that met a deletion no longer relies on the present user.     *)
LEMMA LateKeepsJob ==
    ASSUME NEW j, NEW e, NEW tk, NEW u, NEW v, NEW an, JobOK(j, tk, u, an),
           e.at = j.at, e.user = j.user, e.t = j.t, e.old = j.old, e.hit = j.hit,
           e.late = TRUE
    PROVE  JobOK(e, tk, v, an)
  BY DEF JobOK

LEMMA DeletionKeeps ==
    ASSUME IInv, NEW w \in Workers, DeleteUser(w) \/ DeleteTokens(w) \/ DeleteDocument(w)
    PROVE  IInv'
<1>1. TypeOK /\ job[w] \in Job /\ JobOK(job[w], token, user, answers)
  BY DEF IInv, TypeOK
<1>2. CASE DeleteUser(w)
  <2> DEFINE j == [Idle EXCEPT !.at = "deleteTokens", !.user = user]
  <2>1. j \in Job /\ JobOK(j, token, user, answers) /\ j.at # "revoke"
    BY <1>1, <1>2 DEF DeleteUser, Idle, Job, Steps, JobOK, TypeOK
  <2>2. Become(w, j) /\ UNCHANGED <<user, born, token, answers>>
    BY <1>2 DEF DeleteUser
  <2> HIDE DEF j
  <2> QED
    BY <1>1, <2>1, <2>2, StillAges, MoveKeeps
<1>3. CASE DeleteTokens(w)
  <2> DEFINE j == [job[w] EXCEPT !.at = "deleteUser"]
  <2>1. TokensAge /\ \A t \in Tokens : token[t].user = job[w].user => token'[t].state # "active"
    BY <1>1, <1>3, InvalidationAges DEF DeleteTokens
  <2>2. \A t \in Tokens : token'[t].user = token[t].user
    BY <2>1 DEF TokensAge, Aged
  <2>3. JobOK(job[w], token', user, answers') /\ job[w].at = "deleteTokens"
    BY <1>1, <1>3, <2>1, AgingKeepsJob DEF DeleteTokens, At
  <2>4. j \in Job /\ j.at # "revoke"
    BY <1>1 DEF Job, Steps
  <2>5. JobOK(j, token', user, answers')
    BY <1>1, <2>1, <2>2, <2>3 DEF JobOK, Job
  <2>6. Become(w, j) /\ UNCHANGED <<user, born, answers>>
    BY <1>3 DEF DeleteTokens, Goto
  <2> HIDE DEF j
  <2> QED
    BY <2>1, <2>4, <2>5, <2>6, MoveKeeps
<1>4. CASE DeleteDocument(w)
  <2>1. /\ job[w].at = "deleteUser" /\ job[w].user \in UserIds
        /\ user' \in {user, None} /\ (user' # user => user = job[w].user)
        /\ UNCHANGED <<born, token, answers>>
    BY <1>1, <1>4 DEF DeleteDocument, At, JobOK
  <2>2. \A v \in Workers : /\ job'[v] \in Job
                           /\ \/ job'[v] = Idle
                              \/ v # w /\ job'[v] = [job[v] EXCEPT !.late = TRUE]
    BY <1>4, IdleOK DEF DeleteDocument, IInv, TypeOK, Job
  <2>3. TypeOK'
    BY <1>1, <1>4, <2>1, <2>2 DEF DeleteDocument, TypeOK
  <2>4. \A t \in Tokens : TokenOK(token'[t], user', answers'[t])
    <3>1. ASSUME NEW t \in Tokens, token[t].state = "active", ~token[t].late
          PROVE  user' = token[t].user
      <4>1. user = token[t].user
        BY <3>1 DEF IInv, TokenOK
      <4>2. token[t].user # job[w].user
        BY <1>1, <2>1, <3>1 DEF JobOK
      <4> QED
        BY <2>1, <4>1, <4>2
    <3> QED
      BY <2>1, <3>1 DEF IInv, TokenOK
  <2>5. ASSUME NEW v \in Workers PROVE JobOK(job'[v], token', user', answers')
    <3>1. CASE job'[v] = Idle
      BY <3>1, IdleOK
    <3>2. CASE job'[v] = [job[v] EXCEPT !.late = TRUE]
      <4>1. JobOK(job[v], token, user, answers) /\ job[v] \in Job
        BY DEF IInv, TypeOK
      <4>2. /\ job'[v].at = job[v].at /\ job'[v].user = job[v].user /\ job'[v].t = job[v].t
            /\ job'[v].old = job[v].old /\ job'[v].hit = job[v].hit /\ job'[v].late = TRUE
        BY <3>2, <4>1 DEF Job
      <4> QED
        BY <2>1, <4>1, <4>2, LateKeepsJob
    <3> QED
      BY <2>2, <3>1, <3>2
  <2>6. \A u, v \in Workers : Apart(u, v)'
    <3>1. ASSUME NEW v \in Workers, job'[v].at = "revoke"
          PROVE  job[v].at = "revoke" /\ job'[v].t = job[v].t
      <4>1. job'[v] = [job[v] EXCEPT !.late = TRUE]
        BY <2>2, <3>1 DEF Idle
      <4>2. job[v] \in Job
        BY DEF IInv, TypeOK
      <4> QED
        BY <3>1, <4>1, <4>2 DEF Job
    <3> QED
      BY <3>1 DEF IInv, Apart
  <2> QED
    BY <2>3, <2>4, <2>5, <2>6 DEF IInv
<1> QED
  BY <1>2, <1>3, <1>4

LEMMA CreateUserKeeps == ASSUME IInv, NEW u \in UserIds, CreateUser(u) PROVE IInv'
<1>1. user = None /\ user' = u /\ None \notin UserIds /\ UNCHANGED <<token, answers, job>>
  BY NoneIsFresh DEF CreateUser
<1>2. TypeOK'
  BY DEF CreateUser, IInv, TypeOK
<1>3. \A t \in Tokens : TokenOK(token'[t], user', answers'[t])
  BY <1>1 DEF IInv, TokenOK
<1>4. ASSUME NEW v \in Workers PROVE JobOK(job'[v], token', user', answers')
  <2>1. JobOK(job[v], token, user, answers)
    BY DEF IInv
  <2>2. job[v].at = "setPassword" => token[job[v].t].user \in UserIds
    BY <2>1 DEF JobOK, IInv, TokenOK
  <2> QED
    BY <1>1, <2>1, <2>2 DEF JobOK
<1>5. \A v, w \in Workers : Apart(v, w)'
  BY <1>1 DEF IInv, Apart
<1> QED
  BY <1>2, <1>3, <1>4, <1>5 DEF IInv

LEMMA AgeKeeps == ASSUME IInv, NEW t \in Tokens, Age(t) PROVE IInv'
<1>1. TypeOK /\ UNCHANGED <<user, born, answers, job>>
  BY DEF IInv, Age
<1>2. TokensAge
  BY <1>1 DEF TokensAge, Aged, TypeOK, TokenDoc, States, Unused, Active, Age
<1>3. TypeOK'
  BY <1>1, <1>2 DEF TypeOK, TokensAge
<1>4. \A w \in Workers : JobOK(job'[w], token', user', answers')
  BY <1>1, <1>2, AgingKeepsJob, AgingKeepsRevoke DEF IInv, TypeOK
<1>5. \A v, w \in Workers : Apart(v, w)'
  BY <1>1 DEF IInv, Apart
<1> QED
  BY <1>1, <1>2, <1>3, <1>4, <1>5, AgingKeepsTokens DEF IInv

-----------------------------------------------------------------------------
LEMMA InitEstablishes == Init => IInv
<1> SUFFICES ASSUME Init PROVE IInv
  OBVIOUS
<1>1. NoToken \in TokenDoc
  BY DEF NoToken, TokenDoc, States
<1>2. TypeOK
  BY <1>1, IdleOK DEF Init, TypeOK
<1>3. \A t \in Tokens : TokenOK(token[t], user, answers[t])
  BY DEF Init, TokenOK, NoToken
<1>4. \A w \in Workers : JobOK(job[w], token, user, answers)
  BY IdleOK DEF Init
<1>5. \A v, w \in Workers : Apart(v, w)
  BY DEF Init, Apart, Idle
<1> QED
  BY <1>2, <1>3, <1>4, <1>5 DEF IInv

LEMMA NextKeeps == IInv /\ [Next]_vars => IInv'
<1> SUFFICES ASSUME IInv, [Next]_vars PROVE IInv'
  OBVIOUS
<1>1. ASSUME NEW w \in Workers, Abort(w) PROVE IInv'
  BY <1>1, IdleOK, StillAges, MoveKeeps DEF Abort, Finish, Idle, IInv
<1>2. CASE UNCHANGED vars
  BY <1>2 DEF vars, IInv, TypeOK, Apart
<1> QED
  BY <1>1, <1>2, RequestKeeps, CreateTokenKeeps, ConfirmKeeps, RevokeKeeps, DeletionKeeps,
     CreateUserKeeps, AgeKeeps DEF Next

LEMMA RecoveryInvariant == Spec => []IInv
  BY InitEstablishes, NextKeeps, PTL DEF Spec

(* Documents and requests keep their shape whatever overlaps and stops.    *)
THEOREM RecoveryTyping == Spec => []TypeOK
<1>1. IInv => TypeOK
  BY DEF IInv
<1> QED
  BY <1>1, RecoveryInvariant, PTL

(* Of all the confirmations of confirm_password_recovery with one token,   *)
(* overlapping ones included, at most one is answered with success: only   *)
(* one of them can mark it used.                                           *)
THEOREM TokensAreAnsweredOnce == Spec => []AnsweredOnce
<1>1. IInv => AnsweredOnce
  BY DEF IInv, TokenOK, AnsweredOnce
<1> QED
  BY <1>1, RecoveryInvariant, PTL

(* Once the mail of request_password_recovery goes out, no link that       *)
(* worked when the request came in can be confirmed, whatever overlaps.    *)
THEOREM SupersededLinksAreDead == Spec => []SupersededIsDead
<1>1. IInv => SupersededIsDead
  BY DEF IInv, TypeOK, Job, JobOK, SupersededIsDead, At, Active
<1> QED
  BY <1>1, RecoveryInvariant, PTL

(* The password of a later user of the name is changed only if the         *)
(* confirmation, or the request of its link, met the deletion halfway.     *)
THEOREM LinksChangeTheirOwner == Spec => []ChangesItsOwner
<1>1. IInv => ChangesItsOwner
  BY DEF IInv, JobOK, ChangesItsOwner
<1> QED
  BY <1>1, RecoveryInvariant, PTL
=============================================================================
