-------------------------- MODULE PasswordRecovery --------------------------
(***************************************************************************)
(* Recovery of the password of one tenant username: the requests and the   *)
(* confirmations of UsersService over the collection of reset tokens, and  *)
(* the deletion of the user, which invalidates its tokens.  A token names  *)
(* the id of its user, but the password is set by username.                *)
(*                                                                         *)
(* Requests overlap and may stop at any await (Abort).  Passwords and      *)
(* sessions are those of UserSessions and left out.  What no collection    *)
(* keeps is there for the properties: who was answered (answers), what was *)
(* active when a request came in (old), and which tokens and requests met  *)
(* the deletion of the user halfway (late).                                *)
(***************************************************************************)
EXTENDS Naturals

CONSTANTS
    UserIds,  \* user.key: the username can be used again after a deletion
    Tokens,   \* all the tokens that are ever drawn
    Workers,
    None

ASSUME NoneIsFresh == None \notin UserIds \cup Tokens

VARIABLES
    user,     \* the id of the document of the username
    born,     \* ids that were ever given to a document
    token,    \* the document of each token
    answers,  \* how many confirmations with it were answered with success
    job

vars == <<user, born, token, answers, job>>

\* Unused tokens expire; the index on expires_at removes them some time later.
States == {"none", "active", "used", "expired", "removed"}
TokenDoc == [state: States, user: UserIds \cup {None}, late: BOOLEAN]
NoToken == [state |-> "none", user |-> None, late |-> FALSE]

Steps == {"idle", "invalidate", "createToken", "mail", "invalidateAgain", "setPassword",
          "markUsed", "revoke", "deleteTokens", "deleteUser"}
Job == [at: Steps, user: UserIds \cup {None}, t: Tokens \cup {None}, old: SUBSET Tokens,
        hit: UserIds \cup {None}, late: BOOLEAN]
Idle == [at |-> "idle", user |-> None, t |-> None, old |-> {}, hit |-> None, late |-> FALSE]

Init ==
    /\ user = None
    /\ born = {}
    /\ token = [t \in Tokens |-> NoToken]
    /\ answers = [t \in Tokens |-> 0]
    /\ job = [w \in Workers |-> Idle]

At(w, step) == job[w].at = step
Become(w, j) == job' = [job EXCEPT ![w] = j]
Goto(w, step) == Become(w, [job[w] EXCEPT !.at = step])
Finish(w) == Become(w, Idle)

Active(t) == token[t].state = "active"
Unused(t) == token[t].state \in {"active", "expired"}
OfUser(u) == {t \in Tokens : token[t].user = u}

\* Every unused token of the user in T.
Invalidated(u, T) ==
    [t \in Tokens |-> IF t \in T \cap OfUser(u) /\ Unused(t)
                      THEN [token[t] EXCEPT !.state = "used"] ELSE token[t]]

-----------------------------------------------------------------------------
\* create_user and sign-up.
CreateUser(u) ==
    /\ user = None
    /\ u \notin born
    /\ user' = u
    /\ born' = born \cup {u}
    /\ UNCHANGED <<token, answers, job>>

RequestRecovery(w) ==
    /\ At(w, "idle")
    /\ user # None
    /\ Become(w, [Idle EXCEPT !.at = "invalidate", !.user = user,
                              !.old = {t \in OfUser(user) : Active(t)}])
    /\ UNCHANGED <<user, born, token, answers>>

\* Mutant: update_one in the place of update_many.
Invalidate_One(w) ==
    /\ At(w, "invalidate")
    /\ LET found == {t \in OfUser(job[w].user) : Unused(t)}
       IN  IF found = {} THEN UNCHANGED token
           ELSE \E t \in found : token' = Invalidated(job[w].user, {t})
    /\ Goto(w, "createToken")
    /\ UNCHANGED <<user, born, answers>>

Invalidate(w) ==
    /\ At(w, "invalidate")
    /\ token' = Invalidated(job[w].user, Tokens)
    /\ Goto(w, "createToken")
    /\ UNCHANGED <<user, born, answers>>

CreateToken(w, t) ==
    /\ At(w, "createToken")
    /\ token[t] = NoToken
    /\ token' = [token EXCEPT ![t] =
                    [state |-> "active", user |-> job[w].user,
                     late |-> job[w].late \/ \E v \in Workers : At(v, "deleteUser")]]
    /\ Become(w, [job[w] EXCEPT !.at = "mail", !.t = t])
    /\ UNCHANGED <<user, born, answers>>

Mail(w) ==
    /\ At(w, "mail")
    /\ Finish(w)
    /\ UNCHANGED <<user, born, token, answers>>

MailFails(w) ==
    /\ At(w, "mail")
    /\ Goto(w, "invalidateAgain")
    /\ UNCHANGED <<user, born, token, answers>>

\* The result of this invalidation is ignored.
InvalidateAgain(w) ==
    /\ At(w, "invalidateAgain")
    /\ token' \in {token, Invalidated(job[w].user, Tokens)}
    /\ Finish(w)
    /\ UNCHANGED <<user, born, answers>>

-----------------------------------------------------------------------------
Confirm(w, t) ==
    /\ At(w, "idle")
    /\ Active(t)
    /\ Become(w, [Idle EXCEPT !.at = "setPassword", !.t = t])
    /\ UNCHANGED <<user, born, token, answers>>

\* By username, whoever has it now.
SetPassword(w) ==
    /\ At(w, "setPassword")
    /\ IF user = None THEN Finish(w)
       ELSE Become(w, [job[w] EXCEPT !.at = "markUsed", !.hit = user])
    /\ UNCHANGED <<user, born, token, answers>>

\* Mutant: the token is marked whether it was used or not.
MarkUsed_Again(w) ==
    /\ At(w, "markUsed")
    /\ token' = [token EXCEPT ![job[w].t].state = "used"]
    /\ Goto(w, "revoke")
    /\ UNCHANGED <<user, born, answers>>

MarkUsed(w) ==
    /\ At(w, "markUsed")
    /\ IF Unused(job[w].t)
       THEN /\ token' = [token EXCEPT ![job[w].t].state = "used"]
            /\ Goto(w, "revoke")
       ELSE UNCHANGED token /\ Finish(w)
    /\ UNCHANGED <<user, born, answers>>

\* Whether or not the session could be ended, the answer is success.
Revoke(w) ==
    /\ At(w, "revoke")
    /\ answers' = [answers EXCEPT ![job[w].t] = @ + 1]
    /\ Finish(w)
    /\ UNCHANGED <<user, born, token>>

-----------------------------------------------------------------------------
(* The steps of delete_user that matter here. *)

DeleteUser(w) ==
    /\ At(w, "idle")
    /\ user # None
    /\ Become(w, [Idle EXCEPT !.at = "deleteTokens", !.user = user])
    /\ UNCHANGED <<user, born, token, answers>>

\* Mutant: the tokens of the user are left active.
DeleteTokens_Skipped(w) ==
    /\ At(w, "deleteTokens")
    /\ Goto(w, "deleteUser")
    /\ UNCHANGED <<user, born, token, answers>>

DeleteTokens(w) ==
    /\ At(w, "deleteTokens")
    /\ token' = Invalidated(job[w].user, Tokens)
    /\ Goto(w, "deleteUser")
    /\ UNCHANGED <<user, born, answers>>

DeleteDocument(w) ==
    /\ At(w, "deleteUser")
    /\ user' = IF user = job[w].user THEN None ELSE user
    /\ job' = [v \in Workers |-> IF v = w \/ job[v] = Idle THEN Idle
                                 ELSE [job[v] EXCEPT !.late = TRUE]]
    /\ UNCHANGED <<born, token, answers>>

-----------------------------------------------------------------------------
Age(t) ==
    /\ Unused(t)
    /\ token' = [token EXCEPT ![t].state = IF Active(t) THEN "expired" ELSE "removed"]
    /\ UNCHANGED <<user, born, answers, job>>

Abort(w) ==
    /\ ~At(w, "idle")
    /\ Finish(w)
    /\ UNCHANGED <<user, born, token, answers>>

Next ==
    \/ \E u \in UserIds : CreateUser(u)
    \/ \E t \in Tokens : Age(t)
    \/ \E w \in Workers :
          \/ RequestRecovery(w) \/ Invalidate(w)
          \/ \E t \in Tokens : CreateToken(w, t) \/ Confirm(w, t)
          \/ Mail(w) \/ MailFails(w) \/ InvalidateAgain(w)
          \/ SetPassword(w) \/ MarkUsed(w) \/ Revoke(w)
          \/ DeleteUser(w) \/ DeleteTokens(w) \/ DeleteDocument(w)
          \/ Abort(w)

Spec == Init /\ [][Next]_vars

-----------------------------------------------------------------------------
(* Properties *)

TypeOK ==
    /\ user \in UserIds \cup {None}
    /\ born \subseteq UserIds
    /\ token \in [Tokens -> TokenDoc]
    /\ answers \in [Tokens -> Nat]
    /\ job \in [Workers -> Job]

\* Of all the confirmations with one token, overlapping ones that each found
\* it active included, at most one is ever answered with success.
AnsweredOnce == \A t \in Tokens : answers[t] <= 1

\* A request for recovery ends every link that worked when it came in: once
\* its mail goes out none of them can be confirmed.
SupersededIsDead == \A w \in Workers : At(w, "mail") => \A t \in job[w].old : ~Active(t)

\* A link changes the password of the user it was drawn for and of no later
\* user of the name, unless the confirmation, or the request the link comes
\* from, was under way while the user was being deleted.
ChangesItsOwner == \A w \in Workers :
    job[w].hit # None /\ ~job[w].late /\ ~token[job[w].t].late =>
        job[w].hit = token[job[w].t].user
=============================================================================
