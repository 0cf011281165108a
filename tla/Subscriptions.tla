---------------------------- MODULE Subscriptions ----------------------------
(***************************************************************************)
(* Users, scopes and licences: the creation of users and sign-up of        *)
(* UsersService, ScopesService and LicensesService.  None of these         *)
(* collections has a unique index.  Scope assignments and licences are     *)
(* counted per username and scope, because one deletion removes one        *)
(* document: a sign-up that failed leaves its assignment behind, and a     *)
(* failing deletion of the old licence is ignored.  MaxCopies bounds the   *)
(* count.  The text, the validity and the expiry of a licence are left     *)
(* out: whether the present one is still valid is a choice.                *)
(***************************************************************************)
EXTENDS UserDirectory

CONSTANT MaxCopies
ASSUME MaxCopiesAssumption == MaxCopies \in Nat \ {0}

VARIABLES
    scopes,    \* the scopes that exist
    assigned,  \* documents that assign a scope to a username
    licences   \* licence documents of a username for a scope

subscriptionVars == <<scopes, assigned, licences>>

More(docs, n, s) == docs' = [docs EXCEPT ![<<n, s>>] = @ + 1]
Fewer(docs, n, s) == docs' = [docs EXCEPT ![<<n, s>>] = @ - 1]
Purged(docs, n) == [p \in DOMAIN docs |-> IF p[1] = n THEN 0 ELSE docs[p]]

-----------------------------------------------------------------------------
(* Users *)

Register(w, op, n, s, step) ==
    Become(w, [Idle EXCEPT !.at = step, !.op = op, !.name = n, !.scope = s])

CreateUser(w, n) ==
    /\ Free(w)
    /\ FindByUsername(n) = {}
    /\ Register(w, "create", n, None, "insertUser")
    /\ UNCHANGED <<userVars, subscriptionVars>>

SignUp(w, n, s) ==
    /\ Free(w)
    /\ FindByUsername(n) = {}
    /\ Register(w, "signup", n, s, "findScope")
    /\ UNCHANGED <<userVars, subscriptionVars>>

SignUpFindScope(w) ==
    /\ At(w, "findScope")
    /\ IF job[w].scope \in scopes THEN Goto(w, "insertUser") ELSE Finish(w)
    /\ UNCHANGED <<userVars, subscriptionVars>>

InsertUser(w, u) ==
    /\ At(w, "insertUser")
    /\ nameOf[u] = None
    /\ users' = users \cup {u}
    /\ nameOf' = [nameOf EXCEPT ![u] = job[w].name]
    /\ IF job[w].op = "create" THEN Finish(w)
       ELSE Become(w, [job[w] EXCEPT !.at = "insertAssignment", !.user = u])
    /\ UNCHANGED subscriptionVars

\* The scope or the licence could not be stored.
SignUpFails(w) ==
    /\ job[w].op = "signup"
    /\ job[w].at \in {"insertAssignment", "insertLicence"}
    /\ Goto(w, "rollback")
    /\ UNCHANGED <<userVars, subscriptionVars>>

\* The assignment of the scope is not taken back.
SignUpRollback(w) ==
    /\ At(w, "rollback")
    /\ users' = users \ {job[w].user}
    /\ Answer(w, FALSE)
    /\ UNCHANGED <<nameOf, subscriptionVars>>

-----------------------------------------------------------------------------
(* Scopes *)

CreateScope(w, s) ==
    /\ Free(w)
    /\ s \notin scopes
    /\ Become(w, [Idle EXCEPT !.at = "insertScope", !.scope = s])
    /\ UNCHANGED <<userVars, subscriptionVars>>

InsertScope(w) ==
    /\ At(w, "insertScope")
    /\ scopes' = scopes \cup {job[w].scope}
    /\ Finish(w)
    /\ UNCHANGED <<userVars, assigned, licences>>

Unused(docs, s) == \A n \in Usernames : docs[<<n, s>>] = 0

DeleteScope(w, s) ==
    /\ Free(w)
    /\ Unused(assigned, s)
    /\ Become(w, [Idle EXCEPT !.at = "countLicences", !.scope = s])
    /\ UNCHANGED <<userVars, subscriptionVars>>

DeleteScopeCountLicences(w) ==
    /\ At(w, "countLicences")
    /\ IF Unused(licences, job[w].scope) THEN Goto(w, "deleteScope") ELSE Finish(w)
    /\ UNCHANGED <<userVars, subscriptionVars>>

DeleteScopeDocument(w) ==
    /\ At(w, "deleteScope")
    /\ scopes' = scopes \ {job[w].scope}
    /\ Finish(w)
    /\ UNCHANGED <<userVars, assigned, licences>>

\* Neither the scope nor the user has to exist.
AssignScope(w, n, s) ==
    /\ Free(w)
    /\ assigned[<<n, s>>] = 0
    /\ Register(w, "assign", n, s, "insertAssignment")
    /\ UNCHANGED <<userVars, subscriptionVars>>

InsertAssignment(w) ==
    /\ At(w, "insertAssignment")
    /\ assigned[<<job[w].name, job[w].scope>>] < MaxCopies
    /\ More(assigned, job[w].name, job[w].scope)
    /\ IF job[w].op = "signup" THEN Goto(w, "deleteLicence") ELSE Finish(w)
    /\ UNCHANGED <<userVars, scopes, licences>>

UnassignScope(w, n, s) ==
    /\ Free(w)
    /\ assigned[<<n, s>>] > 0
    /\ Fewer(assigned, n, s)
    /\ Finish(w)
    /\ UNCHANGED <<userVars, scopes, licences>>

-----------------------------------------------------------------------------
(* Licences *)

\* Forced, without a licence, or with one that is no longer valid.
AssignLicence(w, n, s) ==
    /\ Free(w)
    /\ Register(w, "assign", n, s, "deleteLicence")
    /\ UNCHANGED <<userVars, subscriptionVars>>

RotateLicence(w, n, s) ==
    /\ licences[<<n, s>>] > 0
    /\ AssignLicence(w, n, s)

\* Whatever the deletion answers, the new licence is made.
DeleteOldLicence(w) ==
    /\ At(w, "deleteLicence")
    /\ \/ /\ licences[<<job[w].name, job[w].scope>>] > 0
          /\ Fewer(licences, job[w].name, job[w].scope)
       \/ UNCHANGED licences
    /\ Goto(w, "insertLicence")
    /\ UNCHANGED <<userVars, scopes, assigned>>

\* A sign-up then sends a mail, whose failure it ignores, and answers.
InsertLicence(w) ==
    /\ At(w, "insertLicence")
    /\ licences[<<job[w].name, job[w].scope>>] < MaxCopies
    /\ More(licences, job[w].name, job[w].scope)
    /\ IF job[w].op = "signup" THEN Answer(w, TRUE) ELSE Finish(w)
    /\ UNCHANGED <<userVars, scopes, assigned>>

\* Also self_delete_license, whose caller shows a session of n for s.
DeleteLicence(w, n, s) ==
    /\ Free(w)
    /\ licences[<<n, s>>] > 0
    /\ Fewer(licences, n, s)
    /\ Finish(w)
    /\ UNCHANGED <<userVars, scopes, assigned>>

SubscriptionNext(w) ==
    \/ \E n \in Usernames :
          \/ CreateUser(w, n)
          \/ \E s \in Scopes : SignUp(w, n, s) \/ AssignScope(w, n, s)
                               \/ UnassignScope(w, n, s) \/ AssignLicence(w, n, s)
                               \/ RotateLicence(w, n, s) \/ DeleteLicence(w, n, s)
    \/ \E s \in Scopes : CreateScope(w, s) \/ DeleteScope(w, s)
    \/ \E u \in UserIds : InsertUser(w, u)
    \/ SignUpFindScope(w) \/ SignUpFails(w) \/ SignUpRollback(w)
    \/ InsertScope(w) \/ DeleteScopeCountLicences(w) \/ DeleteScopeDocument(w)
    \/ InsertAssignment(w) \/ DeleteOldLicence(w) \/ InsertLicence(w)
=============================================================================
