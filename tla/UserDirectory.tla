---------------------------- MODULE UserDirectory ----------------------------
(***************************************************************************)
(* What the requests on the tenant users of one account share: the user    *)
(* documents, how a username is looked up, and the request each worker is  *)
(* serving.  Subscriptions adds scopes and licences, Groups the security   *)
(* groups, and Directory puts them together with the deletion of a user.   *)
(*                                                                         *)
(* A username is the string a caller sends, without the blanks around it.  *)
(* Users are found whatever the case of the letters (Fold); licences and   *)
(* scope assignments are kept under the string as it was sent.             *)
(***************************************************************************)
EXTENDS Naturals, FiniteSets

CONSTANTS
    UserIds,     \* user.key, drawn anew for every document
    Usernames,   \* usernames as callers spell them
    Fold,        \* the normalized_username of each
    Scopes,
    GroupIds,
    GroupNames,  \* normalized names of groups
    Workers,
    None

ASSUME FoldAssumption == Usernames \subseteq DOMAIN Fold
ASSUME NoneIsNobody ==
    None \notin UserIds \cup Usernames \cup Scopes \cup GroupIds \cup GroupNames

VARIABLES
    users,   \* the ids of the user documents
    nameOf,  \* the username of each document, also of those deleted since
    job      \* the request each worker is serving

userVars == <<users, nameOf>>

\* What a request has read, or been sent, and uses at a later await.  Of a
\* transfer, `was` is whether the owner of the group was a member when it came
\* in, and `keep` whether it is to be one afterwards.
Idle == [at |-> "idle", op |-> "none", ok |-> FALSE, user |-> None, name |-> None,
         scope |-> None, group |-> None, draft |-> None, who |-> {}, was |-> FALSE,
         keep |-> FALSE]

FindByUsername(n) == {u \in users : Fold[nameOf[u]] = Fold[n]}

\* resolve_user_identifier, for an identifier that is a username.
Resolves(n, u) == u \in FindByUsername(n)

-----------------------------------------------------------------------------
At(w, step) == job[w].at = step
Become(w, j) == job' = [job EXCEPT ![w] = j]
Goto(w, step) == Become(w, [job[w] EXCEPT !.at = step])
Finish(w) == Become(w, Idle)

\* Some requests are remembered until the next one, with what they answered.
Answer(w, ok) == Become(w, [job[w] EXCEPT !.at = "answered", !.ok = ok])
Answered(w, op, ok) == At(w, "answered") /\ job[w].op = op /\ job[w].ok = ok
Free(w) == job[w].at \in {"idle", "answered"}

\* The other components act between the requests of this one.
Quiet == \A w \in Workers : Free(w)
=============================================================================
