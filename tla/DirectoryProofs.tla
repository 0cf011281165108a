--------------------------- MODULE DirectoryProofs ----------------------------
(***************************************************************************)
(* Proofs about Directory, for any number of users, groups and scopes, with *)
(* requests that are served one at a time and stop at any await: no        *)
(* reference outlives its user, what the code compensates for is           *)
(* compensated, and a deletion that succeeds leaves nothing of the user.   *)
(*                                                                         *)
(* The invariant, DirInv, says for each position of each kind of request   *)
(* what it has found or done by then and may still rely on, and that       *)
(* the documents fit together whichever position it stops at.  It needs    *)
(* OneWorker: a request that was received later would take away what an    *)
(* earlier one has found.                                                  *)
(***************************************************************************)
EXTENDS Directory, TLAPS

\* One request is served at a time.
OneWorker == \A v, w \in Workers : v = w

\* Callers spell a username as it was registered: users are looked up without
\* regard to case, their licences and scopes purged by the word that was sent.
SpelledAsStored == \A m, n \in Usernames : Fold[m] = Fold[n] => m = n

\* Nothing but the licences and scopes of a user's name tells of it.
Traceless(u) ==
    /\ \A g \in Groups : groups[g].owner # u
    /\ \A r \in members : r[2] # u
    /\ \A c \in Components : <<c, u>> \notin references

\* The user documents that FindByUsername would find are those of us.
OnlyNamed(n, us) == \A u \in users : Fold[nameOf[u]] = Fold[n] => u \in us

\* The positions each kind of request passes through, and what it has by then.
InPlace(j) ==
    /\ j.op = "none" => j.at \in {"idle", "insertScope", "countLicences", "deleteScope"}
    /\ j.op = "create" => j.at = "insertUser"
    /\ j.op = "signup" => j.at \in {"findScope", "insertUser", "insertAssignment",
                                    "deleteLicence", "insertLicence", "rollback", "answered"}
    /\ j.op = "assign" => j.at \in {"insertAssignment", "deleteLicence", "insertLicence"}
    /\ j.op = "group" => j.at = "saveGroup"
    /\ j.op = "drop" => j.at \in {"deleteGroup", "deleteRows"}
    /\ j.op = "members" => j.at \in {"addRows", "removeRows"}
    /\ j.op = "transfer" => j.at \in {"addRows", "saveGroup", "removeRows", "answered"}
    /\ j.op = "delete" => j.at \in {"findOwned", "licences", "assignments", "acl",
                                    "memberships", "ngac", "rbac", "document", "answered"}
    /\ j.op \in {"create", "signup", "assign", "delete"} => j.name \in Usernames
    /\ j.op \in {"signup", "assign"} \/ j.at \in {"insertScope", "countLicences", "deleteScope"} =>
          j.scope \in Scopes
    /\ j.op \in {"group", "drop", "members", "transfer"} => j.group \in GroupIds
    /\ j.op = "delete" => j.user \in UserIds

\* A sign-up that has inserted its user is the only one that knows of it.
SigningUp(j) ==
    /\ j.at \in {"findScope", "insertUser"} => OnlyNamed(j.name, {})
    /\ j.op = "signup" /\ j.at \in {"insertAssignment", "deleteLicence", "insertLicence", "rollback"} =>
          j.user \in users /\ Traceless(j.user) /\ OnlyNamed(j.name, {j.user})
    /\ j.op = "signup" /\ j.at \in {"deleteLicence", "insertLicence"} =>
          assigned[<<j.name, j.scope>>] > 0
    /\ j.op = "signup" /\ j.at = "answered" =>
          IF j.ok THEN /\ j.user \in users
                       /\ assigned[<<j.name, j.scope>>] > 0
                       /\ licences[<<j.name, j.scope>>] > 0
                  ELSE OnlyNamed(j.name, {})

\* What a group is about to be told still holds of the users.
Writing(j) ==
    /\ j.at = "saveGroup" => j.draft \in GroupDoc /\ j.draft.owner \in users
    /\ j.at = "addRows" => j.who \subseteq users
    /\ j.at = "deleteGroup" => j.group \notin used

\* A transfer has added the row of the previous owner or has not had to.
Transferring(j) == j.op = "transfer" =>
    /\ \E u \in UserIds : j.who = {u}
    /\ j.at = "addRows" => j.keep /\ ~j.was
    /\ j.at \in {"addRows", "saveGroup"} =>
          j.draft \in GroupDoc /\ j.draft.owner = j.user /\ j.user \in users
    /\ j.at = "saveGroup" => (Row(j.group, j.who) \subseteq members <=> j.keep \/ j.was)
    /\ j.at = "removeRows" => ~j.was
    /\ j.at # "answered" \/ ~j.ok => groups[j.group] \in GroupDoc /\ groups[j.group].owner \in j.who
    /\ j.at = "answered" =>
          IF j.ok THEN /\ groups[j.group].owner = j.user
                       /\ Row(j.group, j.who) \subseteq members <=> j.keep \/ j.was
                  ELSE Row(j.group, j.who) \subseteq members <=> j.was

\* The cascade of a deletion has taken away what it has passed.
Deleting(j) == j.op = "delete" =>
    /\ Fold[nameOf[j.user]] = Fold[j.name] /\ nameOf[j.user] \in Usernames
    /\ j.at \notin {"findOwned"} => \A g \in Groups : groups[g].owner # j.user
    /\ j.at \notin {"findOwned", "licences"} => \A s \in Scopes : licences[<<j.name, s>>] = 0
    /\ j.at \notin {"findOwned", "licences", "assignments"} =>
          \A s \in Scopes : assigned[<<j.name, s>>] = 0
    /\ j.at \in {"memberships", "ngac", "rbac", "document", "answered"} =>
          <<"acl", j.user>> \notin references
    /\ j.at \in {"ngac", "rbac", "document", "answered"} => \A r \in members : r[2] # j.user
    /\ j.at \in {"rbac", "document", "answered"} => <<"ngac", j.user>> \notin references
    /\ j.at \in {"document", "answered"} => <<"rbac", j.user>> \notin references
    /\ j.at = "answered" => j.user \notin users

Fit(j) == InPlace(j) /\ SigningUp(j) /\ Writing(j) /\ Transferring(j) /\ Deleting(j)

Named == \A u \in users : nameOf[u] \in Usernames

DirInv == TypeOK /\ Named /\ ReferencesLive /\ \A w \in Workers : Fit(job[w])

-----------------------------------------------------------------------------
LEMMA NoGroupIsNone == NoGroup \notin GroupDoc /\ Deleted \notin GroupDoc
<1>1. \A d \in GroupDoc : d.name # None
  BY NoneIsNobody DEF GroupDoc
<1>2. NoGroup.name = None /\ Deleted.name = None
  BY DEF NoGroup, Deleted
<1> QED
  BY <1>1, <1>2

\* What a request was sent, which it keeps while it is served.
SameRequest(i, j) ==
    /\ i.op = j.op /\ i.user = j.user /\ i.name = j.name /\ i.scope = j.scope
    /\ i.group = j.group /\ i.draft = j.draft /\ i.who = j.who
    /\ i.was = j.was /\ i.keep = j.keep

LEMMA IdleFits == Idle \in Job /\ Fit(Idle) /\ Fit(Idle)'
<1>1. Idle \in Job /\ Idle.at = "idle" /\ Idle.op = "none" /\ Idle.who = {}
  BY DEF Idle, Job, Steps, Ops
<1> QED
  BY <1>1 DEF Fit, InPlace, SigningUp, Writing, Transferring, Deleting

\* Where the one request that is served has come to.
Now(w, j) == job'[w] = j /\ job' \in [Workers -> Job]

LEMMA NowIs ==
    ASSUME TypeOK, NEW w \in Workers, NEW j \in Job, Become(w, j)
    PROVE  Now(w, j)
  BY DEF TypeOK, Become, Now

LEMMA GoesTo ==
    ASSUME TypeOK, NEW w \in Workers, NEW step \in Steps, Goto(w, step)
    PROVE  /\ job' \in [Workers -> Job]
           /\ job'[w].at = step /\ job'[w].ok = job[w].ok /\ SameRequest(job'[w], job[w])
<1> DEFINE j == [job[w] EXCEPT !.at = step]
<1>1. job[w] \in Job
  BY DEF TypeOK
<1>2. j \in Job /\ j.at = step /\ j.ok = job[w].ok /\ SameRequest(j, job[w])
  BY <1>1 DEF Job, SameRequest
<1>3. Become(w, j)
  BY DEF Goto
<1> HIDE DEF j
<1> QED
  BY <1>2, <1>3, NowIs DEF Now

LEMMA Answers ==
    ASSUME TypeOK, NEW w \in Workers, NEW ok \in BOOLEAN, Answer(w, ok)
    PROVE  /\ job' \in [Workers -> Job]
           /\ job'[w].at = "answered" /\ job'[w].ok = ok /\ SameRequest(job'[w], job[w])
<1> DEFINE j == [job[w] EXCEPT !.at = "answered", !.ok = ok]
<1>1. job[w] \in Job /\ "answered" \in Steps
  BY DEF TypeOK, Steps
<1>2. j \in Job /\ j.at = "answered" /\ j.ok = ok /\ SameRequest(j, job[w])
  BY <1>1 DEF Job, SameRequest
<1>3. Become(w, j)
  BY DEF Answer
<1> HIDE DEF j
<1> QED
  BY <1>2, <1>3, NowIs DEF Now

LEMMA Finishes ==
    ASSUME TypeOK, NEW w \in Workers, Finish(w)
    PROVE  job' \in [Workers -> Job] /\ job'[w] = Idle /\ Fit(job[w])'
<1>1. Now(w, Idle)
  BY IdleFits, NowIs DEF Finish
<1> QED
  BY <1>1, IdleFits DEF Now

LEMMA OneIsAll ==
    ASSUME OneWorker, NEW w \in Workers, TypeOK', Named', ReferencesLive', Fit(job[w])'
    PROVE  DirInv'
  BY DEF OneWorker, DirInv

dataVars == <<userVars, subscriptionVars, groupVars, references>>

(* A step that leaves all documents alone.                                 *)
LEMMA DataKept ==
    ASSUME TypeOK, Named, ReferencesLive, UNCHANGED dataVars, job' \in [Workers -> Job]
    PROVE  TypeOK' /\ Named' /\ ReferencesLive'
  BY DEF TypeOK, Named, ReferencesLive, Groups, dataVars, userVars, subscriptionVars, groupVars

LEMMA FitKept ==
    ASSUME NEW j, Fit(j), UNCHANGED dataVars
    PROVE  Fit(j)'
<1>1. UNCHANGED <<users, nameOf, assigned, licences, groups, members, used, references>>
  BY DEF dataVars, userVars, subscriptionVars, groupVars
<1>2. InPlace(j)' /\ Writing(j)'
  BY <1>1 DEF Fit, InPlace, Writing
<1>3. SigningUp(j)'
  BY <1>1 DEF Fit, SigningUp, Traceless, OnlyNamed, Groups
<1>4. Transferring(j)'
  BY <1>1 DEF Fit, Transferring
<1>5. Deleting(j)'
  BY <1>1 DEF Fit, Deleting, Groups
<1> QED
  BY <1>2, <1>3, <1>4, <1>5 DEF Fit

LEMMA BeginsFit ==
    ASSUME OneWorker, DirInv, NEW w \in Workers, NEW j \in Job, Become(w, j), Fit(j),
           UNCHANGED dataVars
    PROVE  DirInv'
<1>1. Now(w, j)
  BY NowIs DEF DirInv
<1>2. Fit(j)'
  BY FitKept
<1>3. Fit(job[w])'
  BY <1>1, <1>2 DEF Now
<1> QED
  BY <1>1, <1>3, DataKept, OneIsAll DEF Now, DirInv

LEMMA FinishFits ==
    ASSUME OneWorker, DirInv, NEW w \in Workers, Finish(w), UNCHANGED dataVars
    PROVE  DirInv'
  BY IdleFits, BeginsFit DEF Finish

LEMMA GotoFits ==
    ASSUME OneWorker, DirInv, NEW w \in Workers, NEW step \in Steps, Goto(w, step),
           UNCHANGED dataVars,
           \A j \in Job : SameRequest(j, job[w]) /\ j.ok = job[w].ok /\ j.at = step => Fit(j)
    PROVE  DirInv'
<1> DEFINE j == [job[w] EXCEPT !.at = step]
<1>1. job[w] \in Job
  BY DEF DirInv, TypeOK
<1>2. j \in Job /\ j.at = step /\ j.ok = job[w].ok /\ SameRequest(j, job[w])
  BY <1>1 DEF Job, SameRequest
<1>3. Become(w, j)
  BY DEF Goto
<1> HIDE DEF j
<1> QED
  BY <1>2, <1>3, BeginsFit

LEMMA AnswerFits ==
    ASSUME OneWorker, DirInv, NEW w \in Workers, NEW ok \in BOOLEAN, Answer(w, ok),
           UNCHANGED dataVars,
           \A j \in Job : SameRequest(j, job[w]) /\ j.ok = ok /\ j.at = "answered" => Fit(j)
    PROVE  DirInv'
<1> DEFINE j == [job[w] EXCEPT !.at = "answered", !.ok = ok]
<1>1. job[w] \in Job /\ "answered" \in Steps
  BY DEF DirInv, TypeOK, Steps
<1>2. j \in Job /\ j.at = "answered" /\ j.ok = ok /\ SameRequest(j, job[w])
  BY <1>1 DEF Job, SameRequest
<1>3. Become(w, j)
  BY DEF Answer
<1> HIDE DEF j
<1> QED
  BY <1>2, <1>3, BeginsFit

(* The position of a request tells its kind.                               *)
LEMMA KindOf ==
    ASSUME DirInv, NEW w \in Workers
    PROVE  /\ job[w] \in Job /\ Fit(job[w])
           /\ job[w].at \in {"insertScope", "countLicences", "deleteScope"} => job[w].op = "none"
           /\ job[w].at \in {"findScope", "rollback"} => job[w].op = "signup"
           /\ job[w].at = "insertUser" => job[w].op \in {"create", "signup"}
           /\ job[w].at \in {"insertAssignment", "deleteLicence", "insertLicence"} =>
                 job[w].op \in {"signup", "assign"}
           /\ job[w].at = "saveGroup" => job[w].op \in {"group", "transfer"}
           /\ job[w].at \in {"deleteGroup", "deleteRows"} => job[w].op = "drop"
           /\ job[w].at \in {"addRows", "removeRows"} => job[w].op \in {"members", "transfer"}
           /\ job[w].at \in {"findOwned", "licences", "assignments", "acl", "memberships",
                             "ngac", "rbac", "document"} => job[w].op = "delete"
           /\ job[w].at = "answered" => job[w].op \in {"signup", "transfer", "delete"}
<1>1. job[w] \in Job /\ InPlace(job[w]) /\ job[w].op \in Ops
  BY DEF DirInv, TypeOK, Fit, Job
<1>2. Fit(job[w])
  BY DEF DirInv
<1> QED
  BY <1>1, <1>2 DEF InPlace, Ops

-----------------------------------------------------------------------------
(* Users, scopes and licences.                                             *)

Docs == [Usernames \X Scopes -> 0 .. MaxCopies]

LEMMA CountsChange ==
    ASSUME NEW docs \in Docs, NEW n \in Usernames, NEW s \in Scopes
    PROVE  /\ docs[<<n, s>>] < MaxCopies => [docs EXCEPT ![<<n, s>>] = @ + 1] \in Docs
           /\ [docs EXCEPT ![<<n, s>>] = @ + 1][<<n, s>>] > 0
           /\ docs[<<n, s>>] > 0 => [docs EXCEPT ![<<n, s>>] = @ - 1] \in Docs
<1>1. <<n, s>> \in Usernames \X Scopes /\ docs[<<n, s>>] \in 0 .. MaxCopies
  BY DEF Docs
<1>2. MaxCopies \in Nat
  BY MaxCopiesAssumption
<1>3. [docs EXCEPT ![<<n, s>>] = @ + 1][<<n, s>>] = docs[<<n, s>>] + 1
  BY <1>1 DEF Docs
<1>4. ASSUME docs[<<n, s>>] < MaxCopies PROVE [docs EXCEPT ![<<n, s>>] = @ + 1] \in Docs
  <2>1. docs[<<n, s>>] + 1 \in 0 .. MaxCopies
    BY <1>1, <1>2, <1>4
  <2> QED
    BY <2>1 DEF Docs
<1>5. ASSUME docs[<<n, s>>] > 0 PROVE [docs EXCEPT ![<<n, s>>] = @ - 1] \in Docs
  <2>1. docs[<<n, s>>] - 1 \in 0 .. MaxCopies
    BY <1>1, <1>2, <1>5
  <2> QED
    BY <2>1 DEF Docs
<1> QED
  BY <1>1, <1>2, <1>3, <1>4, <1>5

LEMMA PurgeIs ==
    ASSUME NEW docs \in Docs, NEW n \in Usernames
    PROVE  Purged(docs, n) \in Docs /\ \A s \in Scopes : Purged(docs, n)[<<n, s>>] = 0
<1>1. DOMAIN docs = Usernames \X Scopes /\ 0 \in 0 .. MaxCopies
  BY MaxCopiesAssumption DEF Docs
<1>2. \A p \in Usernames \X Scopes : docs[p] \in 0 .. MaxCopies
  BY DEF Docs
<1>3. \A s \in Scopes : <<n, s>> \in Usernames \X Scopes /\ <<n, s>>[1] = n
  OBVIOUS
<1> QED
  BY <1>1, <1>2, <1>3 DEF Docs, Purged

(* Only the counts change.                                                 *)
LEMMA CountsKeep ==
    ASSUME TypeOK, Named, ReferencesLive, UNCHANGED <<userVars, groupVars, references>>,
           scopes' \subseteq Scopes, assigned' \in Docs, licences' \in Docs,
           job' \in [Workers -> Job]
    PROVE  TypeOK' /\ Named' /\ ReferencesLive'
  BY DEF TypeOK, Named, ReferencesLive, Groups, Docs, userVars, groupVars

LEMMA SignUpBegins ==
    ASSUME OneWorker, DirInv, NEW w \in Workers,
           \E n \in Usernames : CreateUser(w, n) \/ \E s \in Scopes : SignUp(w, n, s),
           UNCHANGED <<groupVars, references>>
    PROVE  DirInv'
<1>1. PICK n \in Usernames, s \in Scopes \cup {None}, op \in {"create", "signup"},
           step \in {"insertUser", "findScope"} :
         /\ Register(w, op, n, s, step)
         /\ op = "create" => step = "insertUser"
         /\ op = "signup" => s \in Scopes
         /\ FindByUsername(n) = {}
         /\ UNCHANGED dataVars
  BY DEF CreateUser, SignUp, dataVars
<1> DEFINE j == [Idle EXCEPT !.at = step, !.op = op, !.name = n, !.scope = s]
<1>2. /\ j \in Job /\ j.at = step /\ j.op = op /\ j.name = n /\ j.scope = s
  BY DEF Idle, Job, Steps, Ops
<1>3. Become(w, j)
  BY <1>1 DEF Register
<1> HIDE DEF j
<1>4. OnlyNamed(n, {})
  BY <1>1 DEF FindByUsername, OnlyNamed
<1>5. Fit(j)
  BY <1>1, <1>2, <1>4 DEF Fit, InPlace, SigningUp, Writing, Transferring, Deleting
<1> QED
  BY <1>1, <1>2, <1>3, <1>5, BeginsFit

LEMMA RequestFits ==
    ASSUME OneWorker, DirInv, NEW w \in Workers, NEW j \in Job, Become(w, j),
           \/ /\ j.op = "assign" /\ j.at \in {"insertAssignment", "deleteLicence"}
              /\ j.name \in Usernames /\ j.scope \in Scopes
           \/ /\ j.op = "none" /\ j.at \in {"insertScope", "countLicences"}
              /\ j.scope \in Scopes
           \/ /\ j.op = "members" /\ j.at \in {"addRows", "removeRows"}
              /\ j.group \in GroupIds /\ j.who \subseteq users,
           UNCHANGED dataVars
    PROVE  DirInv'
<1>1. Fit(j)
  BY DEF Fit, InPlace, SigningUp, Writing, Transferring, Deleting
<1> QED
  BY <1>1, BeginsFit

LEMMA AssignBegins ==
    ASSUME OneWorker, DirInv, NEW w \in Workers, NEW n \in Usernames, NEW s \in Scopes,
           AssignScope(w, n, s) \/ AssignLicence(w, n, s) \/ RotateLicence(w, n, s),
           UNCHANGED dataVars
    PROVE  DirInv'
<1>1. PICK step \in {"insertAssignment", "deleteLicence"} : Register(w, "assign", n, s, step)
  BY DEF AssignScope, AssignLicence, RotateLicence
<1> DEFINE j == [Idle EXCEPT !.at = step, !.op = "assign", !.name = n, !.scope = s]
<1>2. j \in Job /\ j.at = step /\ j.op = "assign" /\ j.name = n /\ j.scope = s
  BY DEF Idle, Job, Steps, Ops
<1>3. Become(w, j)
  BY <1>1 DEF Register
<1> HIDE DEF j
<1> QED
  BY <1>2, <1>3, RequestFits

LEMMA CreateScopeBegins ==
    ASSUME OneWorker, DirInv, NEW w \in Workers, NEW s \in Scopes, CreateScope(w, s),
           UNCHANGED dataVars
    PROVE  DirInv'
<1> DEFINE j == [Idle EXCEPT !.at = "insertScope", !.scope = s]
<1>1. j \in Job /\ j.at = "insertScope" /\ j.op = "none" /\ j.scope = s
  BY DEF Idle, Job, Steps, Ops
<1>2. Become(w, j)
  BY DEF CreateScope
<1> HIDE DEF j
<1> QED
  BY <1>1, <1>2, RequestFits

LEMMA DeleteScopeBegins ==
    ASSUME OneWorker, DirInv, NEW w \in Workers, NEW s \in Scopes, DeleteScope(w, s),
           UNCHANGED dataVars
    PROVE  DirInv'
<1> DEFINE j == [Idle EXCEPT !.at = "countLicences", !.scope = s]
<1>1. j \in Job /\ j.at = "countLicences" /\ j.op = "none" /\ j.scope = s
  BY DEF Idle, Job, Steps, Ops
<1>2. Become(w, j)
  BY DEF DeleteScope
<1> HIDE DEF j
<1> QED
  BY <1>1, <1>2, RequestFits

LEMMA StepsKeepDocuments ==
    ASSUME OneWorker, DirInv, NEW w \in Workers,
           SignUpFindScope(w) \/ SignUpFails(w) \/ DeleteScopeCountLicences(w),
           UNCHANGED <<groupVars, references>>
    PROVE  DirInv'
<1>1. UNCHANGED dataVars
  BY DEF SignUpFindScope, SignUpFails, DeleteScopeCountLicences, dataVars
<1>2. CASE Finish(w)
  BY <1>1, <1>2, FinishFits
<1>3. CASE SignUpFindScope(w) /\ Goto(w, "insertUser")
  <2>1. job[w].at = "findScope" /\ job[w].op = "signup" /\ Fit(job[w])
    BY <1>3, KindOf DEF SignUpFindScope, At
  <2>2. ASSUME NEW j \in Job, SameRequest(j, job[w]), j.at = "insertUser" PROVE Fit(j)
    BY <2>1, <2>2 DEF Fit, SameRequest, InPlace, SigningUp, Writing, Transferring, Deleting
  <2> QED
    BY <1>1, <1>3, <2>2, GotoFits DEF Steps
<1>4. CASE SignUpFails(w)
  <2>1. /\ job[w].at \in {"insertAssignment", "insertLicence"} /\ job[w].op = "signup"
        /\ Fit(job[w])
    BY <1>4, KindOf DEF SignUpFails
  <2>2. ASSUME NEW j \in Job, SameRequest(j, job[w]), j.at = "rollback" PROVE Fit(j)
    BY <2>1, <2>2 DEF Fit, SameRequest, InPlace, SigningUp, Writing, Transferring, Deleting
  <2> QED
    BY <1>1, <1>4, <2>2, GotoFits DEF Steps, SignUpFails
<1>5. CASE DeleteScopeCountLicences(w) /\ Goto(w, "deleteScope")
  <2>1. job[w].at = "countLicences" /\ job[w].op = "none" /\ Fit(job[w])
    BY <1>5, KindOf DEF DeleteScopeCountLicences, At
  <2>2. ASSUME NEW j \in Job, SameRequest(j, job[w]), j.at = "deleteScope" PROVE Fit(j)
    BY <2>1, <2>2 DEF Fit, SameRequest, InPlace, SigningUp, Writing, Transferring, Deleting
  <2> QED
    BY <1>1, <1>5, <2>2, GotoFits DEF Steps
<1> QED
  BY <1>2, <1>3, <1>4, <1>5 DEF SignUpFindScope, DeleteScopeCountLicences

LEMMA ScopesChange ==
    ASSUME OneWorker, DirInv, NEW w \in Workers, InsertScope(w) \/ DeleteScopeDocument(w),
           UNCHANGED <<groupVars, references>>
    PROVE  DirInv'
<1>1. job[w].scope \in Scopes
  BY KindOf DEF InsertScope, DeleteScopeDocument, At, Fit, InPlace
<1>2. /\ Finish(w) /\ UNCHANGED <<userVars, groupVars, references, assigned, licences>>
      /\ scopes' \subseteq Scopes
  BY <1>1 DEF InsertScope, DeleteScopeDocument, DirInv, TypeOK
<1>3. job' \in [Workers -> Job] /\ Fit(job[w])'
  BY <1>2, Finishes DEF DirInv
<1>4. TypeOK' /\ Named' /\ ReferencesLive'
  BY <1>2, <1>3, CountsKeep DEF DirInv, TypeOK, Docs
<1> QED
  BY <1>3, <1>4, OneIsAll

LEMMA CountsFall ==
    ASSUME OneWorker, DirInv, NEW w \in Workers,
           \E n \in Usernames, s \in Scopes : UnassignScope(w, n, s) \/ DeleteLicence(w, n, s),
           UNCHANGED <<groupVars, references>>
    PROVE  DirInv'
<1>1. Finish(w) /\ UNCHANGED <<userVars, groupVars, references, scopes>>
  BY DEF UnassignScope, DeleteLicence
<1>2. assigned' \in Docs /\ licences' \in Docs
  <2>1. assigned \in Docs /\ licences \in Docs
    BY DEF DirInv, TypeOK, Docs
  <2>2. ASSUME NEW n \in Usernames, NEW s \in Scopes, UnassignScope(w, n, s)
        PROVE  assigned' \in Docs /\ licences' = licences
    BY <2>1, <2>2, CountsChange DEF UnassignScope, Fewer
  <2>3. ASSUME NEW n \in Usernames, NEW s \in Scopes, DeleteLicence(w, n, s)
        PROVE  licences' \in Docs /\ assigned' = assigned
    BY <2>1, <2>3, CountsChange DEF DeleteLicence, Fewer
  <2> QED
    BY <2>1, <2>2, <2>3
<1>3. job' \in [Workers -> Job] /\ Fit(job[w])'
  BY <1>1, Finishes DEF DirInv
<1>4. TypeOK' /\ Named' /\ ReferencesLive'
  BY <1>1, <1>2, <1>3, CountsKeep DEF DirInv, TypeOK
<1> QED
  BY <1>3, <1>4, OneIsAll

(* A sign-up and the other requests that store an assignment or a licence. *)
LEMMA CountsGrow ==
    ASSUME OneWorker, DirInv, NEW w \in Workers,
           InsertAssignment(w) \/ DeleteOldLicence(w) \/ InsertLicence(w),
           UNCHANGED <<groupVars, references>>
    PROVE  DirInv'
<1> DEFINE n == job[w].name
           s == job[w].scope
<1>1. /\ job[w].at \in {"insertAssignment", "deleteLicence", "insertLicence"}
      /\ job[w].op \in {"signup", "assign"} /\ Fit(job[w])
  BY KindOf DEF InsertAssignment, DeleteOldLicence, InsertLicence, At
<1>2. n \in Usernames /\ s \in Scopes
  BY <1>1 DEF Fit, InPlace
<1>3. UNCHANGED <<userVars, groupVars, references, scopes>>
  BY DEF InsertAssignment, DeleteOldLicence, InsertLicence
<1>4. assigned \in Docs /\ licences \in Docs /\ scopes \subseteq Scopes
  BY DEF DirInv, TypeOK, Docs
<1>5. assigned' \in Docs /\ licences' \in Docs
  BY <1>2, <1>4, CountsChange
  DEF InsertAssignment, DeleteOldLicence, InsertLicence, More, Fewer
<1>6. ASSUME job' \in [Workers -> Job], Fit(job[w])' PROVE DirInv'
  BY <1>3, <1>4, <1>5, <1>6, CountsKeep, OneIsAll DEF DirInv
<1>7. CASE Finish(w)
  BY <1>6, <1>7, Finishes DEF DirInv
<1>8. CASE InsertAssignment(w) /\ Goto(w, "deleteLicence") /\ job[w].op = "signup"
  <2>1. /\ job' \in [Workers -> Job]
        /\ job'[w].at = "deleteLicence" /\ SameRequest(job'[w], job[w])
    BY <1>8, GoesTo DEF DirInv, Steps
  <2>2. job[w].at = "insertAssignment" /\ assigned'[<<n, s>>] > 0
    BY <1>2, <1>4, <1>8, CountsChange DEF InsertAssignment, At, More
  <2>3. SigningUp(job[w])'
    BY <1>1, <1>3, <1>8, <2>1, <2>2
    DEF Fit, SigningUp, SameRequest, Traceless, OnlyNamed, Groups, userVars, groupVars
  <2>4. Fit(job[w])'
    BY <1>1, <1>8, <2>1, <2>3
    DEF Fit, InPlace, SameRequest, Writing, Transferring, Deleting
  <2> QED
    BY <1>6, <2>1, <2>4
<1>9. CASE DeleteOldLicence(w)
  <2>1. /\ job' \in [Workers -> Job]
        /\ job'[w].at = "insertLicence" /\ SameRequest(job'[w], job[w])
    BY <1>9, GoesTo DEF DeleteOldLicence, DirInv, Steps
  <2>2. job[w].at = "deleteLicence" /\ assigned' = assigned
    BY <1>9 DEF DeleteOldLicence, At
  <2>3. SigningUp(job[w])'
    BY <1>1, <1>3, <2>1, <2>2
    DEF Fit, SigningUp, SameRequest, Traceless, OnlyNamed, Groups, userVars, groupVars
  <2>4. Fit(job[w])'
    BY <1>1, <2>1, <2>3
    DEF Fit, InPlace, SameRequest, Writing, Transferring, Deleting
  <2> QED
    BY <1>6, <2>1, <2>4
<1>10. CASE InsertLicence(w) /\ Answer(w, TRUE) /\ job[w].op = "signup"
  <2>1. /\ job' \in [Workers -> Job] /\ job'[w].ok = TRUE
        /\ job'[w].at = "answered" /\ SameRequest(job'[w], job[w])
    BY <1>10, Answers DEF DirInv
  <2>2. /\ job[w].at = "insertLicence" /\ assigned' = assigned
        /\ licences'[<<n, s>>] > 0
    BY <1>2, <1>4, <1>10, CountsChange DEF InsertLicence, At, More
  <2>3. SigningUp(job[w])'
    BY <1>1, <1>3, <1>10, <2>1, <2>2
    DEF Fit, SigningUp, SameRequest, Traceless, OnlyNamed, Groups, userVars, groupVars
  <2>4. Fit(job[w])'
    BY <1>1, <1>10, <2>1, <2>3
    DEF Fit, InPlace, SameRequest, Writing, Transferring, Deleting
  <2> QED
    BY <1>6, <2>1, <2>4
<1> QED
  BY <1>1, <1>7, <1>8, <1>9, <1>10 DEF InsertAssignment, InsertLicence

(* The new document has an id of its own, so nothing refers to it yet.     *)
LEMMA InsertUserFits ==
    ASSUME OneWorker, DirInv, NEW w \in Workers, NEW u \in UserIds, InsertUser(w, u),
           UNCHANGED <<groupVars, references>>
    PROVE  DirInv'
<1>1. /\ job[w] \in Job /\ Fit(job[w]) /\ job[w].at = "insertUser"
      /\ job[w].op \in {"create", "signup"}
  BY KindOf DEF InsertUser, At
<1>2. job[w].name \in Usernames
  BY <1>1 DEF Fit, InPlace
<1>3. /\ nameOf[u] = None /\ users' = users \cup {u}
      /\ nameOf' = [nameOf EXCEPT ![u] = job[w].name]
      /\ UNCHANGED <<scopes, assigned, licences, groups, members, used, references>>
  BY DEF InsertUser, subscriptionVars, groupVars
<1>4. u \notin users
  BY <1>3, NoneIsNobody DEF DirInv, Named
<1>5. \A v \in users : v # u /\ nameOf'[v] = nameOf[v]
  BY <1>3, <1>4 DEF DirInv, TypeOK
<1>6. nameOf'[u] = job[w].name /\ nameOf' \in [UserIds -> Usernames \cup {None}]
  BY <1>2, <1>3 DEF DirInv, TypeOK
<1>7. Named' /\ ReferencesLive'
  BY <1>2, <1>3, <1>5, <1>6 DEF DirInv, Named, ReferencesLive, Groups
<1>8. ASSUME job' \in [Workers -> Job] PROVE TypeOK'
  BY <1>3, <1>6, <1>8 DEF DirInv, TypeOK
<1>9. CASE Finish(w)
  BY <1>7, <1>8, <1>9, Finishes, OneIsAll DEF DirInv
<1>10. CASE job[w].op = "signup"
  <2> DEFINE j == [job[w] EXCEPT !.at = "insertAssignment", !.user = u]
  <2>1. /\ j \in Job /\ j.at = "insertAssignment" /\ j.user = u /\ j.op = "signup"
        /\ j.name = job[w].name /\ j.scope = job[w].scope
    BY <1>1, <1>10 DEF Job, Steps
  <2>2. Become(w, j)
    BY <1>10 DEF InsertUser
  <2> HIDE DEF j
  <2>3. Now(w, j)
    BY <2>1, <2>2, NowIs DEF DirInv
  <2>4. \A v \in users' : Fold[nameOf'[v]] = Fold[job[w].name] => v = u
    BY <1>1, <1>3, <1>5 DEF Fit, SigningUp, OnlyNamed
  <2>5. Traceless(u)'
    BY <1>3, <1>4 DEF DirInv, ReferencesLive, Traceless, Groups
  <2>6. SigningUp(job[w])'
    BY <1>3, <2>1, <2>3, <2>4, <2>5 DEF Now, SigningUp, OnlyNamed
  <2>7. Fit(job[w])'
    BY <1>1, <1>10, <2>1, <2>3, <2>6
    DEF Now, Fit, InPlace, Writing, Transferring, Deleting
  <2> QED
    BY <1>7, <1>8, <2>3, <2>7, OneIsAll DEF Now
<1> QED
  BY <1>1, <1>9, <1>10 DEF InsertUser

(* A user nothing tells of can go without leaving a reference behind.      *)
LEMMA UserGoes ==
    ASSUME DirInv, NEW u \in UserIds, Traceless(u), users' = users \ {u},
           UNCHANGED <<nameOf, subscriptionVars, groupVars, references>>,
           job' \in [Workers -> Job]
    PROVE  TypeOK' /\ Named' /\ ReferencesLive'
<1>1. \A r \in references : r[2] # u
  <2>1. \A r \in references : r[1] \in Components /\ r = <<r[1], r[2]>>
    BY DEF DirInv, TypeOK
  <2> QED
    BY <2>1 DEF Traceless
<1> QED
  BY <1>1
  DEF DirInv, TypeOK, Named, ReferencesLive, Traceless, Groups, subscriptionVars, groupVars

LEMMA RollbackFits ==
    ASSUME OneWorker, DirInv, NEW w \in Workers, SignUpRollback(w),
           UNCHANGED <<groupVars, references>>
    PROVE  DirInv'
<1>1. /\ Fit(job[w]) /\ job[w].at = "rollback" /\ job[w].op = "signup"
  BY KindOf DEF SignUpRollback, At
<1>2. /\ users' = users \ {job[w].user} /\ UNCHANGED <<nameOf, subscriptionVars>>
      /\ UNCHANGED <<groupVars, references>>
  BY DEF SignUpRollback
<1>3. /\ job' \in [Workers -> Job] /\ job'[w].ok = FALSE
      /\ job'[w].at = "answered" /\ SameRequest(job'[w], job[w])
  BY Answers DEF SignUpRollback, DirInv
<1>4. job[w].user \in UserIds /\ Traceless(job[w].user)
  BY <1>1 DEF Fit, SigningUp, DirInv, TypeOK
<1>5. SigningUp(job[w])'
  BY <1>1, <1>2, <1>3 DEF Fit, SigningUp, SameRequest, OnlyNamed
<1>6. Fit(job[w])'
  BY <1>1, <1>3, <1>5 DEF Fit, InPlace, SameRequest, Writing, Transferring, Deleting
<1> QED
  BY <1>2, <1>3, <1>4, <1>6, UserGoes, OneIsAll

-----------------------------------------------------------------------------
(* Groups.                                                                 *)

LEMMA GroupBegins ==
    ASSUME OneWorker, DirInv, NEW w \in Workers, NEW g \in GroupIds, NEW d \in GroupDoc,
           d.owner \in users, Begin(w, "group", g, "saveGroup", d), UNCHANGED dataVars
    PROVE  DirInv'
<1> DEFINE j == [Idle EXCEPT !.at = "saveGroup", !.op = "group", !.group = g, !.draft = d]
<1>1. /\ j \in Job /\ j.at = "saveGroup" /\ j.op = "group" /\ j.group = g /\ j.draft = d
  BY DEF Idle, Job, Steps, Ops
<1>2. Become(w, j)
  BY DEF Begin
<1> HIDE DEF j
<1>3. Fit(j)
  BY <1>1 DEF Fit, InPlace, SigningUp, Writing, Transferring, Deleting
<1> QED
  BY <1>1, <1>2, <1>3, BeginsFit

LEMMA EditBegins ==
    ASSUME OneWorker, DirInv, NEW w \in Workers, UNCHANGED dataVars,
           \/ \E u \in UserIds, n \in GroupNames : CreateGroup(w, u, n)
           \/ \E g \in GroupIds, active \in BOOLEAN : SetStatus(w, g, active)
           \/ \E c \in Callers, g \in GroupIds, n \in GroupNames : UpdateGroup(w, c, g, n)
    PROVE  DirInv'
<1>1. ASSUME NEW u \in UserIds, NEW n \in GroupNames, CreateGroup(w, u, n) PROVE DirInv'
  <2> DEFINE d == [name |-> n, owner |-> u, active |-> TRUE]
  <2>1. d \in GroupDoc /\ d.owner \in users
    BY <1>1 DEF CreateGroup, GroupDoc
  <2>2. PICK g \in GroupIds : Begin(w, "group", g, "saveGroup", d)
    BY <1>1 DEF CreateGroup
  <2> HIDE DEF d
  <2> QED
    BY <2>1, <2>2, GroupBegins
<1>2. ASSUME NEW g \in Groups PROVE /\ g \in GroupIds /\ groups[g] \in GroupDoc
                                    /\ groups[g].owner \in users
  BY DEF Groups, DirInv, ReferencesLive
<1>3. ASSUME NEW g \in GroupIds, NEW active \in BOOLEAN, SetStatus(w, g, active) PROVE DirInv'
  <2> DEFINE d == [groups[g] EXCEPT !.active = active]
  <2>1. d \in GroupDoc /\ d.owner \in users
    BY <1>2, <1>3 DEF SetStatus, GroupDoc
  <2>2. Begin(w, "group", g, "saveGroup", d)
    BY <1>3 DEF SetStatus
  <2> HIDE DEF d
  <2> QED
    BY <2>1, <2>2, GroupBegins
<1>4. ASSUME NEW c \in Callers, NEW g \in GroupIds, NEW n \in GroupNames, UpdateGroup(w, c, g, n)
      PROVE  DirInv'
  <2> DEFINE d == [groups[g] EXCEPT !.name = n]
  <2>1. d \in GroupDoc /\ d.owner \in users
    BY <1>2, <1>4 DEF UpdateGroup, GroupDoc
  <2>2. Begin(w, "group", g, "saveGroup", d)
    BY <1>4 DEF UpdateGroup
  <2> HIDE DEF d
  <2> QED
    BY <2>1, <2>2, GroupBegins
<1> QED
  BY <1>1, <1>3, <1>4

LEMMA DeleteGroupBegins ==
    ASSUME OneWorker, DirInv, NEW w \in Workers, NEW c \in Callers, NEW g \in GroupIds,
           DeleteGroup(w, c, g), UNCHANGED dataVars
    PROVE  DirInv'
<1> DEFINE j == [Idle EXCEPT !.at = "deleteGroup", !.op = "drop", !.group = g, !.draft = None]
<1>1. j \in Job /\ j.at = "deleteGroup" /\ j.op = "drop" /\ j.group = g
  BY DEF Idle, Job, Steps, Ops
<1>2. Become(w, j) /\ g \notin used
  BY DEF DeleteGroup, Begin
<1> HIDE DEF j
<1>3. Fit(j)
  BY <1>1, <1>2 DEF Fit, InPlace, SigningUp, Writing, Transferring, Deleting
<1> QED
  BY <1>1, <1>2, <1>3, BeginsFit

LEMMA AddMembersBegins ==
    ASSUME OneWorker, DirInv, NEW w \in Workers, NEW c \in Callers, NEW g \in GroupIds,
           NEW who \in SUBSET UserIds, AddMembers(w, c, g, who), UNCHANGED dataVars
    PROVE  DirInv'
<1> DEFINE j == [Idle EXCEPT !.at = "addRows", !.op = "members", !.group = g, !.who = who]
<1>1. j \in Job /\ j.at = "addRows" /\ j.op = "members" /\ j.group = g /\ j.who = who
  BY DEF Idle, Job, Steps, Ops
<1>2. Become(w, j) /\ who \subseteq users
  BY DEF AddMembers
<1> HIDE DEF j
<1> QED
  BY <1>1, <1>2, RequestFits

LEMMA RemoveMembersBegins ==
    ASSUME OneWorker, DirInv, NEW w \in Workers, NEW c \in Callers, NEW g \in GroupIds,
           NEW who \in SUBSET UserIds, RemoveMembers(w, c, g, who), UNCHANGED dataVars
    PROVE  DirInv'
<1> DEFINE j == [Idle EXCEPT !.at = "removeRows", !.op = "members", !.group = g, !.who = who]
<1>1. j \in Job /\ j.at = "removeRows" /\ j.op = "members" /\ j.group = g /\ j.who = who
  BY DEF Idle, Job, Steps, Ops
<1>2. Become(w, j) /\ who \subseteq users
  BY DEF RemoveMembers
<1> HIDE DEF j
<1> QED
  BY <1>1, <1>2, RequestFits

LEMMA TransferBegins ==
    ASSUME OneWorker, DirInv, NEW w \in Workers, NEW c \in Callers, NEW g \in GroupIds,
           NEW v \in UserIds, NEW keep \in BOOLEAN, TransferOwner(w, c, g, v, keep),
           UNCHANGED dataVars
    PROVE  DirInv'
<1> DEFINE p == groups[g].owner
           was == Member(g, p)
           step == IF keep /\ ~was THEN "addRows" ELSE "saveGroup"
           d == [groups[g] EXCEPT !.owner = v]
           i == [Idle EXCEPT !.at = step, !.op = "transfer", !.group = g, !.user = v]
           j == [i EXCEPT !.who = {p}, !.was = was, !.keep = keep, !.draft = d]
<1>1. g \in Groups /\ v \in users
  BY DEF TransferOwner
<1>2. groups[g] \in GroupDoc /\ p \in UserIds /\ p \in users /\ p = groups[g].owner
  BY <1>1 DEF Groups, GroupDoc, DirInv, ReferencesLive
<1>3. d \in GroupDoc /\ d.owner = v
  BY <1>2 DEF GroupDoc
<1>4. was \in BOOLEAN /\ (was <=> Row(g, {p}) \subseteq members)
  BY DEF Member, Row
<1>5. step \in {"addRows", "saveGroup"} /\ (step = "addRows" <=> keep /\ ~was)
  OBVIOUS
<1>6. Become(w, j)
  BY DEF TransferOwner
<1> HIDE DEF p, d, was, step
<1>7. /\ j \in Job /\ j.at = step /\ j.op = "transfer" /\ j.group = g /\ j.user = v
      /\ j.who = {p} /\ j.was = was /\ j.keep = keep /\ j.draft = d
  <2>1. i \in Job /\ i.at = step /\ i.op = "transfer" /\ i.group = g /\ i.user = v
    BY <1>5 DEF Idle, Job, Steps, Ops
  <2> HIDE DEF i
  <2> QED
    BY <1>2, <1>3, <1>4, <2>1 DEF Job
<1> HIDE DEF j
<1>8. Transferring(j)
  BY <1>1, <1>2, <1>3, <1>4, <1>5, <1>7 DEF Transferring
<1>9. Fit(j)
  BY <1>1, <1>2, <1>3, <1>5, <1>7, <1>8 DEF Fit, InPlace, SigningUp, Writing, Deleting
<1> QED
  BY <1>6, <1>7, <1>9, BeginsFit

(* A group changes while all it names still has a document.                *)
LEMMA SaveGroupFits ==
    ASSUME OneWorker, DirInv, NEW w \in Workers, SaveGroup(w),
           UNCHANGED <<subscriptionVars, references>>
    PROVE  DirInv'
<1> DEFINE g == job[w].group
           d == job[w].draft
<1>1. /\ job[w] \in Job /\ Fit(job[w]) /\ job[w].at = "saveGroup"
      /\ job[w].op \in {"group", "transfer"}
  BY KindOf DEF SaveGroup, At
<1>2. g \in GroupIds /\ d \in GroupDoc /\ d.owner \in users
  BY <1>1 DEF Fit, InPlace, Writing
<1>3. /\ groups' = [groups EXCEPT ![g] = d]
      /\ UNCHANGED <<users, nameOf, members, used, scopes, assigned, licences, references>>
  BY DEF SaveGroup, userVars, subscriptionVars
<1>4. /\ groups' \in [GroupIds -> GroupDoc \cup {NoGroup, Deleted}] /\ groups'[g] = d
      /\ \A h \in GroupIds \ {g} : groups'[h] = groups[h]
  BY <1>2, <1>3 DEF DirInv, TypeOK
<1>5. ReferencesLive'
  BY <1>2, <1>3, <1>4 DEF DirInv, ReferencesLive, Groups
<1>6. Named'
  BY <1>3 DEF DirInv, Named
<1>7. ASSUME job' \in [Workers -> Job] PROVE TypeOK'
  BY <1>3, <1>4, <1>7 DEF DirInv, TypeOK
<1>8. CASE Finish(w)
  BY <1>5, <1>6, <1>7, <1>8, Finishes, OneIsAll DEF DirInv
<1>9. CASE job[w].op = "transfer" /\ Answer(w, TRUE)
  <2>1. /\ job' \in [Workers -> Job] /\ job'[w].ok = TRUE
        /\ job'[w].at = "answered" /\ SameRequest(job'[w], job[w])
    BY <1>9, Answers DEF DirInv
  <2>2. Transferring(job[w])'
    BY <1>1, <1>3, <1>4, <1>9, <2>1 DEF Fit, Transferring, SameRequest, Row
  <2>3. Fit(job[w])'
    BY <1>1, <1>9, <2>1, <2>2 DEF Fit, InPlace, SigningUp, Writing, Deleting, SameRequest
  <2> QED
    BY <1>5, <1>6, <1>7, <2>1, <2>3, OneIsAll
<1> QED
  BY <1>8, <1>9 DEF SaveGroup

LEMMA DeleteGroupFits ==
    ASSUME OneWorker, DirInv, NEW w \in Workers, DeleteGroupDocument(w) \/ DeleteGroupRows(w),
           UNCHANGED <<subscriptionVars, references>>
    PROVE  DirInv'
<1> DEFINE g == job[w].group
<1>1. job[w] \in Job /\ Fit(job[w]) /\ job[w].op = "drop"
  BY KindOf DEF DeleteGroupDocument, DeleteGroupRows, At
<1>2. UNCHANGED <<users, nameOf, used, scopes, assigned, licences, references>>
  BY DEF DeleteGroupDocument, DeleteGroupRows, userVars, subscriptionVars
<1>3. CASE DeleteGroupDocument(w) /\ g \notin Groups
  <2>1. UNCHANGED dataVars /\ Finish(w)
    BY <1>2, <1>3
    DEF DeleteGroupDocument, dataVars, userVars, subscriptionVars, groupVars
  <2> QED
    BY <2>1, FinishFits
<1>4. CASE DeleteGroupDocument(w) /\ g \in Groups
  <2>1. /\ job[w].at = "deleteGroup" /\ members' = members
        /\ groups' = [groups EXCEPT ![g] = Deleted] /\ Goto(w, "deleteRows")
    BY <1>4 DEF DeleteGroupDocument, At
  <2>2. g \in GroupIds /\ g \notin used
    BY <1>1, <2>1 DEF Fit, InPlace, Writing
  <2>3. /\ groups' \in [GroupIds -> GroupDoc \cup {NoGroup, Deleted}]
        /\ groups'[g] = Deleted /\ \A h \in GroupIds \ {g} : groups'[h] = groups[h]
    BY <2>1, <2>2 DEF DirInv, TypeOK
  <2>4. ReferencesLive'
    BY <1>2, <2>1, <2>2, <2>3, NoGroupIsNone DEF DirInv, ReferencesLive, Groups
  <2>5. /\ job' \in [Workers -> Job]
        /\ job'[w].at = "deleteRows" /\ SameRequest(job'[w], job[w])
    BY <2>1, GoesTo DEF DirInv, Steps
  <2>6. TypeOK' /\ Named'
    BY <1>2, <2>1, <2>3, <2>5 DEF DirInv, TypeOK, Named
  <2>7. Fit(job[w])'
    BY <1>1, <2>5
    DEF Fit, InPlace, SigningUp, Writing, Transferring, Deleting, SameRequest
  <2> QED
    BY <2>4, <2>5, <2>6, <2>7, OneIsAll
<1>5. CASE DeleteGroupRows(w)
  <2>1. Finish(w) /\ groups' = groups /\ members' \subseteq members
    BY <1>5 DEF DeleteGroupRows
  <2>2. job' \in [Workers -> Job] /\ Fit(job[w])'
    BY <2>1, Finishes DEF DirInv
  <2>3. TypeOK' /\ Named' /\ ReferencesLive'
    BY <1>2, <2>1, <2>2 DEF DirInv, TypeOK, Named, ReferencesLive, Groups
  <2> QED
    BY <2>2, <2>3, OneIsAll
<1> QED
  BY <1>3, <1>4, <1>5

LEMMA RowsChange ==
    ASSUME OneWorker, DirInv, NEW w \in Workers, AddRows(w) \/ RemoveRows(w),
           UNCHANGED <<subscriptionVars, references>>
    PROVE  DirInv'
<1> DEFINE g == job[w].group
           who == job[w].who
<1>1. /\ job[w] \in Job /\ Fit(job[w]) /\ job[w].op \in {"members", "transfer"}
      /\ job[w].at \in {"addRows", "removeRows"}
  BY KindOf DEF AddRows, RemoveRows, At
<1>2. UNCHANGED <<users, nameOf, groups, used, scopes, assigned, licences, references>>
  BY DEF AddRows, RemoveRows, userVars, subscriptionVars
<1>3. g \in GroupIds /\ who \subseteq UserIds
  BY <1>1 DEF Fit, InPlace, Job
<1>4. \A r \in Row(g, who) : r \in GroupIds \X UserIds /\ r[2] \in who
  BY <1>3 DEF Row
<1>5. \/ /\ AddRows(w) /\ members' = members \cup Row(g, who) /\ who \subseteq users
      \/ RemoveRows(w) /\ members' = members \ Row(g, who)
  BY <1>1 DEF AddRows, RemoveRows, At, Fit, Writing
<1>6. Named' /\ ReferencesLive'
  BY <1>2, <1>4, <1>5 DEF DirInv, Named, ReferencesLive, Groups
<1>7. ASSUME job' \in [Workers -> Job] PROVE TypeOK'
  BY <1>2, <1>4, <1>5, <1>7 DEF DirInv, TypeOK
<1>8. CASE Finish(w)
  BY <1>6, <1>7, <1>8, Finishes, OneIsAll DEF DirInv
<1>9. CASE job[w].op = "transfer" /\ AddRows(w)
  <2>1. /\ Goto(w, "saveGroup") /\ job[w].at = "addRows" /\ members' = members \cup Row(g, who)
    BY <1>9 DEF AddRows, At
  <2>2. /\ job' \in [Workers -> Job]
        /\ job'[w].at = "saveGroup" /\ SameRequest(job'[w], job[w])
    BY <2>1, GoesTo DEF DirInv, Steps
  <2>3. Transferring(job[w])'
    BY <1>1, <1>2, <1>9, <2>1, <2>2 DEF Fit, Transferring, SameRequest
  <2>4. Writing(job[w])'
    BY <1>1, <1>2, <1>9, <2>1, <2>2 DEF Fit, Transferring, Writing, SameRequest
  <2>5. Fit(job[w])'
    BY <1>1, <1>9, <2>2, <2>3, <2>4 DEF Fit, InPlace, SigningUp, Deleting, SameRequest
  <2> QED
    BY <1>6, <1>7, <2>2, <2>5, OneIsAll
<1>10. CASE job[w].op = "transfer" /\ RemoveRows(w)
  <2>1. Answer(w, FALSE) /\ job[w].at = "removeRows" /\ members' = members \ Row(g, who)
    BY <1>10 DEF RemoveRows, At
  <2>2. /\ job' \in [Workers -> Job] /\ job'[w].ok = FALSE
        /\ job'[w].at = "answered" /\ SameRequest(job'[w], job[w])
    BY <2>1, Answers DEF DirInv
  <2>3. PICK u \in UserIds : who = {u}
    BY <1>1, <1>10 DEF Fit, Transferring
  <2>4. <<g, u>> \in Row(g, who) /\ <<g, u>> \notin members'
    BY <2>1, <2>3 DEF Row
  <2>5. ~(Row(g, who) \subseteq members')
    BY <2>4
  <2>6. Transferring(job[w])'
    BY <1>1, <1>2, <1>10, <2>1, <2>2, <2>5 DEF Fit, Transferring, SameRequest, Row
  <2>7. Fit(job[w])'
    BY <1>1, <1>10, <2>2, <2>6 DEF Fit, InPlace, SigningUp, Writing, Deleting, SameRequest
  <2> QED
    BY <1>6, <1>7, <2>2, <2>7, OneIsAll
<1> QED
  BY <1>1, <1>5, <1>8, <1>9, <1>10 DEF AddRows, RemoveRows

LEMMA TransferFailsFits ==
    ASSUME OneWorker, DirInv, NEW w \in Workers, TransferFails(w), UNCHANGED dataVars
    PROVE  DirInv'
<1>1. job[w].at = "saveGroup" /\ job[w].op = "transfer" /\ Fit(job[w]) /\ job[w] \in Job
  BY KindOf DEF TransferFails, At
<1>2. CASE job[w].keep /\ ~job[w].was
  <2>1. ASSUME NEW j \in Job, SameRequest(j, job[w]), j.at = "removeRows" PROVE Fit(j)
    BY <1>1, <1>2, <2>1
    DEF Fit, SameRequest, InPlace, SigningUp, Writing, Transferring, Deleting
  <2> QED
    BY <1>2, <2>1, GotoFits DEF Steps, TransferFails
<1>3. CASE ~(job[w].keep /\ ~job[w].was)
  <2>1. ASSUME NEW j \in Job, SameRequest(j, job[w]), j.at = "answered", j.ok = FALSE
        PROVE  Fit(j)
    BY <1>1, <1>3, <2>1
    DEF Fit, SameRequest, InPlace, SigningUp, Writing, Transferring, Deleting
  <2> QED
    BY <1>3, <2>1, AnswerFits DEF TransferFails
<1> QED
  BY <1>2, <1>3

-----------------------------------------------------------------------------
(* The deletion of a user.                                                 *)

LEMMA DeleteBegins ==
    ASSUME OneWorker, DirInv, NEW w \in Workers, NEW n \in Usernames, NEW u \in UserIds,
           DeleteUser(w, n, u)
    PROVE  DirInv'
<1> DEFINE j == [Idle EXCEPT !.at = "findOwned", !.op = "delete", !.user = u, !.name = n]
<1>1. j \in Job /\ j.at = "findOwned" /\ j.op = "delete" /\ j.user = u /\ j.name = n
  BY DEF Idle, Job, Steps, Ops
<1>2. Become(w, j) /\ UNCHANGED dataVars
  BY DEF DeleteUser, dataVars
<1> HIDE DEF j
<1>3. Fold[nameOf[u]] = Fold[n] /\ nameOf[u] \in Usernames
  BY DEF DeleteUser, Resolves, FindByUsername, DirInv, Named
<1>4. Fit(j)
  BY <1>1, <1>3 DEF Fit, InPlace, SigningUp, Writing, Transferring, Deleting
<1> QED
  BY <1>1, <1>2, <1>4, BeginsFit

LEMMA FindOwnedFits ==
    ASSUME OneWorker, DirInv, NEW w \in Workers, DeleteFindOwned(w)
    PROVE  DirInv'
<1>1. /\ job[w] \in Job /\ Fit(job[w]) /\ job[w].at = "findOwned" /\ job[w].op = "delete"
      /\ UNCHANGED dataVars
  BY KindOf DEF DeleteFindOwned, At, dataVars
<1>2. CASE OwnedBy(job[w].user) = {}
  <2>1. \A g \in Groups : groups[g].owner # job[w].user
    BY <1>2 DEF OwnedBy
  <2>2. ASSUME NEW j \in Job, SameRequest(j, job[w]), j.at = "licences" PROVE Fit(j)
    BY <1>1, <2>1, <2>2
    DEF Fit, SameRequest, InPlace, SigningUp, Writing, Transferring, Deleting
  <2> QED
    BY <1>1, <1>2, <2>2, GotoFits DEF Steps, DeleteFindOwned
<1>3. CASE OwnedBy(job[w].user) # {}
  BY <1>1, <1>3, FinishFits DEF DeleteFindOwned
<1> QED
  BY <1>2, <1>3

LEMMA PurgesFit ==
    ASSUME OneWorker, DirInv, NEW w \in Workers, DeleteLicences(w) \/ DeleteAssignments(w)
    PROVE  DirInv'
<1> DEFINE n == job[w].name
<1>1. job[w] \in Job /\ Fit(job[w]) /\ job[w].op = "delete" /\ n \in Usernames
  <2>1. job[w] \in Job /\ Fit(job[w]) /\ job[w].op = "delete"
    BY KindOf DEF DeleteLicences, DeleteAssignments, At
  <2> QED
    BY <2>1 DEF Fit, InPlace
<1>2. assigned \in Docs /\ licences \in Docs /\ scopes \subseteq Scopes
  BY DEF DirInv, TypeOK, Docs
<1>3. UNCHANGED <<userVars, scopes, groupVars, references>>
  BY DEF DeleteLicences, DeleteAssignments
<1>4. ASSUME assigned' \in Docs, licences' \in Docs, job' \in [Workers -> Job], Fit(job[w])'
      PROVE  DirInv'
  BY <1>2, <1>3, <1>4, CountsKeep, OneIsAll DEF DirInv
<1>5. CASE DeleteLicences(w)
  <2>1. /\ job' \in [Workers -> Job]
        /\ job'[w].at = "assignments" /\ SameRequest(job'[w], job[w])
    BY <1>5, GoesTo DEF DeleteLicences, DirInv, Steps
  <2>2. /\ job[w].at = "licences" /\ assigned' = assigned /\ licences' \in Docs
        /\ \A s \in Scopes : licences'[<<n, s>>] = 0
    BY <1>1, <1>2, <1>5, PurgeIs DEF DeleteLicences, At
  <2>3. Deleting(job[w])'
    BY <1>1, <1>3, <2>1, <2>2
    DEF Fit, Deleting, SameRequest, Groups, userVars, groupVars
  <2>4. Fit(job[w])'
    BY <1>1, <2>1, <2>3 DEF Fit, InPlace, SigningUp, Writing, Transferring, SameRequest
  <2> QED
    BY <1>2, <1>4, <2>1, <2>2, <2>4
<1>6. CASE DeleteAssignments(w)
  <2>1. /\ job' \in [Workers -> Job]
        /\ job'[w].at = "acl" /\ SameRequest(job'[w], job[w])
    BY <1>6, GoesTo DEF DeleteAssignments, DirInv, Steps
  <2>2. /\ job[w].at = "assignments" /\ licences' = licences /\ assigned' \in Docs
        /\ \A s \in Scopes : assigned'[<<n, s>>] = 0
    BY <1>1, <1>2, <1>6, PurgeIs DEF DeleteAssignments, At
  <2>3. Deleting(job[w])'
    BY <1>1, <1>3, <2>1, <2>2
    DEF Fit, Deleting, SameRequest, Groups, userVars, groupVars
  <2>4. Fit(job[w])'
    BY <1>1, <2>1, <2>3 DEF Fit, InPlace, SigningUp, Writing, Transferring, SameRequest
  <2> QED
    BY <1>2, <1>4, <2>1, <2>2, <2>4
<1> QED
  BY <1>5, <1>6

LEMMA DeleteReferencesFits ==
    ASSUME OneWorker, DirInv, NEW w \in Workers, NEW c \in Components, DeleteReferences(w, c)
    PROVE  DirInv'
<1> DEFINE u == job[w].user
<1>1. /\ job[w] \in Job /\ Fit(job[w]) /\ job[w].op = "delete"
      /\ job[w].at = c /\ c \in {"acl", "ngac", "rbac"}
  BY KindOf DEF DeleteReferences, At, Components
<1>2. /\ references' = references \ {<<c, u>>}
      /\ UNCHANGED <<users, nameOf, scopes, assigned, licences, groups, members, used>>
  BY DEF DeleteReferences, userVars, subscriptionVars, groupVars
<1>3. /\ After[c] \in Steps
      /\ c = "acl" => After[c] = "memberships"
      /\ c = "ngac" => After[c] = "rbac"
      /\ c = "rbac" => After[c] = "document"
  BY <1>1 DEF After, Steps
<1>4. /\ job' \in [Workers -> Job]
      /\ job'[w].at = After[c] /\ SameRequest(job'[w], job[w])
  BY <1>3, GoesTo DEF DeleteReferences, DirInv
<1>5. TypeOK' /\ Named' /\ ReferencesLive'
  BY <1>2, <1>4 DEF DirInv, TypeOK, Named, ReferencesLive, Groups
<1>6. Deleting(job[w])'
  BY <1>1, <1>2, <1>3, <1>4 DEF Fit, Deleting, SameRequest, Groups
<1>7. Fit(job[w])'
  BY <1>1, <1>3, <1>4, <1>6
  DEF Fit, InPlace, SigningUp, Writing, Transferring, SameRequest
<1> QED
  BY <1>4, <1>5, <1>7, OneIsAll

LEMMA DeleteMembershipsFits ==
    ASSUME OneWorker, DirInv, NEW w \in Workers, DeleteMemberships(w)
    PROVE  DirInv'
<1> DEFINE u == job[w].user
<1>1. job[w] \in Job /\ Fit(job[w]) /\ job[w].op = "delete" /\ job[w].at = "memberships"
  BY KindOf DEF DeleteMemberships, At
<1>2. UNCHANGED <<users, nameOf, scopes, assigned, licences, groups, used, references>>
  BY DEF DeleteMemberships, userVars, subscriptionVars
<1>3. CASE OwnedBy(u) = {}
  <2>1. members' = members \ (GroupIds \X {u}) /\ Goto(w, "ngac")
    BY <1>3 DEF DeleteMemberships
  <2>2. \A r \in members' : r[2] # u
    BY <2>1 DEF DirInv, TypeOK
  <2>3. /\ job' \in [Workers -> Job]
        /\ job'[w].at = "ngac" /\ SameRequest(job'[w], job[w])
    BY <2>1, GoesTo DEF DirInv, Steps
  <2>4. TypeOK' /\ Named' /\ ReferencesLive'
    BY <1>2, <2>1, <2>3 DEF DirInv, TypeOK, Named, ReferencesLive, Groups
  <2>5. Deleting(job[w])'
    BY <1>1, <1>2, <2>2, <2>3 DEF Fit, Deleting, SameRequest, Groups
  <2>6. Fit(job[w])'
    BY <1>1, <2>3, <2>5 DEF Fit, InPlace, SigningUp, Writing, Transferring, SameRequest
  <2> QED
    BY <2>3, <2>4, <2>6, OneIsAll
<1>4. CASE OwnedBy(u) # {}
  <2>1. UNCHANGED dataVars /\ Finish(w)
    BY <1>2, <1>4 DEF DeleteMemberships, dataVars, userVars, subscriptionVars, groupVars
  <2> QED
    BY <2>1, FinishFits
<1> QED
  BY <1>3, <1>4

(* The document goes last, when nothing tells of the user any more.        *)
LEMMA DeleteDocumentFits ==
    ASSUME OneWorker, DirInv, NEW w \in Workers, DeleteDocument(w)
    PROVE  DirInv'
<1> DEFINE u == job[w].user
<1>1. /\ job[w] \in Job /\ Fit(job[w]) /\ job[w].op = "delete" /\ job[w].at = "document"
  BY KindOf DEF DeleteDocument, At
<1>2. u \in UserIds /\ Traceless(u)
  BY <1>1 DEF Fit, InPlace, Deleting, Traceless, Components
<1>3. users' = users \ {u} /\ UNCHANGED <<nameOf, subscriptionVars, groupVars, references>>
  BY DEF DeleteDocument
<1>4. /\ job' \in [Workers -> Job] /\ job'[w].ok = TRUE
      /\ job'[w].at = "answered" /\ SameRequest(job'[w], job[w])
  BY Answers DEF DeleteDocument, DirInv
<1>5. Deleting(job[w])'
  BY <1>1, <1>3, <1>4
  DEF Fit, Deleting, SameRequest, Groups, subscriptionVars, groupVars
<1>6. Fit(job[w])'
  BY <1>1, <1>4, <1>5 DEF Fit, InPlace, SigningUp, Writing, Transferring, SameRequest
<1> QED
  BY <1>2, <1>3, <1>4, <1>6, UserGoes, OneIsAll

-----------------------------------------------------------------------------
(* What other components do between the requests of this one.              *)
LEMMA OthersFit ==
    ASSUME OneWorker, DirInv,
           \/ \E g \in GroupIds : (Use(g) \/ Unuse(g)) /\ UNCHANGED <<subscriptionVars, references>>
           \/ \E c \in Components, u \in UserIds : Refer(c, u) \/ Unrefer(c, u)
    PROVE  DirInv'
<1>1. /\ UNCHANGED <<users, nameOf, scopes, assigned, licences, groups, members, job>>
      /\ \A w \in Workers : job[w].at \in {"idle", "answered"}
  BY DEF Use, Unuse, Refer, Unrefer, Quiet, Free, userVars, subscriptionVars, groupVars
<1>2. used' \subseteq GroupIds /\ used' \subseteq Groups
  BY DEF Use, Unuse, Refer, Unrefer, groupVars, DirInv, TypeOK, ReferencesLive
<1>3. \/ references' \subseteq references
      \/ \E c \in Components, u \in users : references' = references \cup {<<c, u>>}
  BY DEF Use, Unuse, Refer, Unrefer
<1>4. /\ references' \subseteq Components \X UserIds
      /\ \A r \in references' : r[2] \in users
      /\ \A r \in references' \ references : r[2] \in users
  BY <1>3 DEF DirInv, TypeOK, ReferencesLive
<1>5. TypeOK' /\ Named' /\ ReferencesLive'
  BY <1>1, <1>2, <1>4 DEF DirInv, TypeOK, Named, ReferencesLive, Groups
<1>6. ASSUME NEW w \in Workers PROVE Fit(job[w])'
  <2>1. Fit(job[w]) /\ job[w].at \in {"idle", "answered"}
    BY <1>1 DEF DirInv
  <2>2. InPlace(job[w])' /\ Writing(job[w])' /\ Transferring(job[w])'
    BY <1>1, <2>1 DEF Fit, InPlace, Writing, Transferring
  <2>3. SigningUp(job[w])'
    BY <1>1, <2>1 DEF Fit, SigningUp, OnlyNamed
  <2>4. \A c \in Components, u \in UserIds \ users :
           <<c, u>> \notin references => <<c, u>> \notin references'
    BY <1>4
  <2>5. Deleting(job[w])'
    BY <1>1, <2>1, <2>4 DEF Fit, InPlace, Deleting, Groups, Components
  <2> QED
    BY <2>2, <2>3, <2>5 DEF Fit
<1> QED
  BY <1>5, <1>6 DEF DirInv

LEMMA DirInvInductive ==
    ASSUME OneWorker
    PROVE  (Init => DirInv) /\ (DirInv /\ [Next]_vars => DirInv')
<1>1. ASSUME Init PROVE DirInv
  <2>1. TypeOK
    BY <1>1, IdleFits, MaxCopiesAssumption DEF Init, TypeOK
  <2>2. Groups = {}
    BY <1>1, NoGroupIsNone DEF Init, Groups
  <2>3. Named /\ ReferencesLive
    BY <1>1, <2>2 DEF Init, Named, ReferencesLive
  <2> QED
    BY <1>1, <2>1, <2>3, IdleFits DEF Init, DirInv
<1>2. ASSUME DirInv, UNCHANGED vars PROVE DirInv'
  <2>1. UNCHANGED dataVars /\ job' = job
    BY <1>2 DEF vars, dataVars
  <2>2. TypeOK' /\ Named' /\ ReferencesLive'
    BY <1>2, <2>1, DataKept DEF DirInv, TypeOK
  <2>3. ASSUME NEW w \in Workers PROVE Fit(job[w])'
    <3>1. PICK j : j = job[w]
      OBVIOUS
    <3>2. Fit(j)'
      BY <1>2, <2>1, <3>1, FitKept DEF DirInv
    <3> QED
      BY <2>1, <3>1, <3>2
  <2> QED
    BY <2>2, <2>3 DEF DirInv
<1>3. ASSUME DirInv, NEW w \in Workers, SubscriptionNext(w), UNCHANGED <<groupVars, references>>
      PROVE  DirInv'
  <2>1. ASSUME NEW n \in Usernames, NEW s \in Scopes,
               AssignScope(w, n, s) \/ AssignLicence(w, n, s) \/ RotateLicence(w, n, s)
        PROVE  DirInv'
    <3>1. UNCHANGED dataVars
      BY <1>3, <2>1 DEF AssignScope, AssignLicence, RotateLicence, dataVars
    <3> QED
      BY <1>3, <2>1, <3>1, AssignBegins
  <2>2. ASSUME NEW s \in Scopes, CreateScope(w, s) \/ DeleteScope(w, s) PROVE DirInv'
    <3>1. UNCHANGED dataVars
      BY <1>3, <2>2 DEF CreateScope, DeleteScope, dataVars
    <3> QED
      BY <1>3, <2>2, <3>1, CreateScopeBegins, DeleteScopeBegins
  <2> QED
    BY <1>3, <2>1, <2>2, SignUpBegins, StepsKeepDocuments, ScopesChange, CountsFall, CountsGrow,
       InsertUserFits, RollbackFits DEF SubscriptionNext
<1>4. ASSUME DirInv, NEW w \in Workers, GroupNext(w), UNCHANGED <<subscriptionVars, references>>
      PROVE  DirInv'
  <2>1. ASSUME \/ \E u \in UserIds, n \in GroupNames : CreateGroup(w, u, n)
               \/ \E g \in GroupIds, active \in BOOLEAN : SetStatus(w, g, active)
               \/ \E c \in Callers, g \in GroupIds, n \in GroupNames : UpdateGroup(w, c, g, n)
        PROVE  DirInv'
    <3>1. UNCHANGED dataVars
      BY <1>4, <2>1 DEF CreateGroup, SetStatus, UpdateGroup, dataVars
    <3> QED
      BY <1>4, <2>1, <3>1, EditBegins
  <2>2. ASSUME NEW c \in Callers, NEW g \in GroupIds, DeleteGroup(w, c, g) PROVE DirInv'
    BY <1>4, <2>2, DeleteGroupBegins DEF DeleteGroup, dataVars
  <2>3. ASSUME NEW c \in Callers, NEW g \in GroupIds, NEW v \in UserIds, NEW keep \in BOOLEAN,
               TransferOwner(w, c, g, v, keep)
        PROVE  DirInv'
    <3>1. UNCHANGED <<userVars, groupVars>>
      BY <2>3 DEF TransferOwner
    <3>2. UNCHANGED dataVars
      BY <1>4, <3>1 DEF userVars, groupVars, dataVars
    <3> QED
      BY <1>4, <2>3, <3>2, TransferBegins
  <2>4. ASSUME NEW c \in Callers, NEW g \in GroupIds, NEW who \in SUBSET UserIds,
               AddMembers(w, c, g, who) \/ RemoveMembers(w, c, g, who)
        PROVE  DirInv'
    <3>1. UNCHANGED dataVars
      BY <1>4, <2>4 DEF AddMembers, RemoveMembers, dataVars
    <3> QED
      BY <1>4, <2>4, <3>1, AddMembersBegins, RemoveMembersBegins
  <2>5. ASSUME TransferFails(w) PROVE DirInv'
    BY <1>4, <2>5, TransferFailsFits DEF TransferFails, dataVars
  <2> QED
    BY <1>4, <2>1, <2>2, <2>3, <2>4, <2>5, SaveGroupFits, DeleteGroupFits, RowsChange
    DEF GroupNext
<1>5. ASSUME DirInv, NEW w \in Workers, DeletionNext(w) \/ Abort(w) PROVE DirInv'
  <2>1. ASSUME Abort(w) PROVE DirInv'
    BY <1>5, <2>1, FinishFits DEF Abort, dataVars
  <2> QED
    BY <1>5, <2>1, DeleteBegins, FindOwnedFits, PurgesFit, DeleteReferencesFits,
       DeleteMembershipsFits, DeleteDocumentFits DEF DeletionNext
<1> QED
  BY <1>1, <1>2, <1>3, <1>4, <1>5, OthersFit DEF Next

(* Requests one at a time: what each has found or done is still so at its  *)
(* next step, and the documents fit together whichever position it has     *)
(* reached.                                                                *)
THEOREM DirectoryInvariant ==
    ASSUME OneWorker
    PROVE  Spec => []DirInv
  BY DirInvInductive, PTL DEF Spec

(* Requests one at a time, wherever they stop: no owner, member, grant,    *)
(* node or assignment outlives the document of its user, nor the use of a  *)
(* group the group.                                                        *)
THEOREM NoReferenceOutlivesItsUser ==
    ASSUME OneWorker
    PROVE  Spec => []ReferencesLive
<1>1. DirInv => ReferencesLive
  BY DEF DirInv
<1> QED
  BY <1>1, DirectoryInvariant, PTL

(* Where callers spell usernames as they were registered, a deletion that  *)
(* succeeds leaves nothing of the user.                                    *)
THEOREM DeletionLeavesNothing ==
    ASSUME OneWorker, SpelledAsStored
    PROVE  Spec => []DeletionIsComplete
<1>1. ASSUME DirInv, NEW w \in Workers, Answered(w, "delete", TRUE)
      PROVE  LET u == job[w].user IN
             /\ \A s \in Scopes : licences[<<nameOf[u], s>>] = 0 /\ assigned[<<nameOf[u], s>>] = 0
             /\ u \notin {r[2] : r \in members \cup references}
  <2> DEFINE u == job[w].user
  <2>1. job[w].at = "answered" /\ Deleting(job[w]) /\ InPlace(job[w]) /\ job[w].op = "delete"
    BY <1>1 DEF Answered, At, DirInv, Fit
  <2>2. nameOf[u] = job[w].name
    BY <2>1 DEF Deleting, InPlace, SpelledAsStored
  <2>3. \A c \in Components : <<c, u>> \notin references
    BY <2>1 DEF Deleting, Components
  <2>4. \A r \in references : r[1] \in Components /\ r = <<r[1], r[2]>>
    BY <1>1 DEF DirInv, TypeOK
  <2>5. \A r \in references : r[2] # u
    BY <2>3, <2>4
  <2> QED
    BY <2>1, <2>2, <2>5 DEF Deleting
<1>2. DirInv => DeletionIsComplete
  BY <1>1 DEF DeletionIsComplete
<1> QED
  BY <1>2, DirectoryInvariant, PTL

(* A failed sign-up leaves no user and a failed transfer the owner and the *)
(* members as they were, and a success has both of its writes.             *)
THEOREM CompensationsAreComplete ==
    ASSUME OneWorker
    PROVE  Spec => []CompensationIsComplete
<1>1. DirInv => SignUpAllOrNothing
  BY DEF DirInv, Fit, SigningUp, OnlyNamed, FindByUsername, SignUpAllOrNothing, Answered, At
<1>2. DirInv => TransferAllOrNothing
  BY DEF DirInv, Fit, Transferring, TransferAllOrNothing, Answered, At
<1> QED
  BY <1>1, <1>2, DirectoryInvariant, PTL DEF CompensationIsComplete
=============================================================================
