------------------------- MODULE PlatformUsersProofs -------------------------
(***************************************************************************)
(* Proofs about PlatformUsers.  However requests overlap, every document   *)
(* is well formed, no username is taken twice and guests cannot manage     *)
(* (DocumentInv); if requests do not overlap, an administrator remains, a  *)
(* login changes nothing and a revocation leaves no session.               *)
(***************************************************************************)
EXTENDS PlatformUsers, FiniteSetTheorems, TLAPS

GuestOK(doc) == doc.role = "guest" => doc.permissions \subseteq ReadOnly
DocOK(doc) == doc \in UserDoc /\ GuestOK(doc)

\* What a request in flight will write is well formed.
JobOK(j) ==
    /\ j \in Job
    /\ j.at # "idle" => j.id \in Ids
    /\ j.at = "save" => DocOK(j.draft) /\ j.then \in {"idle", "open", "scan"}
    /\ j.at = "count" => /\ j.then \in {"save", "delete"}
                         /\ j.then = "save" => DocOK(j.draft)
    /\ j.at = "open" => j.draft \in UserDoc

DocumentInv ==
    /\ user \in [Ids -> UserDoc \cup {NoUser}]
    /\ session \in [Tokens -> SessionDoc \cup {NoSession}]
    /\ job \in [Workers -> Job]
    /\ \A w \in Workers : JobOK(job[w])
    /\ \A i \in Stored : GuestOK(user[i])
    /\ UniqueUsernames

-----------------------------------------------------------------------------
LEMMA NoUserIsNoDoc == NoUser \notin UserDoc
  BY NoneIsFresh DEF NoUser, UserDoc

LEMMA StoredDocs ==
    ASSUME DocumentInv, NEW i \in Stored
    PROVE  DocOK(user[i])
  BY DEF DocumentInv, Stored, DocOK

LEMMA IdleJobOK == JobOK(Idle) /\ Idle \in Job
  BY DEF JobOK, Idle, Job

(* A request whose write is well formed may begin.                         *)
LEMMA BeginKeepsInv ==
    ASSUME DocumentInv, NEW w \in Workers, NEW i \in Ids, NEW doc,
           NEW step \in {"count", "save", "delete"}, NEW then,
           Begin(w, step, then, i, doc),
           step = "save" => DocOK(doc) /\ then \in {"idle", "open", "scan"},
           step = "count" => /\ then \in {"save", "delete"}
                             /\ then = "save" => DocOK(doc),
           step = "delete" => then = "scan",
           doc \in UserDoc \cup {NoUser}
    PROVE  DocumentInv'
<1> DEFINE j == [at |-> step, then |-> then, id |-> i, draft |-> doc, keys |-> {}]
<1>1. JobOK(j) /\ j \in Job
  BY DEF JobOK, Job
<1>2. job' = [job EXCEPT ![w] = j] /\ user' = user /\ session' = session
  BY DEF Begin, Become
<1> QED
  BY <1>1, <1>2 DEF DocumentInv, Stored, UniqueUsernames

(* A step that moves one request on and leaves the users alone.            *)
LEMMA MoveKeepsInv ==
    ASSUME DocumentInv, NEW w \in Workers, NEW j \in Job,
           Become(w, j), JobOK(j), user' = user,
           session' \in [Tokens -> SessionDoc \cup {NoSession}]
    PROVE  DocumentInv'
  BY DEF DocumentInv, Become, Stored, UniqueUsernames

LEMMA NewDocOK ==
    ASSUME NEW doc \in UserDoc
    PROVE  DocOK([doc EXCEPT !.permissions = ForRole(doc.role, @)])
<1>1. ForRole(doc.role, doc.permissions) \in SUBSET Permissions
  BY DEF ForRole, UserDoc
<1>2. doc.role = "guest" => ForRole(doc.role, doc.permissions) \subseteq ReadOnly
  BY DEF ForRole
<1> QED
  BY <1>1, <1>2 DEF DocOK, GuestOK, UserDoc

LEMMA UpdatedOK ==
    ASSUME NEW doc, DocOK(doc), NEW role \in {"admin", "user", "guest"},
           NEW ps \in (SUBSET Permissions) \cup {None}, NEW active \in BOOLEAN
    PROVE  DocOK(Updated(doc, role, ps, active))
<1>1. \A q \in SUBSET Permissions : /\ ForRole(role, q) \in SUBSET Permissions
                                    /\ role = "guest" => ForRole(role, q) \subseteq ReadOnly
  BY DEF ForRole
<1>2. doc \in UserDoc /\ doc.permissions \in SUBSET Permissions
  BY DEF DocOK, UserDoc
<1> DEFINE new == IF ps # None THEN ForRole(role, ps)
                  ELSE IF role = "guest" THEN ForRole(role, doc.permissions)
                  ELSE doc.permissions
<1>3. new \in SUBSET Permissions /\ (role = "guest" => new \subseteq ReadOnly)
  BY <1>1, <1>2
<1>4. Updated(doc, role, ps, active) =
         [doc EXCEPT !.role = role, !.active = active, !.permissions = new]
  BY <1>2 DEF Updated, UserDoc
<1> HIDE DEF new
<1> QED
  BY <1>2, <1>3, <1>4 DEF DocOK, GuestOK, UserDoc

-----------------------------------------------------------------------------
LEMMA ServeKeepsInv ==
    ASSUME DocumentInv, NEW w \in Workers, Serve(w)
    PROVE  DocumentInv'
<1>1. ASSUME NEW i \in Ids, NEW n \in Names, NEW p \in Passwords, Bootstrap(w, i, n, p)
      PROVE  DocumentInv'
  <2> DEFINE doc == [name |-> n, password |-> p, role |-> "admin", permissions |-> {},
                     active |-> TRUE, must_change |-> TRUE]
  <2>1. DocOK(doc) /\ doc \in UserDoc
    BY DEF DocOK, GuestOK, UserDoc
  <2>2. Begin(w, "save", "idle", i, doc)
    BY <1>1 DEF Bootstrap
  <2> HIDE DEF doc
  <2> QED
    BY <2>1, <2>2, BeginKeepsInv
<1>2. ASSUME NEW i \in Ids, NEW p \in Passwords, Login(w, i, p)
      PROVE  DocumentInv'
  BY <1>2, StoredDocs, BeginKeepsInv DEF Login, DocOK
<1>3. ASSUME NEW i \in Ids, NEW p \in Passwords, ChangePassword(w, i, p)
      PROVE  DocumentInv'
  <2> DEFINE doc == [user[i] EXCEPT !.password = p, !.must_change = FALSE]
  <2>1. DocOK(user[i])
    BY <1>3, StoredDocs DEF ChangePassword, SignedIn
  <2>2. DocOK(doc) /\ doc \in UserDoc
    BY <2>1 DEF DocOK, GuestOK, UserDoc
  <2>3. Begin(w, "save", "scan", i, doc)
    BY <1>3 DEF ChangePassword
  <2> HIDE DEF doc
  <2> QED
    BY <2>2, <2>3, BeginKeepsInv
<1>4. ASSUME NEW i \in Ids, NEW p \in Passwords, ResetPassword(w, i, p)
      PROVE  DocumentInv'
  <2> DEFINE doc == [user[i] EXCEPT !.password = p, !.must_change = TRUE]
  <2>1. DocOK(user[i])
    BY <1>4, StoredDocs DEF ResetPassword
  <2>2. DocOK(doc) /\ doc \in UserDoc
    BY <2>1 DEF DocOK, GuestOK, UserDoc
  <2>3. Begin(w, "save", "scan", i, doc)
    BY <1>4 DEF ResetPassword
  <2> HIDE DEF doc
  <2> QED
    BY <2>2, <2>3, BeginKeepsInv
<1>5. ASSUME NEW i \in Ids, NEW d \in UserDoc, Create(w, i, d)
      PROVE  DocumentInv'
  <2> DEFINE doc == [d EXCEPT !.permissions = ForRole(d.role, @)]
  <2>1. DocOK(doc) /\ doc \in UserDoc
    BY NewDocOK DEF DocOK
  <2>2. Begin(w, "save", "idle", i, doc)
    BY <1>5 DEF Create
  <2> HIDE DEF doc
  <2> QED
    BY <2>1, <2>2, BeginKeepsInv
<1>6. ASSUME NEW i \in Ids, NEW role \in {"admin", "user", "guest"},
             NEW ps \in (SUBSET Permissions) \cup {None}, NEW active \in BOOLEAN,
             Update(w, i, role, ps, active)
      PROVE  DocumentInv'
  <2> DEFINE doc == Updated(user[i], role, ps, active)
  <2>1. DocOK(user[i])
    BY <1>6, StoredDocs DEF Update
  <2>2. DocOK(doc) /\ doc \in UserDoc
    BY <2>1, UpdatedOK DEF DocOK
  <2>3. Begin(w, "save", "scan", i, doc) \/ Begin(w, "count", "save", i, doc)
    BY <1>6 DEF Update, Guarded
  <2> HIDE DEF doc
  <2> QED
    BY <2>2, <2>3, BeginKeepsInv
<1>7. ASSUME NEW i \in Ids, Delete(w, i) PROVE DocumentInv'
  <2>1. Begin(w, "delete", "scan", i, NoUser) \/ Begin(w, "count", "delete", i, NoUser)
    BY <1>7 DEF Delete, Guarded
  <2> QED
    BY <2>1, BeginKeepsInv
<1> QED
  BY <1>1, <1>2, <1>3, <1>4, <1>5, <1>6, <1>7 DEF Serve

LEMMA DocumentInvInductive ==
    /\ Init => DocumentInv
    /\ DocumentInv /\ [Next]_vars => DocumentInv'
<1>1. Init => DocumentInv
  BY IdleJobOK DEF Init, DocumentInv, Stored, UniqueUsernames
<1>2. ASSUME DocumentInv, NEW w \in Workers, CountAdmins(w) PROVE DocumentInv'
  <2> DEFINE j == [job[w] EXCEPT !.at = job[w].then, !.then = "scan"]
  <2>1. JobOK(job[w]) /\ job[w] \in Job /\ job[w].at = "count"
    BY <1>2 DEF DocumentInv, CountAdmins, At
  <2>2. JobOK(j) /\ j \in Job
    BY <2>1 DEF JobOK, Job
  <2>3. session' \in [Tokens -> SessionDoc \cup {NoSession}] /\ user' = user
    BY <1>2 DEF CountAdmins, DocumentInv
  <2>4. Become(w, j) \/ Become(w, Idle)
    BY <1>2 DEF CountAdmins, Finish
  <2> HIDE DEF j
  <2> QED
    BY <1>2, <2>2, <2>3, <2>4, IdleJobOK, MoveKeepsInv
<1>3. ASSUME DocumentInv, NEW w \in Workers, Save(w) PROVE DocumentInv'
  <2> DEFINE i == job[w].id
             doc == job[w].draft
             then == job[w].then
             j == IF then = "idle" THEN Idle ELSE [job[w] EXCEPT !.at = then]
  <2>1. /\ JobOK(job[w]) /\ job[w] \in Job /\ i \in Ids
        /\ DocOK(doc) /\ doc \in UserDoc /\ then \in {"idle", "open", "scan"}
    BY <1>3 DEF DocumentInv, Save, At, JobOK, DocOK
  <2>2. JobOK(j) /\ j \in Job
    BY <2>1, IdleJobOK DEF JobOK, Job
  <2>3. CASE Finish(w) /\ UNCHANGED user
    BY <1>3, <2>3, IdleJobOK, MoveKeepsInv DEF Finish, Save, DocumentInv
  <2>4. CASE /\ \A k \in Stored \ {i} : user[k].name # doc.name
             /\ user' = [user EXCEPT ![i] = doc]
             /\ Continue(w, then)
    <3>1. job' = [job EXCEPT ![w] = j] /\ session' = session
      BY <1>3, <2>4 DEF Continue, Become, Save
    <3>2. user' \in [Ids -> UserDoc \cup {NoUser}]
      BY <1>3, <2>1, <2>4 DEF DocumentInv
    <3>3. Stored' = Stored \cup {i}
      BY <1>3, <2>1, <2>4, NoUserIsNoDoc DEF DocumentInv, Stored
    <3>4. \A k \in Stored' : user'[k] = IF k = i THEN doc ELSE user[k]
      BY <1>3, <2>1, <2>4 DEF DocumentInv, Stored
    <3>5. UniqueUsernames'
      BY <1>3, <2>4, <3>3, <3>4 DEF DocumentInv, UniqueUsernames
    <3>6. \A k \in Stored' : GuestOK(user'[k])
      BY <1>3, <2>1, <3>3, <3>4 DEF DocumentInv, DocOK
    <3>7. job' \in [Workers -> Job] /\ \A v \in Workers : JobOK(job'[v])
      BY <1>3, <2>2, <3>1 DEF DocumentInv
    <3> QED
      BY <1>3, <3>1, <3>2, <3>5, <3>6, <3>7 DEF DocumentInv
  <2> QED
    BY <1>3, <2>3, <2>4 DEF Save
<1>4. ASSUME DocumentInv, NEW w \in Workers, DeleteUser(w) PROVE DocumentInv'
  <2> DEFINE i == job[w].id
             j == [job[w] EXCEPT !.at = "scan"]
  <2>1. JobOK(job[w]) /\ job[w] \in Job /\ job[w].at = "delete" /\ i \in Ids
    BY <1>4 DEF DocumentInv, DeleteUser, At, JobOK
  <2>2. JobOK(j) /\ j \in Job
    BY <2>1 DEF JobOK, Job
  <2>3. /\ job' = [job EXCEPT ![w] = j] /\ session' = session
        /\ user' = [user EXCEPT ![i] = NoUser]
    BY <1>4 DEF DeleteUser, Continue, Become
  <2>4. /\ user' \in [Ids -> UserDoc \cup {NoUser}]
        /\ Stored' = Stored \ {i}
        /\ \A k \in Stored' : user'[k] = user[k]
    BY <1>4, <2>1, <2>3 DEF DocumentInv, Stored
  <2> HIDE DEF j
  <2>5. job' \in [Workers -> Job] /\ \A v \in Workers : JobOK(job'[v])
    BY <1>4, <2>2, <2>3 DEF DocumentInv
  <2> QED
    BY <1>4, <2>3, <2>4, <2>5 DEF DocumentInv, UniqueUsernames
<1>5. ASSUME DocumentInv, NEW w \in Workers, NEW t \in Tokens, OpenSession(w, t)
      PROVE  DocumentInv'
  <2>1. [user |-> job[w].id, password |-> job[w].draft.password] \in SessionDoc
    BY <1>5 DEF DocumentInv, OpenSession, At, JobOK, SessionDoc, UserDoc
  <2>2. session' \in [Tokens -> SessionDoc \cup {NoSession}]
    BY <1>5, <2>1 DEF DocumentInv, OpenSession
  <2> QED
    BY <1>5, <2>2, IdleJobOK, MoveKeepsInv DEF OpenSession, Finish
<1>6. ASSUME DocumentInv, NEW w \in Workers, ScanSessions(w) PROVE DocumentInv'
  <2> DEFINE j == [job[w] EXCEPT !.at = "revoke",
                                 !.keys = {t \in Tokens : session[t] # NoSession}]
  <2>1. JobOK(j) /\ j \in Job
    BY <1>6 DEF DocumentInv, ScanSessions, At, JobOK, Job
  <2> HIDE DEF j
  <2>2. Become(w, j) /\ user' = user /\ session' = session
    BY <1>6 DEF ScanSessions, j
  <2> QED
    BY <1>6, <2>1, <2>2, MoveKeepsInv DEF DocumentInv
<1>7. ASSUME DocumentInv, NEW w \in Workers, NEW t \in Tokens, RevokeSession(w, t)
      PROVE  DocumentInv'
  <2> DEFINE j == [job[w] EXCEPT !.keys = @ \ {t}]
  <2>1. JobOK(j) /\ j \in Job
    BY <1>7 DEF DocumentInv, RevokeSession, At, JobOK, Job
  <2>2. session' \in [Tokens -> SessionDoc \cup {NoSession}]
    BY <1>7 DEF DocumentInv, RevokeSession
  <2> HIDE DEF j
  <2>3. Become(w, j) /\ user' = user
    BY <1>7 DEF RevokeSession, j
  <2> QED
    BY <1>7, <2>1, <2>2, <2>3, MoveKeepsInv
<1>8. ASSUME DocumentInv, NEW w \in Workers, SessionsRevoked(w) \/ Abort(w)
      PROVE  DocumentInv'
  BY <1>8, IdleJobOK, MoveKeepsInv DEF SessionsRevoked, Abort, Finish, DocumentInv
<1>9. ASSUME DocumentInv, NEW t \in Tokens, EndSession(t) PROVE DocumentInv'
  BY <1>9 DEF DocumentInv, EndSession, Stored, UniqueUsernames
<1>10. ASSUME DocumentInv, UNCHANGED vars PROVE DocumentInv'
  BY <1>10 DEF DocumentInv, vars, Stored, UniqueUsernames
<1> QED
  BY <1>1, <1>2, <1>3, <1>4, <1>5, <1>6, <1>7, <1>8, <1>9, <1>10, ServeKeepsInv DEF Next

(* Documents, sessions and requests in flight stay well typed.             *)
THEOREM PlatformUsersTyping == Spec => []TypeOK
<1>1. DocumentInv => TypeOK
  BY DEF DocumentInv, TypeOK
<1> QED
  BY <1>1, DocumentInvInductive, PTL DEF Spec

(* However creations, logins and deletions overlap, a username names one   *)
(* platform user.                                                          *)
THEOREM UsernamesStayUnique == Spec => []UniqueUsernames
<1>1. DocumentInv => UniqueUsernames
  BY DEF DocumentInv
<1> QED
  BY <1>1, DocumentInvInductive, PTL DEF Spec

(* However requests overlap, a guest is left no permission to manage.      *)
THEOREM GuestsNeverManage == Spec => []GuestsOnlyRead
<1>1. DocumentInv => GuestsOnlyRead
  BY DEF DocumentInv, GuestsOnlyRead, GuestOK
<1> QED
  BY <1>1, DocumentInvInductive, PTL DEF Spec

-----------------------------------------------------------------------------
(* One request at a time.                                                  *)
OneWorker == \A v, w \in Workers : v = w

SerialInv == DocumentInv /\ AdminInv

LEMMA AnAdminRemains ==
    ASSUME SerialInv, NEW i \in Stored, ~IsAdmin(user[i])
    PROVE  OthersAdmin(i)
<1>1. ActiveAdmins # {} /\ i \notin ActiveAdmins
  BY DEF SerialInv, AdminInv, AdminRemains, ActiveAdmins
<1> QED
  BY <1>1 DEF OthersAdmin

\* A request may begin if its write would leave an administrator.
LEMMA BeginKeepsAdmin ==
    ASSUME OneWorker, SerialInv, NEW w \in Workers, NEW i, NEW doc, NEW then,
           NEW step \in {"count", "save", "delete"},
           Begin(w, step, then, i, doc),
           step = "save" => IsAdmin(doc) \/ OthersAdmin(i),
           step = "delete" => OthersAdmin(i)
    PROVE  AdminInv'
<1> DEFINE j == [at |-> step, then |-> then, id |-> i, draft |-> doc, keys |-> {}]
<1>1. job' = [job EXCEPT ![w] = j] /\ user' = user
  BY DEF Begin, Become
<1>2. \A v \in Workers : job'[v] = j
  BY <1>1 DEF OneWorker, SerialInv, DocumentInv
<1>3. \A v \in Workers : WriteLeavesAdmin(v)'
  BY <1>1, <1>2 DEF WriteLeavesAdmin, At, OthersAdmin, ActiveAdmins, Stored
<1> QED
  BY <1>1, <1>3 DEF SerialInv, AdminInv, AdminRemains, ActiveAdmins, Stored

\* A step that writes no user and leaves no request about to write one.
LEMMA RestKeepsAdmin ==
    ASSUME OneWorker, SerialInv, NEW w \in Workers, NEW j,
           Become(w, j), j.at \notin {"save", "delete"}, user' = user
    PROVE  AdminInv'
<1>1. \A v \in Workers : job'[v] = j
  BY DEF Become, OneWorker, SerialInv, DocumentInv
<1>2. \A v \in Workers : WriteLeavesAdmin(v)'
  BY <1>1 DEF WriteLeavesAdmin, At
<1> QED
  BY <1>2 DEF SerialInv, AdminInv, AdminRemains, ActiveAdmins, Stored

LEMMA MoreThanOne ==
    ASSUME NEW S, Cardinality(S) > 1, NEW x
    PROVE  S \ {x} # {}
<1> SUFFICES ASSUME S \ {x} = {} PROVE FALSE
  OBVIOUS
<1>1. S = {} \/ S = {x}
  OBVIOUS
<1>2. Cardinality({}) = 0 /\ Cardinality({x}) = 1
  BY FS_EmptySet, FS_Singleton
<1> QED
  BY <1>1, <1>2

LEMMA ServeKeepsAdmin ==
    ASSUME OneWorker, SerialInv, NEW w \in Workers, Serve(w)
    PROVE  AdminInv'
<1>1. ASSUME NEW i \in Ids, NEW n \in Names, NEW p \in Passwords, Bootstrap(w, i, n, p)
      PROVE  AdminInv'
  BY <1>1, BeginKeepsAdmin DEF Bootstrap, IsAdmin
<1>2. ASSUME NEW i \in Ids, NEW p \in Passwords, Login(w, i, p)
      PROVE  AdminInv'
  BY <1>2, AnAdminRemains, BeginKeepsAdmin DEF Login
<1>3. ASSUME NEW i \in Stored, NEW doc, NEW then, Begin(w, "save", then, i, doc),
             doc.role = user[i].role, doc.active = user[i].active
      PROVE  AdminInv'
  <2>1. IsAdmin(doc) \/ OthersAdmin(i)
    BY <1>3, AnAdminRemains DEF IsAdmin
  <2> QED
    BY <1>3, <2>1, BeginKeepsAdmin
<1>4. ASSUME NEW i \in Ids, NEW p \in Passwords,
             ChangePassword(w, i, p) \/ ResetPassword(w, i, p)
      PROVE  AdminInv'
  <2>1. i \in Stored /\ user[i] \in UserDoc
    BY <1>4, StoredDocs DEF ChangePassword, SignedIn, ResetPassword, SerialInv, DocOK
  <2>2. \A b \in BOOLEAN :
           LET doc == [user[i] EXCEPT !.password = p, !.must_change = b]
           IN  doc.role = user[i].role /\ doc.active = user[i].active
    BY <2>1 DEF UserDoc
  <2>3. \E b \in BOOLEAN : Begin(w, "save", "scan", i,
                                 [user[i] EXCEPT !.password = p, !.must_change = b])
    BY <1>4 DEF ChangePassword, ResetPassword
  <2>4. PICK b \in BOOLEAN : Begin(w, "save", "scan", i,
                                 [user[i] EXCEPT !.password = p, !.must_change = b])
    BY <2>3
  <2> DEFINE doc == [user[i] EXCEPT !.password = p, !.must_change = b]
  <2>5. doc.role = user[i].role /\ doc.active = user[i].active
    BY <2>2
  <2>6. Begin(w, "save", "scan", i, doc)
    BY <2>4
  <2> HIDE DEF doc
  <2> QED
    BY <2>1, <2>5, <2>6, <1>3
<1>5. ASSUME NEW i \in Ids, NEW doc \in UserDoc, Create(w, i, doc)
      PROVE  AdminInv'
  <2>1. Stored # {} /\ i \notin Stored
    BY <1>5 DEF Create, MayManage, SignedIn, Fresh
  <2>2. OthersAdmin(i)
    BY <2>1 DEF SerialInv, AdminInv, AdminRemains, OthersAdmin, ActiveAdmins
  <2> QED
    BY <1>5, <2>2, BeginKeepsAdmin DEF Create
<1>6. ASSUME NEW i \in Ids, NEW role \in {"admin", "user", "guest"},
             NEW ps \in (SUBSET Permissions) \cup {None}, NEW active \in BOOLEAN,
             Update(w, i, role, ps, active)
      PROVE  AdminInv'
  <2> DEFINE doc == Updated(user[i], role, ps, active)
  <2>1. i \in Stored
    BY <1>6 DEF Update
  <2>2. \/ IsAdmin(doc) /\ Begin(w, "save", "scan", i, doc)
        \/ IsAdmin(user[i]) /\ Begin(w, "count", "save", i, doc)
        \/ ~IsAdmin(user[i]) /\ Begin(w, "save", "scan", i, doc)
    BY <1>6 DEF Update, Guarded
  <2> HIDE DEF doc
  <2> QED
    BY <2>1, <2>2, AnAdminRemains, BeginKeepsAdmin
<1>7. ASSUME NEW i \in Ids, Delete(w, i) PROVE AdminInv'
  <2>1. \/ IsAdmin(user[i]) /\ Begin(w, "count", "delete", i, NoUser)
        \/ ~IsAdmin(user[i]) /\ Begin(w, "delete", "scan", i, NoUser)
    BY <1>7 DEF Delete, Guarded
  <2> QED
    BY <1>7, <2>1, AnAdminRemains, BeginKeepsAdmin DEF Delete
<1> QED
  BY <1>1, <1>2, <1>4, <1>5, <1>6, <1>7 DEF Serve

LEMMA SerialInvInductive ==
    ASSUME OneWorker
    PROVE  /\ Init => SerialInv
           /\ SerialInv /\ [Next]_vars => SerialInv'
<1>1. Init => SerialInv
  BY DocumentInvInductive
     DEF Init, SerialInv, AdminInv, AdminRemains, Stored, WriteLeavesAdmin, At, Idle
<1>2. ASSUME SerialInv, NEW w \in Workers, CountAdmins(w) PROVE AdminInv'
  <2> DEFINE j == [job[w] EXCEPT !.at = job[w].then, !.then = "scan"]
  <2>1. job[w] \in Job /\ job[w].then \in {"save", "delete"} /\ job[w].at = "count"
    BY <1>2 DEF SerialInv, DocumentInv, CountAdmins, At, JobOK
  <2>2. CASE Finish(w)
    BY <1>2, <2>2, RestKeepsAdmin DEF Finish, CountAdmins, Idle
  <2>3. CASE Cardinality(ActiveAdmins) > 1 /\ Become(w, j)
    <3>1. OthersAdmin(job[w].id)
      BY <2>3, MoreThanOne DEF OthersAdmin
    <3>2. j.id = job[w].id /\ user' = user
      BY <1>2, <2>1 DEF Job, CountAdmins
    <3>3. \A v \in Workers : job'[v] = j
      BY <1>2, <2>3 DEF Become, OneWorker, SerialInv, DocumentInv
    <3> HIDE DEF j
    <3>4. \A v \in Workers : WriteLeavesAdmin(v)'
      BY <3>1, <3>2, <3>3 DEF WriteLeavesAdmin, OthersAdmin, ActiveAdmins, Stored
    <3> QED
      BY <1>2, <3>2, <3>4 DEF SerialInv, AdminInv, AdminRemains, ActiveAdmins, Stored
  <2> QED
    BY <1>2, <2>2, <2>3 DEF CountAdmins
<1>3. ASSUME SerialInv, NEW w \in Workers, Save(w) PROVE AdminInv'
  <2> DEFINE i == job[w].id
             doc == job[w].draft
             then == job[w].then
             j == IF then = "idle" THEN Idle ELSE [job[w] EXCEPT !.at = then]
  <2>1. /\ job[w] \in Job /\ i \in Ids /\ doc \in UserDoc
        /\ then \in {"idle", "open", "scan"}
        /\ IsAdmin(doc) \/ OthersAdmin(i)
    BY <1>3 DEF SerialInv, DocumentInv, AdminInv, WriteLeavesAdmin, Save, At, JobOK, DocOK
  <2>2. CASE Finish(w) /\ UNCHANGED user
    BY <1>3, <2>2, RestKeepsAdmin DEF Finish, Idle
  <2>3. CASE user' = [user EXCEPT ![i] = doc] /\ Continue(w, then)
    <3>1. j.at \notin {"save", "delete"}
      BY <2>1 DEF Job, Idle
    <3>2. \A v \in Workers : job'[v] = j
      BY <1>3, <2>3 DEF Continue, Become, OneWorker, SerialInv, DocumentInv
    <3>3. ActiveAdmins' # {}
      <4>1. CASE IsAdmin(doc)
        BY <1>3, <2>1, <2>3, <4>1, NoUserIsNoDoc
           DEF SerialInv, DocumentInv, ActiveAdmins, Stored
      <4>2. CASE OthersAdmin(i)
        BY <1>3, <2>1, <2>3, <4>2
           DEF SerialInv, DocumentInv, OthersAdmin, ActiveAdmins, Stored
      <4> QED
        BY <2>1, <4>1, <4>2
    <3> QED
      BY <3>1, <3>2, <3>3 DEF AdminInv, AdminRemains, WriteLeavesAdmin, At
  <2> QED
    BY <1>3, <2>2, <2>3 DEF Save
<1>4. ASSUME SerialInv, NEW w \in Workers, DeleteUser(w) PROVE AdminInv'
  <2> DEFINE i == job[w].id
  <2>1. job[w] \in Job /\ OthersAdmin(i)
    BY <1>4 DEF SerialInv, DocumentInv, AdminInv, WriteLeavesAdmin, DeleteUser, At
  <2>2. \A v \in Workers : job'[v].at = "scan"
    BY <1>4, <2>1 DEF DeleteUser, Continue, Become, OneWorker, SerialInv, DocumentInv, Job
  <2>3. ActiveAdmins' # {}
    BY <1>4, <2>1 DEF DeleteUser, SerialInv, DocumentInv, OthersAdmin, ActiveAdmins, Stored
  <2> QED
    BY <2>2, <2>3 DEF AdminInv, AdminRemains, WriteLeavesAdmin, At
<1>5. ASSUME SerialInv, NEW w \in Workers,
             \/ ScanSessions(w) \/ SessionsRevoked(w) \/ Abort(w)
             \/ \E t \in Tokens : OpenSession(w, t) \/ RevokeSession(w, t)
      PROVE  AdminInv'
  <2>1. job[w] \in Job
    BY <1>5 DEF SerialInv, DocumentInv
  <2>2. user' = user /\ \E j : Become(w, j) /\ j.at \notin {"save", "delete"}
    <3>1. CASE ScanSessions(w)
      <4> DEFINE j == [job[w] EXCEPT !.at = "revoke",
                                     !.keys = {t \in Tokens : session[t] # NoSession}]
      <4>1. j.at = "revoke"
        BY <2>1 DEF Job
      <4>2. Become(w, j) /\ user' = user
        BY <3>1 DEF ScanSessions
      <4> HIDE DEF j
      <4> QED
        BY <4>1, <4>2
    <3>2. CASE SessionsRevoked(w) \/ Abort(w)
      BY <3>2 DEF SessionsRevoked, Abort, Finish, Idle
    <3>3. ASSUME NEW t \in Tokens, OpenSession(w, t)
          PROVE  user' = user /\ \E j : Become(w, j) /\ j.at \notin {"save", "delete"}
      BY <3>3 DEF OpenSession, Finish, Idle
    <3>4. ASSUME NEW t \in Tokens, RevokeSession(w, t)
          PROVE  user' = user /\ \E j : Become(w, j) /\ j.at \notin {"save", "delete"}
      BY <2>1, <3>4 DEF RevokeSession, At, Job
    <3> QED
      BY <1>5, <3>1, <3>2, <3>3, <3>4
  <2> QED
    BY <1>5, <2>2, RestKeepsAdmin
<1>6. ASSUME SerialInv, UNCHANGED <<user, job>> PROVE AdminInv'
  BY <1>6 DEF SerialInv, AdminInv, AdminRemains, WriteLeavesAdmin, At,
              OthersAdmin, ActiveAdmins, Stored
<1>7. ASSUME SerialInv, [Next]_vars PROVE SerialInv'
  <2>1. DocumentInv'
    BY <1>7, DocumentInvInductive DEF SerialInv
  <2>2. ASSUME NEW t \in Tokens, EndSession(t) PROVE UNCHANGED <<user, job>>
    BY <2>2 DEF EndSession
  <2>3. AdminInv'
    BY <1>2, <1>3, <1>4, <1>5, <1>6, <1>7, <2>2, ServeKeepsAdmin DEF Next, vars
  <2> QED
    BY <2>1, <2>3 DEF SerialInv
<1> QED
  BY <1>1, <1>7

(* If requests do not overlap, there is an active administrator from the   *)
(* bootstrap on, whatever is asked and wherever a request is cut off.      *)
THEOREM OneWorkerKeepsAnAdmin ==
    ASSUME OneWorker
    PROVE  Spec => []AdminRemains
<1>1. SerialInv => AdminRemains
  BY DEF SerialInv, AdminInv
<1> QED
  BY <1>1, SerialInvInductive, PTL DEF Spec

-----------------------------------------------------------------------------
(* One request at a time, again: a login writes the document as it read    *)
(* it, and sessions found by a scan are all the sessions there are.        *)
ReadIsCurrent(w) ==
    /\ At(w, "save") /\ job[w].then = "open" => job[w].draft = user[job[w].id]
    /\ At(w, "revoke") => SessionsOf(job[w].id) \subseteq job[w].keys

ReadInv == DocumentInv /\ \A w \in Workers : ReadIsCurrent(w)

\* Whatever the step, what it leaves in flight is the request of the worker.
LEMMA OneJob ==
    ASSUME OneWorker, DocumentInv, NEW w \in Workers, NEW j, Become(w, j), NEW v \in Workers
    PROVE  job'[v] = j
BY DEF OneWorker, DocumentInv, Become

LEMMA ElsewhereKeepsReads ==
    ASSUME OneWorker, DocumentInv, NEW w \in Workers, NEW j, Become(w, j),
           j.at \in {"save", "revoke"} => j.at = "save" /\ j.then # "open"
    PROVE  \A v \in Workers : ReadIsCurrent(v)'
BY OneJob DEF ReadIsCurrent, At

LEMMA BeginKeepsReads ==
    ASSUME OneWorker, DocumentInv, NEW w \in Workers, NEW i, NEW doc,
           NEW step \in {"count", "save", "delete"}, NEW then, Begin(w, step, then, i, doc),
           step = "save" /\ then = "open" => doc = user[i]
    PROVE  \A v \in Workers : ReadIsCurrent(v)'
<1> DEFINE j == [at |-> step, then |-> then, id |-> i, draft |-> doc, keys |-> {}]
<1>1. Become(w, j) /\ user' = user
  BY DEF Begin
<1>2. j.at = step /\ j.then = then /\ j.id = i /\ j.draft = doc
  OBVIOUS
<1> HIDE DEF j
<1>3. \A v \in Workers : job'[v] = j
  BY <1>1, OneJob
<1> QED
  BY <1>1, <1>2, <1>3 DEF ReadIsCurrent, At

LEMMA ServeKeepsReads ==
    ASSUME OneWorker, DocumentInv, NEW w \in Workers, Serve(w)
    PROVE  \A v \in Workers : ReadIsCurrent(v)'
<1>1. ASSUME NEW i, NEW step \in {"count", "save", "delete"},
             NEW then \in {"idle", "save", "delete", "scan"}, NEW doc,
             Begin(w, step, then, i, doc)
      PROVE  \A v \in Workers : ReadIsCurrent(v)'
  BY <1>1, BeginKeepsReads
<1>2. ASSUME NEW i \in Ids, NEW p \in Passwords, Login(w, i, p)
      PROVE  \A v \in Workers : ReadIsCurrent(v)'
  BY <1>2, BeginKeepsReads DEF Login
<1>3. ASSUME NEW i \in Ids, NEW p \in Passwords,
             \/ \E n \in Names : Bootstrap(w, i, n, p)
             \/ ChangePassword(w, i, p) \/ ResetPassword(w, i, p)
      PROVE  \A v \in Workers : ReadIsCurrent(v)'
  BY <1>1, <1>3 DEF Bootstrap, ChangePassword, ResetPassword
<1>4. ASSUME NEW i \in Ids, NEW doc \in UserDoc, Create(w, i, doc)
      PROVE  \A v \in Workers : ReadIsCurrent(v)'
  BY <1>1, <1>4 DEF Create
<1>5. ASSUME NEW i \in Ids, NEW role \in {"admin", "user", "guest"},
             NEW ps \in (SUBSET Permissions) \cup {None}, NEW active \in BOOLEAN,
             Update(w, i, role, ps, active)
      PROVE  \A v \in Workers : ReadIsCurrent(v)'
  BY <1>1, <1>5 DEF Update, Guarded
<1>6. ASSUME NEW i \in Ids, Delete(w, i) PROVE \A v \in Workers : ReadIsCurrent(v)'
  BY <1>1, <1>6 DEF Delete, Guarded
<1> QED
  BY <1>2, <1>3, <1>4, <1>5, <1>6 DEF Serve

LEMMA ReadInvInductive ==
    ASSUME OneWorker
    PROVE  /\ Init => ReadInv
           /\ ReadInv /\ [Next]_vars => ReadInv'
<1>1. Init => ReadInv
  BY DocumentInvInductive DEF Init, ReadInv, ReadIsCurrent, At, Idle
<1>2. ASSUME ReadInv, NEW w \in Workers,
             CountAdmins(w) \/ Save(w) \/ DeleteUser(w) \/ SessionsRevoked(w) \/ Abort(w)
      PROVE  \A v \in Workers : ReadIsCurrent(v)'
  <2>1. job[w] \in Job /\ JobOK(job[w])
    BY <1>2 DEF ReadInv, DocumentInv
  <2>2. PICK j : /\ Become(w, j)
                 /\ j.at \in {"save", "revoke"} => j.at = "save" /\ j.then # "open"
    <3>1. CASE CountAdmins(w)
      <4> DEFINE k == [job[w] EXCEPT !.at = job[w].then, !.then = "scan"]
      <4>1. k.at = job[w].then /\ k.then = "scan" /\ k.at \in {"save", "delete"}
        BY <2>1, <3>1 DEF Job, JobOK, CountAdmins, At
      <4>2. Become(w, k) \/ Become(w, Idle)
        BY <3>1 DEF CountAdmins, Finish
      <4> HIDE DEF k
      <4> QED
        BY <4>1, <4>2 DEF Idle
    <3>2. CASE Save(w)
      BY <2>1, <3>2 DEF Save, Continue, Finish, Idle, Job, JobOK, At
    <3>3. CASE DeleteUser(w)
      BY <2>1, <3>3 DEF DeleteUser, Continue, Job
    <3>4. CASE SessionsRevoked(w) \/ Abort(w)
      BY <3>4 DEF SessionsRevoked, Abort, Finish, Idle
    <3> QED
      BY <1>2, <3>1, <3>2, <3>3, <3>4
  <2> QED
    BY <1>2, <2>2, ElsewhereKeepsReads DEF ReadInv
<1>3. ASSUME ReadInv, NEW w \in Workers, ScanSessions(w)
      PROVE  \A v \in Workers : ReadIsCurrent(v)'
  <2> DEFINE j == [job[w] EXCEPT !.at = "revoke",
                                 !.keys = {t \in Tokens : session[t] # NoSession}]
  <2>1. job[w] \in Job /\ job[w].id \in Ids
    BY <1>3 DEF ReadInv, DocumentInv, JobOK, ScanSessions, At
  <2>2. j.at = "revoke" /\ j.id = job[w].id /\ j.keys = {t \in Tokens : session[t] # NoSession}
    BY <2>1 DEF Job
  <2>3. SessionsOf(job[w].id) \subseteq {t \in Tokens : session[t] # NoSession}
    BY <2>1, NoneIsFresh DEF SessionsOf, NoSession
  <2>4. Become(w, j) /\ session' = session
    BY <1>3 DEF ScanSessions
  <2> HIDE DEF j
  <2>5. \A v \in Workers : job'[v] = j
    BY <1>3, <2>4, OneJob DEF ReadInv
  <2> QED
    BY <2>2, <2>3, <2>4, <2>5 DEF ReadIsCurrent, At, SessionsOf
<1>4. ASSUME ReadInv, NEW w \in Workers, NEW t \in Tokens, RevokeSession(w, t)
      PROVE  \A v \in Workers : ReadIsCurrent(v)'
  <2> DEFINE j == [job[w] EXCEPT !.keys = @ \ {t}]
  <2>1. job[w] \in Job /\ job[w].id \in Ids
    BY <1>4 DEF ReadInv, DocumentInv, JobOK, RevokeSession, At
  <2>2. j.at = "revoke" /\ j.id = job[w].id /\ j.keys = job[w].keys \ {t}
    BY <1>4, <2>1 DEF Job, RevokeSession, At
  <2>3. SessionsOf(job[w].id) \subseteq job[w].keys
    BY <1>4 DEF ReadInv, ReadIsCurrent, RevokeSession
  <2>4. /\ session' = IF session[t].user = job[w].id
                      THEN [session EXCEPT ![t] = NoSession] ELSE session
        /\ Become(w, j)
    BY <1>4 DEF RevokeSession
  <2>5. session \in [Tokens -> SessionDoc \cup {NoSession}]
    BY <1>4 DEF ReadInv, DocumentInv
  <2>6. \A u \in Tokens : session'[u].user = job[w].id => u \in SessionsOf(job[w].id) /\ u # t
    BY <2>1, <2>4, <2>5, NoneIsFresh DEF SessionsOf, NoSession
  <2> HIDE DEF j
  <2>7. \A v \in Workers : job'[v] = j
    BY <1>4, <2>4, OneJob DEF ReadInv
  <2> QED
    BY <2>2, <2>3, <2>6, <2>7 DEF ReadIsCurrent, At, SessionsOf
<1>5. ASSUME ReadInv, NEW w \in Workers, NEW t \in Tokens, OpenSession(w, t)
      PROVE  \A v \in Workers : ReadIsCurrent(v)'
  BY <1>5, ElsewhereKeepsReads DEF ReadInv, OpenSession, Finish, Idle
<1>6. ASSUME ReadInv, NEW t \in Tokens, EndSession(t)
      PROVE  \A v \in Workers : ReadIsCurrent(v)'
  <2>1. ASSUME NEW i \in Ids PROVE SessionsOf(i)' \subseteq SessionsOf(i)
    BY <1>6, NoneIsFresh DEF ReadInv, DocumentInv, EndSession, SessionsOf, NoSession
  <2>2. \A v \in Workers : At(v, "revoke") => job[v].id \in Ids
    BY <1>6 DEF ReadInv, DocumentInv, JobOK, At
  <2>3. UNCHANGED <<user, job>>
    BY <1>6 DEF EndSession
  <2> QED
    BY <1>6, <2>1, <2>2, <2>3 DEF ReadInv, ReadIsCurrent, At, SessionsOf
<1>7. ASSUME ReadInv, UNCHANGED vars PROVE \A v \in Workers : ReadIsCurrent(v)'
  BY <1>7 DEF vars, ReadInv, ReadIsCurrent, At, SessionsOf
<1>8. ASSUME ReadInv, [Next]_vars PROVE ReadInv'
  <2>1. DocumentInv'
    BY <1>8, DocumentInvInductive DEF ReadInv
  <2>2. \A v \in Workers : ReadIsCurrent(v)'
    BY <1>2, <1>3, <1>4, <1>5, <1>6, <1>7, <1>8, ServeKeepsReads DEF Next, ReadInv
  <2> QED
    BY <2>1, <2>2 DEF ReadInv
<1> QED
  BY <1>1, <1>8

(* If requests do not overlap, signing in leaves the stored document as it *)
(* was: the document it writes back whole is the one that is stored.       *)
THEOREM OneWorkerLoginChangesNothing ==
    ASSUME OneWorker
    PROVE  Spec => LoginChangesNothing
<1>1. ASSUME ReadInv, [Next]_vars, NEW w \in Workers, At(w, "save"), job[w].then = "open"
      PROVE  UNCHANGED user
  <2>1. /\ job[w].draft = user[job[w].id]
        /\ user \in [Ids -> UserDoc \cup {NoUser}]
        /\ \A v \in Workers : v = w
    BY <1>1 DEF ReadInv, ReadIsCurrent, DocumentInv, OneWorker
  <2>2. CASE Save(w)
    BY <2>1, <2>2 DEF Save
  <2>3. CASE UNCHANGED vars
    BY <2>3 DEF vars
  <2>4. ~Serve(w)
    BY <1>1 DEF Serve, Bootstrap, Login, ChangePassword, ResetPassword, Create, Update,
                Guarded, Delete, Begin, At
  <2>5. ~DeleteUser(w)
    BY <1>1 DEF DeleteUser, At
  <2> QED
    BY <1>1, <2>1, <2>2, <2>3, <2>4, <2>5
       DEF Next, CountAdmins, ScanSessions, SessionsRevoked, Abort, OpenSession,
           RevokeSession, EndSession
<1>2. ReadInv /\ [Next]_vars =>
         \A w \in Workers : At(w, "save") /\ job[w].then = "open" => UNCHANGED user
  BY <1>1
<1> QED
  BY <1>2, ReadInvInductive, PTL DEF Spec, LoginChangesNothing

(* If requests do not overlap, a user whose password, role or existence    *)
(* was just changed has no session left when the request is answered.      *)
THEOREM OneWorkerRevocationEndsSessions ==
    ASSUME OneWorker
    PROVE  Spec => RevocationEndsSessions
<1>1. ReadInv => \A w \in Workers : Revoked(w) => SessionsOf(job[w].id) = {}
  BY DEF ReadInv, ReadIsCurrent, Revoked
<1>2. ReadInv => \A w \in Workers : Revoked(w) =>
         \A t \in SessionsOf(job[w].id) :
            job[w].id \in Stored /\ session[t].password = user[job[w].id].password
  BY <1>1
<1> QED
  BY <1>2, ReadInvInductive, PTL DEF Spec, RevocationEndsSessions
==============================================================================
