---------------------------- MODULE GatewayProofs ----------------------------
(***************************************************************************)
(* Proofs about the keys of an account and about the middleware that asks  *)
(* for them, for any number of requests that overlap and fail anywhere.    *)
(*                                                                         *)
(* Keys (module APIKeys): a secret that ended never validates again, and   *)
(* what was revoked or deleted stays so once the requests that had read it *)
(* before are done.                                                        *)
(*                                                                         *)
(* Requests (module Gateway): whatever they carry and whatever changes     *)
(* between their steps, over every table of routes that asks for MANAGE    *)
(* where it writes and for a tenant session where nobody else could be     *)
(* named (the assumptions of Gateway), the guards keep accounts apart,     *)
(* readers from writing and ended credentials out, and the audit trail     *)
(* accounts for what was changed.                                          *)
(***************************************************************************)
EXTENDS APIKeys, Gateway, TLAPS

-----------------------------------------------------------------------------
(* The keys of an account.                                                 *)

\* What a request has in its variables when it needs it.
JobOK(j) ==
    /\ j \in Job
    /\ j.at # "idle" => j.id \in Ids
    /\ j.at = "save" => j.draft \in KeyDoc

DataInv == TypeOK /\ \A w \in Workers : JobOK(job[w])

LEMMA NoKeyIsNone == NoKey \notin KeyDoc /\ NoKey.secret \notin Secrets
  BY NoneIsFresh DEF NoKey, KeyDoc

LEMMA IdleJobOK == JobOK(Idle)
  BY DEF JobOK, Idle, Job

LEMMA StoredKeys == ASSUME TypeOK, NEW k \in Stored PROVE k \in Ids /\ key[k] \in KeyDoc
  BY DEF TypeOK, Stored

(* A step that moves one request on and leaves documents that are well     *)
(* formed.                                                                 *)
LEMMA MoveKeepsData ==
    ASSUME DataInv, NEW w \in Workers, NEW j, Become(w, j), JobOK(j),
           key' \in [Ids -> KeyDoc \cup {NoKey}], due' = due,
           drawn' \in [Secrets -> Ids \cup {None}]
    PROVE  DataInv'
<1>1. \A v \in Workers : job'[v] = IF v = w THEN j ELSE job[v]
  BY DEF DataInv, TypeOK, Become
<1>2. TypeOK'
  BY DEF DataInv, TypeOK, Become, JobOK
<1> QED
  BY <1>1, <1>2 DEF DataInv

(* What a request becomes when it is received, and when it has read the    *)
(* document again.                                                         *)
Received(k, op) ==
    [Idle EXCEPT !.at = IF op = "delete" THEN "delete" ELSE "load", !.op = op, !.id = k]
Drafted(w, d) == [job[w] EXCEPT !.at = "save", !.draft = d]

LEMMA RequestIs ==
    ASSUME DataInv, NEW w \in Workers, NEW k \in Ids, NEW op \in {"revoke", "rotate", "delete"}
    PROVE  /\ Request(w, k, op) => Become(w, Received(k, op))
           /\ JobOK(Received(k, op))
           /\ Received(k, op).at # "save"
BY DEF Request, Received, JobOK, Job, Idle

LEMMA DraftedIs ==
    ASSUME DataInv, NEW w \in Workers, At(w, "load"), NEW d \in KeyDoc
    PROVE  /\ JobOK(Drafted(w, d))
           /\ Drafted(w, d).at = "save" /\ Drafted(w, d).draft = d
           /\ Drafted(w, d).op = job[w].op /\ Drafted(w, d).id = job[w].id
<1>1. JobOK(job[w])
  BY DEF DataInv
<1> QED
  BY <1>1 DEF JobOK, Job, Drafted, At

(* Every step is one of these: a new key, a key that expires, a request    *)
(* that moves on without writing, a revocation or a rotation that has read *)
(* the document, and the two writes.                                       *)
Kind ==
    \/ \E k \in Ids, s \in Secrets : Create(k, s)
    \/ \E k \in Ids : Expire(k)
    \/ \E w \in Workers, j \in Job :
          /\ Become(w, j) /\ JobOK(j) /\ j.at # "save"
          /\ UNCHANGED <<key, due, drawn>>
    \/ \E w \in Workers :
          /\ At(w, "load") /\ job[w].op = "revoke" /\ job[w].id \in Stored
          /\ Become(w, Drafted(w, [key[job[w].id] EXCEPT !.active = FALSE]))
          /\ UNCHANGED <<key, due, drawn>>
    \/ \E w \in Workers, s \in Secrets :
          /\ At(w, "load") /\ job[w].op = "rotate" /\ job[w].id \in Stored
          /\ drawn[s] = None
          /\ Become(w, Drafted(w, [key[job[w].id] EXCEPT !.secret = s]))
          /\ drawn' = [drawn EXCEPT ![s] = job[w].id]
          /\ UNCHANGED <<key, due>>
    \/ \E w \in Workers : Save(w)
    \/ \E w \in Workers : Delete(w)
    \/ UNCHANGED vars

LEMMA StepKinds == ASSUME DataInv, [Next]_vars PROVE Kind
<1>1. \A w \in Workers, k \in Ids, op \in {"revoke", "rotate", "delete"} :
         Request(w, k, op) => Kind
  <2> SUFFICES ASSUME NEW w \in Workers, NEW k \in Ids,
                      NEW op \in {"revoke", "rotate", "delete"}, Request(w, k, op)
               PROVE  Kind
    OBVIOUS
  <2>1. UNCHANGED <<key, due, drawn>>
    BY DEF Request
  <2> QED
    BY <2>1, RequestIs DEF Kind, JobOK
<1>2. \A w \in Workers : Finish(w) /\ UNCHANGED <<key, due, drawn>> => Kind
  BY IdleJobOK DEF Finish, Kind, JobOK, Idle
<1>3. \A w \in Workers : Revoke(w) => Kind
  BY <1>2 DEF Revoke, Kind, Drafted
<1>4. \A w \in Workers, s \in Secrets : Rotate(w, s) => Kind
  BY <1>2 DEF Rotate, Kind, Drafted
<1>5. \A w \in Workers : Abort(w) => Kind
  BY <1>2 DEF Abort
<1> QED
  BY <1>1, <1>3, <1>4, <1>5 DEF Next, Kind

-----------------------------------------------------------------------------
(* Typing.                                                                 *)
LEMMA DataInvInductive == (Init => DataInv) /\ (DataInv /\ [Next]_vars => DataInv')
<1>1. Init => DataInv
  <2> SUFFICES ASSUME Init PROVE DataInv
    OBVIOUS
  <2>1. \A w \in Workers : job[w] = Idle
    BY DEF Init
  <2>2. TypeOK
    BY DEF Init, TypeOK, Idle, Job
  <2> QED
    BY <2>1, <2>2, IdleJobOK DEF DataInv
<1>2. ASSUME DataInv, [Next]_vars PROVE DataInv'
  <2>1. ASSUME NEW k \in Ids, NEW s \in Secrets, Create(k, s) PROVE DataInv'
    BY <1>2, <2>1 DEF Create, DataInv, TypeOK, KeyDoc
  <2>2. ASSUME NEW k \in Ids, Expire(k) PROVE DataInv'
    BY <1>2, <2>2 DEF Expire, DataInv, TypeOK
  <2>3. ASSUME NEW w \in Workers, NEW j \in Job, Become(w, j), JobOK(j),
               UNCHANGED <<key, due, drawn>>
        PROVE  DataInv'
    BY <1>2, <2>3, MoveKeepsData DEF DataInv, TypeOK
  <2>4. ASSUME NEW w \in Workers, At(w, "load"), job[w].op = "revoke", job[w].id \in Stored,
               Become(w, Drafted(w, [key[job[w].id] EXCEPT !.active = FALSE])),
               UNCHANGED <<key, due, drawn>>
        PROVE  DataInv'
    <3> DEFINE d == [key[job[w].id] EXCEPT !.active = FALSE]
    <3>1. d \in KeyDoc
      BY <1>2, <2>4, StoredKeys DEF DataInv, KeyDoc
    <3> HIDE DEF d
    <3> QED
      BY <1>2, <2>4, <3>1, DraftedIs, MoveKeepsData DEF DataInv, TypeOK, d
  <2>5. ASSUME NEW w \in Workers, NEW s \in Secrets,
               At(w, "load"), job[w].op = "rotate", job[w].id \in Stored,
               Become(w, Drafted(w, [key[job[w].id] EXCEPT !.secret = s])),
               drawn' = [drawn EXCEPT ![s] = job[w].id], UNCHANGED <<key, due>>
        PROVE  DataInv'
    <3> DEFINE d == [key[job[w].id] EXCEPT !.secret = s]
    <3>1. d \in KeyDoc
      BY <1>2, <2>5, StoredKeys DEF DataInv, KeyDoc
    <3>2. drawn' \in [Secrets -> Ids \cup {None}] /\ key' \in [Ids -> KeyDoc \cup {NoKey}]
      BY <1>2, <2>5 DEF DataInv, TypeOK, Stored
    <3> HIDE DEF d
    <3> QED
      BY <1>2, <2>5, <3>1, <3>2, DraftedIs, MoveKeepsData DEF d
  <2>6. ASSUME NEW w \in Workers, Save(w) \/ Delete(w) PROVE DataInv'
    <3>1. key' \in [Ids -> KeyDoc \cup {NoKey}] /\ UNCHANGED <<due, drawn>> /\ Become(w, Idle)
      BY <1>2, <2>6 DEF Save, Delete, Finish, At, DataInv, TypeOK, JobOK
    <3> QED
      BY <1>2, <3>1, IdleJobOK, MoveKeepsData DEF DataInv, TypeOK
  <2>7. CASE UNCHANGED vars
    BY <1>2, <2>7 DEF vars, DataInv, TypeOK
  <2> QED
    BY <1>2, <2>1, <2>2, <2>3, <2>4, <2>5, <2>6, <2>7, StepKinds DEF Kind
<1> QED
  BY <1>1, <1>2

(* The documents, and what requests hold of them, keep their shape.        *)
THEOREM APIKeysTyping == Spec => []TypeOK
<1>1. DataInv => TypeOK
  BY DEF DataInv
<1> QED
  BY <1>1, DataInvInductive, PTL DEF Spec

-----------------------------------------------------------------------------
(* The secret invariant, step by step.                                     *)
DraftOK(w) ==
    At(w, "save") =>
        /\ drawn[job[w].draft.secret] = job[w].id
        /\ job[w].op # "rotate" => ~job[w].draft.active
        /\ job[w].op = "rotate" =>
              /\ key[job[w].id].secret # job[w].draft.secret
              /\ \A v \in Workers \ {w} :
                    At(v, "save") => job[v].draft.secret # job[w].draft.secret

LEMMA SecretInvIs ==
    SecretInv <=> (\A k \in Stored : drawn[key[k].secret] = k) /\ \A w \in Workers : DraftOK(w)
  BY DEF SecretInv, DraftOK

LEMMA JobsAfter ==
    ASSUME DataInv, NEW w \in Workers, NEW j, Become(w, j)
    PROVE  \A v \in Workers : job'[v] = IF v = w THEN j ELSE job[v]
  BY DEF Become, DataInv, TypeOK

(* What is stored and what is about to be saved has been drawn.            *)
LEMMA KnownSecrets ==
    ASSUME DataInv, SecretInv
    PROVE  /\ \A k \in Stored : key[k].secret \in Secrets /\ drawn[key[k].secret] \in Ids
           /\ \A w \in Workers : At(w, "save") =>
                 job[w].draft.secret \in Secrets /\ drawn[job[w].draft.secret] \in Ids
<1>1. \A k \in Stored : key[k].secret \in Secrets /\ drawn[key[k].secret] \in Ids
  BY StoredKeys DEF DataInv, KeyDoc, SecretInv
<1>2. ASSUME NEW w \in Workers, At(w, "save")
      PROVE  job[w].draft.secret \in Secrets /\ drawn[job[w].draft.secret] \in Ids
  BY <1>2 DEF DataInv, JobOK, At, SecretInv, KeyDoc
<1> QED
  BY <1>1, <1>2

LEMMA SecretInvStep == ASSUME DataInv, SecretInv, [Next]_vars PROVE SecretInv'
<1> USE NoneIsFresh
<1>1. ASSUME NEW k \in Ids, NEW s \in Secrets, Create(k, s) PROVE SecretInv'
  <2>1. /\ key' = [key EXCEPT ![k] = [secret |-> s, active |-> TRUE]]
        /\ drawn' = [drawn EXCEPT ![s] = k] /\ job' = job
        /\ drawn[s] = None /\ k \notin Created
    BY <1>1 DEF Create
  <2>2. Stored' \subseteq Stored \cup {k}
    BY <2>1 DEF DataInv, TypeOK, Stored
  <2>3. \A q \in Stored' : drawn'[key'[q].secret] = q
    BY <2>1, <2>2, KnownSecrets DEF DataInv, TypeOK, SecretInv
  <2>4. \A w \in Workers : At(w, "save") => job[w].id # k /\ job[w].draft.secret # s
    BY <2>1, KnownSecrets DEF SecretInv, Created
  <2>5. \A w \in Workers : DraftOK(w)'
    <3> SUFFICES ASSUME NEW w \in Workers, At(w, "save") PROVE DraftOK(w)'
      BY <2>1 DEF DraftOK, At
    <3>1. /\ drawn'[job[w].draft.secret] = drawn[job[w].draft.secret]
          /\ key'[job[w].id] = key[job[w].id]
      BY <2>1, <2>4, KnownSecrets DEF DataInv, TypeOK, JobOK, At
    <3>2. DraftOK(w)
      BY SecretInvIs
    <3> QED
      BY <2>1, <3>1, <3>2 DEF DraftOK, At
  <2> QED
    BY <2>3, <2>5 DEF SecretInv, DraftOK
<1>2. ASSUME UNCHANGED <<key, drawn, job>> PROVE SecretInv'
  BY <1>2 DEF SecretInv, Stored, At
<1>3. ASSUME NEW w \in Workers, NEW j \in Job, Become(w, j), j.at # "save",
             drawn' = drawn, \A k \in Ids : key'[k] = key[k] \/ key'[k] = NoKey,
             key' \in [Ids -> KeyDoc \cup {NoKey}]
      PROVE  SecretInv'
  <2>1. \A k \in Stored' : k \in Stored /\ key'[k] = key[k]
    BY <1>3 DEF Stored
  <2>2. \A v \in Workers : At(v, "save")' => At(v, "save") /\ job'[v] = job[v]
    BY <1>3, JobsAfter DEF At
  <2>3. \A v \in Workers : DraftOK(v)'
    <3> SUFFICES ASSUME NEW v \in Workers, At(v, "save")' PROVE DraftOK(v)'
      BY DEF DraftOK
    <3>1. DraftOK(v) /\ At(v, "save") /\ job'[v] = job[v]
      BY <2>2, SecretInvIs
    <3>2. job[v].id \in Ids /\ job[v].draft.secret \in Secrets
      BY <3>1, KnownSecrets DEF DataInv, JobOK, At
    <3>3. key'[job[v].id].secret # job[v].draft.secret \/ key'[job[v].id] = key[job[v].id]
      BY <1>3, <3>2, NoKeyIsNone
    <3> QED
      BY <1>3, <2>2, <3>1, <3>3 DEF DraftOK
  <2> QED
    BY <1>3, <2>1, <2>3, KnownSecrets DEF SecretInv, DraftOK
<1>4. ASSUME NEW w \in Workers, At(w, "load"), job[w].op = "revoke", job[w].id \in Stored,
             Become(w, Drafted(w, [key[job[w].id] EXCEPT !.active = FALSE])),
             UNCHANGED <<key, due, drawn>>
      PROVE  SecretInv'
  <2> DEFINE k == job[w].id
             d == [key[k] EXCEPT !.active = FALSE]
  <2>1. k \in Ids /\ d \in KeyDoc /\ d.secret = key[k].secret /\ ~d.active
    BY <1>4, StoredKeys DEF DataInv, KeyDoc
  <2>2. drawn[key[k].secret] = k
    BY <1>4 DEF SecretInv
  <2> HIDE DEF d
  <2>3. /\ job'[w].at = "save" /\ job'[w].draft = d /\ job'[w].id = k /\ job'[w].op = "revoke"
        /\ \A v \in Workers \ {w} : job'[v] = job[v]
    BY <1>4, <2>1, DraftedIs, JobsAfter DEF d
  <2> HIDE DEF k
  <2>4. DraftOK(w)'
    BY <1>4, <2>1, <2>2, <2>3 DEF DraftOK
  <2>5. ASSUME NEW v \in Workers \ {w} PROVE DraftOK(v)'
    <3>1. DraftOK(v)
      BY SecretInvIs
    <3>2. At(v, "save") /\ job[v].op = "rotate" => job[v].draft.secret # d.secret
      BY <2>1, <2>2, <3>1 DEF DraftOK
    <3> QED
      BY <1>4, <2>3, <3>1, <3>2 DEF DraftOK, At
  <2> QED
    BY <1>4, <2>4, <2>5 DEF SecretInv, DraftOK, Stored
<1>5. ASSUME NEW w \in Workers, NEW s \in Secrets,
             At(w, "load"), job[w].op = "rotate", job[w].id \in Stored, drawn[s] = None,
             Become(w, Drafted(w, [key[job[w].id] EXCEPT !.secret = s])),
             drawn' = [drawn EXCEPT ![s] = job[w].id], UNCHANGED <<key, due>>
      PROVE  SecretInv'
  <2> DEFINE k == job[w].id
             d == [key[k] EXCEPT !.secret = s]
  <2>1. k \in Ids /\ d \in KeyDoc /\ d.secret = s
    BY <1>5, StoredKeys DEF DataInv, KeyDoc
  <2> HIDE DEF d
  <2>2. /\ job'[w].at = "save" /\ job'[w].draft = d /\ job'[w].id = k /\ job'[w].op = "rotate"
        /\ \A v \in Workers \ {w} : job'[v] = job[v]
    BY <1>5, <2>1, DraftedIs, JobsAfter DEF d
  <2>3. \A t \in Secrets : drawn'[t] = IF t = s THEN k ELSE drawn[t]
    BY <1>5 DEF DataInv, TypeOK
  <2>4. \A q \in Stored : key[q].secret \in Secrets \ {s}
    BY <1>5, KnownSecrets
  <2>5. \A v \in Workers : At(v, "save") => job[v].draft.secret \in Secrets \ {s}
    BY <1>5, KnownSecrets
  <2>6. k \in Stored
    BY <1>5
  <2> HIDE DEF k
  <2>7. DraftOK(w)'
    BY <1>5, <2>1, <2>2, <2>3, <2>4, <2>5, <2>6 DEF DraftOK, At
  <2>8. ASSUME NEW v \in Workers \ {w} PROVE DraftOK(v)'
    <3>1. DraftOK(v)
      BY SecretInvIs
    <3> QED
      BY <1>5, <2>1, <2>2, <2>3, <2>5, <3>1 DEF DraftOK, At
  <2>9. \A q \in Stored' : drawn'[key'[q].secret] = q
    BY <1>5, <2>3, <2>4 DEF SecretInv, Stored
  <2> QED
    BY <2>7, <2>8, <2>9 DEF SecretInv, DraftOK
<1>6. ASSUME NEW w \in Workers, Save(w) PROVE SecretInv'
  <2> DEFINE k == job[w].id
             d == job[w].draft
  <2>1. /\ k \in Ids /\ d \in KeyDoc /\ drawn[d.secret] = k /\ At(w, "save")
        /\ key' = [key EXCEPT ![k] = d] /\ drawn' = drawn /\ Become(w, Idle)
    BY <1>6 DEF Save, Finish, At, DataInv, JobOK, SecretInv
  <2>2. \A q \in Ids : key'[q] = IF q = k THEN d ELSE key[q]
    BY <2>1 DEF DataInv, TypeOK
  <2>3. \A q \in Stored' : drawn'[key'[q].secret] = q
    BY <2>1, <2>2 DEF SecretInv, Stored
  <2>4. \A v \in Workers : At(v, "save")' => v # w /\ At(v, "save") /\ job'[v] = job[v]
    BY <2>1, JobsAfter DEF At, Idle
  <2>5. \A v \in Workers : DraftOK(v)'
    <3> SUFFICES ASSUME NEW v \in Workers, At(v, "save")' PROVE DraftOK(v)'
      BY DEF DraftOK
    <3>1. DraftOK(v) /\ At(v, "save") /\ v # w /\ job'[v] = job[v] /\ job[v].id \in Ids
      BY <2>4, SecretInvIs DEF DataInv, JobOK, At
    <3>2. job[v].op = "rotate" => key'[job[v].id].secret # job[v].draft.secret
      BY <2>1, <2>2, <3>1 DEF DraftOK
    <3> QED
      BY <2>1, <2>4, <3>1, <3>2 DEF DraftOK
  <2> QED
    BY <2>3, <2>5 DEF SecretInv, DraftOK
<1>7. ASSUME NEW w \in Workers, Delete(w) PROVE SecretInv'
  <2>1. /\ Become(w, Idle) /\ drawn' = drawn /\ Idle \in Job /\ Idle.at # "save"
        /\ \A k \in Ids : key'[k] = key[k] \/ key'[k] = NoKey
        /\ key' \in [Ids -> KeyDoc \cup {NoKey}]
    BY <1>7, IdleJobOK DEF Delete, Finish, DataInv, TypeOK, JobOK, Idle
  <2> QED
    BY <1>3, <2>1
<1>8. ASSUME NEW w \in Workers, NEW j \in Job, Become(w, j), j.at # "save",
             UNCHANGED <<key, due, drawn>>
      PROVE  SecretInv'
  BY <1>3, <1>8 DEF DataInv, TypeOK
<1> QED
  BY <1>1, <1>2, <1>4, <1>5, <1>6, <1>7, <1>8, StepKinds DEF Kind, Expire, vars

(* Each secret belongs to one key, whatever overlaps, and a rotation has   *)
(* its own until it is saved.                                              *)
THEOREM SecretInvariant == Spec => []SecretInv
<1>1. Init => SecretInv
  BY DEF Init, SecretInv, Stored, At, Idle
<1>2. DataInv /\ SecretInv /\ [Next]_vars => SecretInv'
  BY SecretInvStep
<1> QED
  BY <1>1, <1>2, DataInvInductive, PTL DEF Spec

-----------------------------------------------------------------------------
(* The age of a secret.                                                    *)
LEMMA AgeIs ==
    ASSUME NEW s
    PROVE  /\ Age(s) \in 0..3
           /\ Age(s) = 0 <=> drawn[s] = None
           /\ Age(s) = 1 <=> drawn[s] # None /\ ~Validates(s) /\ Issuing(s)
           /\ Age(s) = 2 <=> drawn[s] # None /\ Validates(s)
           /\ Age(s) = 3 <=> drawn[s] # None /\ ~Validates(s) /\ ~Issuing(s)
BY DEF Age

(* A secret that was drawn keeps its key; only its own rotation issues it; *)
(* and only the save of that rotation makes it valid.                      *)
LEMMA SecretSteps ==
    ASSUME DataInv, SecretInv, [Next]_vars, NEW s \in Secrets, drawn[s] # None
    PROVE  /\ drawn'[s] = drawn[s]
           /\ Issuing(s)' => Issuing(s)
           /\ Validates(s)' => Validates(s) \/ Issuing(s)
<1> USE NoneIsFresh
<1>1. ASSUME NEW k \in Ids, NEW t \in Secrets, Create(k, t)
      PROVE  /\ drawn'[s] = drawn[s]
             /\ Issuing(s)' => Issuing(s)
             /\ Validates(s)' => Validates(s) \/ Issuing(s)
  <2>1. t # s /\ job' = job /\ due' = due /\ drawn'[s] = drawn[s]
        /\ \A q \in Ids : key'[q] = IF q = k THEN [secret |-> t, active |-> TRUE] ELSE key[q]
    BY <1>1 DEF Create, DataInv, TypeOK
  <2> QED
    BY <2>1 DEF Issuing, Validates, Stored
<1>2. ASSUME UNCHANGED <<key, drawn, job>>, due \subseteq due'
      PROVE  /\ drawn'[s] = drawn[s]
             /\ Issuing(s)' => Issuing(s)
             /\ Validates(s)' => Validates(s) \/ Issuing(s)
  BY <1>2 DEF Issuing, Validates, Stored
<1>3. ASSUME NEW w \in Workers, NEW j, Become(w, j),
             j.at = "save" /\ j.op = "rotate" => j.draft.secret # s,
             drawn'[s] = drawn[s], due' = due,
             \A k \in Ids : \/ key'[k] = key[k]
                            \/ key'[k] = NoKey
                            \/ key'[k].active /\ key'[k].secret = s => Issuing(s)
      PROVE  /\ drawn'[s] = drawn[s]
             /\ Issuing(s)' => Issuing(s)
             /\ Validates(s)' => Validates(s) \/ Issuing(s)
  <2>1. Issuing(s)' => Issuing(s)
    BY <1>3, JobsAfter DEF Issuing
  <2>2. Validates(s)' => Validates(s) \/ Issuing(s)
    BY <1>3, NoKeyIsNone DEF Validates, Stored
  <2> QED
    BY <1>3, <2>1, <2>2
<1>4. ASSUME NEW w \in Workers, At(w, "load"), job[w].op = "revoke", job[w].id \in Stored,
             Become(w, Drafted(w, [key[job[w].id] EXCEPT !.active = FALSE])),
             UNCHANGED <<key, due, drawn>>
      PROVE  /\ drawn'[s] = drawn[s]
             /\ Issuing(s)' => Issuing(s)
             /\ Validates(s)' => Validates(s) \/ Issuing(s)
  <2> DEFINE j == Drafted(w, [key[job[w].id] EXCEPT !.active = FALSE])
  <2>1. j.op = "revoke"
    BY <1>4 DEF Drafted, DataInv, JobOK, Job
  <2> QED
    BY <1>3, <1>4, <2>1
<1>5. ASSUME NEW w \in Workers, NEW t \in Secrets,
             At(w, "load"), job[w].op = "rotate", job[w].id \in Stored, drawn[t] = None,
             Become(w, Drafted(w, [key[job[w].id] EXCEPT !.secret = t])),
             drawn' = [drawn EXCEPT ![t] = job[w].id], UNCHANGED <<key, due>>
      PROVE  /\ drawn'[s] = drawn[s]
             /\ Issuing(s)' => Issuing(s)
             /\ Validates(s)' => Validates(s) \/ Issuing(s)
  <2> DEFINE d == [key[job[w].id] EXCEPT !.secret = t]
             j == Drafted(w, d)
  <2>1. d \in KeyDoc /\ d.secret = t /\ t # s
    BY <1>5, StoredKeys DEF DataInv, KeyDoc
  <2>2. drawn'[s] = drawn[s]
    BY <1>5, <2>1 DEF DataInv, TypeOK
  <2> HIDE DEF d
  <2>3. j.draft.secret = t
    BY <1>5, <2>1, DraftedIs
  <2> HIDE DEF j
  <2>4. Become(w, j)
    BY <1>5 DEF j, d
  <2> QED
    BY <1>3, <1>5, <2>1, <2>2, <2>3, <2>4
<1>6. ASSUME NEW w \in Workers, Save(w)
      PROVE  /\ drawn'[s] = drawn[s]
             /\ Issuing(s)' => Issuing(s)
             /\ Validates(s)' => Validates(s) \/ Issuing(s)
  <2>1. /\ \A k \in Ids : key'[k] = key[k] \/ key'[k] = job[w].draft
        /\ UNCHANGED <<due, drawn>> /\ Become(w, Idle) /\ At(w, "save")
    BY <1>6 DEF Save, Finish, DataInv, TypeOK
  <2>2. job[w].draft.active /\ job[w].draft.secret = s => Issuing(s)
    BY <2>1 DEF SecretInv, Issuing, At
  <2>3. Idle.at # "save"
    BY DEF Idle
  <2> QED
    BY <1>3, <2>1, <2>2, <2>3
<1>7. ASSUME NEW w \in Workers, Delete(w)
      PROVE  /\ drawn'[s] = drawn[s]
             /\ Issuing(s)' => Issuing(s)
             /\ Validates(s)' => Validates(s) \/ Issuing(s)
  <2>1. /\ \A k \in Ids : key'[k] = key[k] \/ key'[k] = NoKey
        /\ UNCHANGED <<due, drawn>> /\ Become(w, Idle) /\ Idle.at # "save"
    BY <1>7 DEF Delete, Finish, DataInv, TypeOK, Idle
  <2> QED
    BY <1>3, <2>1
<1>8. ASSUME NEW w \in Workers, NEW j \in Job, Become(w, j), j.at # "save",
             UNCHANGED <<key, due, drawn>>
      PROVE  /\ drawn'[s] = drawn[s]
             /\ Issuing(s)' => Issuing(s)
             /\ Validates(s)' => Validates(s) \/ Issuing(s)
  BY <1>3, <1>8
<1>9. ASSUME NEW k \in Ids, Expire(k)
      PROVE  UNCHANGED <<key, drawn, job>> /\ due \subseteq due'
  BY <1>9 DEF Expire
<1> QED
  BY <1>1, <1>2, <1>4, <1>5, <1>6, <1>7, <1>8, <1>9, StepKinds DEF Kind, vars

(* A valid secret is not being issued: once it is no longer valid, it has  *)
(* ended.                                                                  *)
LEMMA ValidIsIssued ==
    ASSUME DataInv, SecretInv, NEW s \in Secrets, Validates(s) PROVE ~Issuing(s)
<1> SUFFICES ASSUME Issuing(s) PROVE FALSE
  OBVIOUS
<1>1. PICK k \in Stored : key[k].secret = s
  BY DEF Validates
<1>2. PICK w \in Workers : At(w, "save") /\ job[w].op = "rotate" /\ job[w].draft.secret = s
  BY DEF Issuing, At
<1>3. drawn[s] = k /\ job[w].id = k
  BY <1>1, <1>2 DEF SecretInv
<1> QED
  BY <1>1, <1>2, <1>3 DEF SecretInv

(* A secret that was rotated away, revoked, deleted or has expired never   *)
(* validates again.                                                        *)
THEOREM EndedSecretsStayEnded == Spec => SecretsOnlyAge
<1>1. ASSUME DataInv, SecretInv, [Next]_vars, NEW s \in Secrets PROVE Age(s)' >= Age(s)
  <2>1. CASE drawn[s] = None
    BY <2>1, AgeIs DEF Age
  <2>2. CASE drawn[s] # None
    <3>1. /\ drawn'[s] # None
          /\ Issuing(s)' => Issuing(s)
          /\ Validates(s)' => Validates(s) \/ Issuing(s)
          /\ Validates(s) => ~Issuing(s)
      BY <1>1, <2>2, SecretSteps, ValidIsIssued
    <3> HIDE DEF Age
    <3> QED
      BY <2>2, <3>1 DEF Age
  <2> QED
    BY <2>1, <2>2
<1>2. DataInv /\ SecretInv /\ [Next]_vars => [\A s \in Secrets : Age(s)' >= Age(s)]_vars
  BY <1>1
<1> QED
  BY <1>2, SecretInvariant, DataInvInductive, PTL DEF Spec, SecretsOnlyAge

-----------------------------------------------------------------------------
(* What is revoked or deleted.                                             *)
LEMMA CreatedStays ==
    ASSUME DataInv, [Next]_vars, NEW k \in Created PROVE k \in Created'
<1>1. PICK s \in Secrets : drawn[s] = k
  BY DEF Created
<1>2. k \in Ids /\ drawn[s] # None
  BY <1>1, NoneIsFresh DEF Created
<1>3. drawn'[s] = drawn[s]
  BY <1>2, StepKinds DEF Kind, Create, Expire, Save, Delete, vars, DataInv, TypeOK
<1> QED
  BY <1>1, <1>2, <1>3 DEF Created

(* A key of which no active document is stored or about to be saved.       *)
LEMMA RevokedStep == ASSUME DataInv, [Next]_vars, NEW k \in Ids, Revoked(k) PROVE Revoked(k)'
<1>0. k \in Created /\ k \in Created'
  BY CreatedStays DEF Revoked
<1> DEFINE Off(d) == d = NoKey \/ ~d.active
<1>1. ASSUME NEW w \in Workers, NEW j, Become(w, j), Off(key'[k]),
             j.at = "save" /\ j.id = k => ~j.draft.active
      PROVE  Revoked(k)'
  <2>1. \A v \in Workers : v \in Pending(k)' => ~job'[v].draft.active
    BY <1>1, JobsAfter DEF Revoked, Pending, At
  <2> QED
    BY <1>0, <1>1, <2>1 DEF Revoked, Stored, Pending
<1>2. Off(key[k])
  BY DEF Revoked, Stored
<1>3. ASSUME NEW q \in Ids, NEW s \in Secrets, Create(q, s) PROVE Revoked(k)'
  <2>1. job' = job /\ key'[k] = key[k]
    BY <1>0, <1>3 DEF Create, DataInv, TypeOK
  <2> QED
    BY <1>0, <2>1 DEF Revoked, Stored, Pending, At
<1>4. ASSUME UNCHANGED <<key, job>> PROVE Revoked(k)'
  BY <1>0, <1>4 DEF Revoked, Stored, Pending, At
<1>5. ASSUME NEW w \in Workers, At(w, "load"), job[w].id \in Stored, key' = key,
             NEW d \in KeyDoc, d.active => key[job[w].id].active, Become(w, Drafted(w, d))
      PROVE  Revoked(k)'
  <2>1. Drafted(w, d).draft = d /\ Drafted(w, d).id = job[w].id
    BY <1>5, DraftedIs
  <2>2. job[w].id = k => ~d.active
    BY <1>5 DEF Revoked
  <2> QED
    BY <1>1, <1>2, <1>5, <2>1, <2>2
<1>6. ASSUME NEW w \in Workers, At(w, "load"), job[w].id \in Stored, UNCHANGED key,
             Become(w, Drafted(w, [key[job[w].id] EXCEPT !.active = FALSE]))
      PROVE  Revoked(k)'
  BY <1>5, <1>6, StoredKeys DEF DataInv, KeyDoc
<1>7. ASSUME NEW w \in Workers, NEW s \in Secrets, At(w, "load"), job[w].id \in Stored,
             UNCHANGED key, Become(w, Drafted(w, [key[job[w].id] EXCEPT !.secret = s]))
      PROVE  Revoked(k)'
  BY <1>5, <1>7, StoredKeys DEF DataInv, KeyDoc
<1>8. ASSUME NEW w \in Workers, Save(w) PROVE Revoked(k)'
  <2>1. /\ At(w, "save") /\ Become(w, Idle) /\ Idle.at # "save"
        /\ key'[k] = IF k = job[w].id THEN job[w].draft ELSE key[k]
    BY <1>8 DEF Save, Finish, Idle, DataInv, TypeOK
  <2>2. k = job[w].id => ~job[w].draft.active
    BY <2>1 DEF Revoked, Pending
  <2> QED
    BY <1>1, <1>2, <2>1, <2>2
<1>9. ASSUME NEW w \in Workers, Delete(w) PROVE Revoked(k)'
  <2>1. /\ Become(w, Idle) /\ Idle.at # "save"
        /\ key'[k] = key[k] \/ key'[k] = NoKey
    BY <1>9 DEF Delete, Finish, Idle, DataInv, TypeOK
  <2> QED
    BY <1>1, <1>2, <2>1
<1>10. ASSUME NEW w \in Workers, NEW j \in Job, Become(w, j), j.at # "save", key' = key
       PROVE  Revoked(k)'
  BY <1>1, <1>2, <1>10
<1>11. \A q \in Ids : Expire(q) => UNCHANGED <<key, job>>
  BY DEF Expire
<1> QED
  BY <1>3, <1>4, <1>6, <1>7, <1>8, <1>9, <1>10, <1>11, StepKinds DEF Kind, vars

(* Once a key is revoked and no rotation that had read it active is left,  *)
(* it is never active again.                                               *)
THEOREM RevokedKeysStayRevoked == Spec => RevokedSettles
<1>1. DataInv /\ [Next]_vars => [\A k \in Ids : Revoked(k) => Revoked(k)']_vars
  BY RevokedStep
<1> QED
  BY <1>1, DataInvInductive, PTL DEF Spec, RevokedSettles

LEMMA DeletedStep == ASSUME DataInv, [Next]_vars, NEW k \in Ids, Deleted(k) PROVE Deleted(k)'
<1>0. k \in Created /\ k \in Created' /\ key[k] = NoKey /\ Pending(k) = {}
  BY CreatedStays DEF Deleted, Stored
<1>1. ASSUME key'[k] = NoKey, \A v \in Workers : job'[v] = job[v] \/ job'[v].at # "save"
                                                               \/ job'[v].id # k
      PROVE  Deleted(k)'
  BY <1>0, <1>1 DEF Deleted, Stored, Pending, At
<1>2. ASSUME NEW q \in Ids, NEW s \in Secrets, Create(q, s) PROVE Deleted(k)'
  <2>1. job' = job /\ key'[k] = key[k]
    BY <1>0, <1>2 DEF Create, DataInv, TypeOK
  <2> QED
    BY <1>0, <1>1, <2>1
<1>3. ASSUME UNCHANGED <<key, job>> PROVE Deleted(k)'
  BY <1>0, <1>1, <1>3
<1>4. ASSUME NEW w \in Workers, NEW j, Become(w, j), j.at # "save" \/ j.id # k, key'[k] = NoKey
      PROVE  Deleted(k)'
  BY <1>1, <1>4, JobsAfter
<1>5. ASSUME NEW w \in Workers, job[w].id \in Stored, UNCHANGED key,
             NEW d, Become(w, Drafted(w, d))
      PROVE  Deleted(k)'
  <2>1. job[w].id # k /\ JobOK(job[w])
    BY <1>0, <1>5 DEF Stored, DataInv
  <2>2. Drafted(w, d).id = job[w].id
    BY <2>1 DEF Drafted, JobOK, Job
  <2> QED
    BY <1>0, <1>4, <1>5, <2>1, <2>2
<1>6. ASSUME NEW w \in Workers, Save(w) PROVE Deleted(k)'
  <2>1. At(w, "save") /\ Become(w, Idle) /\ Idle.at # "save"
    BY <1>6 DEF Save, Finish, Idle
  <2>2. job[w].id # k
    BY <1>0, <2>1 DEF Pending
  <2>3. key'[k] = key[k]
    BY <1>6, <2>2 DEF Save, DataInv, TypeOK
  <2> QED
    BY <1>0, <1>4, <2>1, <2>3
<1>7. ASSUME NEW w \in Workers, Delete(w) PROVE Deleted(k)'
  <2>1. Become(w, Idle) /\ Idle.at # "save" /\ key'[k] = NoKey
    BY <1>0, <1>7 DEF Delete, Finish, Idle, DataInv, TypeOK
  <2> QED
    BY <1>4, <2>1
<1>8. ASSUME NEW w \in Workers, NEW j \in Job, Become(w, j), j.at # "save", key' = key
      PROVE  Deleted(k)'
  BY <1>0, <1>4, <1>8
<1>9. \A q \in Ids : Expire(q) => UNCHANGED <<key, job>>
  BY DEF Expire
<1> QED
  BY <1>2, <1>3, <1>5, <1>6, <1>7, <1>8, <1>9, StepKinds DEF Kind, vars

(* Once a key is deleted and no request that had read it is left, it is    *)
(* never stored again.                                                     *)
THEOREM DeletedKeysStayDeleted == Spec => DeletedSettles
<1>1. DataInv /\ [Next]_vars => [\A k \in Ids : Deleted(k) => Deleted(k)']_vars
  BY DeletedStep
<1> QED
  BY <1>1, DataInvInductive, PTL DEF Spec, DeletedSettles

(* Neither revocation nor deletion is undone, once the requests that had    *)
(* read the key before are done.                                            *)
THEOREM EndedKeysStayEnded == Spec => EndedKeysSettle
  BY RevokedKeysStayRevoked, DeletedKeysStayDeleted, PTL DEF EndedKeysSettle

-----------------------------------------------------------------------------
(* The requests in front of the routes: what each of them carries.         *)

\* The state a request reads is well typed.
LEMMA CarriedTyped ==
    ASSUME GatewayTypeOK, NEW q \in Requests
    PROVE  /\ req[q] \in RequestState
           /\ req[q].at \in Stages
           /\ req[q].class \in Classes \cup {Absent}
           /\ req[q].account \in Accounts \cup {Absent}
           /\ req[q].with \in Bundle \cup {Absent}
           /\ req[q].seen \in Profile \cup {NoProfile}
           /\ req[q].platform \in BOOLEAN
           /\ req[q].user \in BOOLEAN
           /\ req[q].dead \in SUBSET {"account", "key", "session"}
BY DEF GatewayTypeOK, RequestState

\* A request with one part replaced is a request.
LEMMA StaysARequest ==
    ASSUME NEW r \in RequestState
    PROVE  /\ \A stage \in Stages : [r EXCEPT !.at = stage] \in RequestState
           /\ \A by \in {"nobody", "open", "admin", "key", "platform", "member", "signed_in"} :
                 [r EXCEPT !.by = by] \in RequestState
           /\ \A seen \in Profile \cup {NoProfile} : [r EXCEPT !.seen = seen] \in RequestState
           /\ \A b \in BOOLEAN : [r EXCEPT !.platform = b] \in RequestState /\ [r EXCEPT !.user = b] \in RequestState
BY DEF RequestState

LEMMA BundleTyped ==
    ASSUME NEW b \in Bundles
    PROVE  /\ b \in Bundle
           /\ b.admin \in BOOLEAN /\ b.csrf \in BOOLEAN
           /\ b.cookie \in Sessions \cup {Absent}
           /\ b.key \in Keys \cup {Absent}
           /\ b.token \in Tenants \cup {Absent}
BY InputsAreTyped DEF Bundle

LEMMA ClassTyped ==
    ASSUME NEW c \in Classes
    PROVE  /\ c \in Class
           /\ c.guard.by \in Guards /\ c.guard.areas \in SUBSET Areas
           /\ c.suffix \in {"READ", "MANAGE"}
           /\ c.mutating \in BOOLEAN /\ c.writes \in BOOLEAN
           /\ c.session \in {"none", "active", "any"}
           /\ c.model \in Models
           /\ c.account \in {"none", "path", "existing"}
BY ClassesAreTyped DEF Class

\* Which credential a guard takes is there to be taken.
LEMMA CredentialCarried ==
    ASSUME NEW c \in Classes, NEW b \in Bundles
    PROVE  /\ Credential(c, b) \in {"open", "admin", "cookie", "key", "nothing"}
           /\ Credential(c, b) = "cookie" => b.cookie # Absent /\ b.cookie \in Sessions
           /\ Credential(c, b) = "cookie" => c.guard.by \notin {"open", "service_key"}
           /\ Credential(c, b) = "key" => b.key # Absent /\ b.key \in Keys
           /\ Credential(c, b) = "key" => c.guard.by \in {"service_key", "key", "any_key", "admin_or_key"}
           /\ Credential(c, b) = "key" /\ b.cookie # Absent => c.guard.by = "service_key"
           /\ Credential(c, b) = "open" => c.guard.by = "open"
           /\ Credential(c, b) = "admin" => c.guard.by \in {"admin_or_key", "admin_or_platform"}
BY BundleTyped, ClassTyped DEF Credential, Guards

-----------------------------------------------------------------------------
(* A step of one request leaves the others as they are.                    *)

\* What a request has established survives the end of anything.
LEMMA OthersKeep ==
    ASSUME NEW x \in Requests, RequestInv(x), req'[x] = req[x],
           accounts' \subseteq accounts, keys' \subseteq keys, sessions' \subseteq sessions
    PROVE  RequestInv(x)'
BY DEF RequestInv, Arrived, GoneIsGone, AccountWasFound, SessionWasFound, NobodyYet,
       WasAdmitted, SessionHolds, Inside, Done

\* A request that has no event yet does not disturb the trail.
LEMMA TrailKept ==
    ASSUME GatewayTypeOK, TrailInv, NEW q \in Requests,
           events' = events, notices' = notices,
           \A x \in Requests : x # q => req'[x] = req[x],
           req[q].at \notin {"notify", "answered", "failed"},
           req'[q].at # "notify",
           req'[q].at = "audit" => Audited(q)',
           req'[q].at = "answered" => ~Audited(q)'
    PROVE  TrailInv'
<1>1. \A e \in events : e.request \in Requests /\ e.request # q
  BY DEF TrailInv, GatewayTypeOK, Event
<1>2. \A e \in events : req'[e.request] = req[e.request] /\ (Audited(e.request)' <=> Audited(e.request))
  BY <1>1 DEF Audited
<1>3. \A x \in Requests : x # q => (Audited(x)' <=> Audited(x))
  BY DEF Audited
<1> QED
  BY <1>1, <1>2, <1>3 DEF TrailInv

-----------------------------------------------------------------------------
(* The steps of a request, one by one.                                     *)

LEMMA ArriveStep ==
    ASSUME GatewayTypeOK, IInv, NEW q \in Requests, Arrive(q)
    PROVE  GatewayTypeOK' /\ IInv'
<1>1. PICK c \in Classes, b \in Bundles, a \in Accounts \cup {Absent} :
         /\ a = Absent <=> c.account = "none"
         /\ req' = [req EXCEPT ![q].at = IF c.account = "existing" THEN "account" ELSE "guard",
                               ![q].class = c, ![q].account = a, ![q].with = b,
                               ![q].dead = GoneFor(c, a, b)]
  BY Zenon DEF Arrive
<1>2. req[q].at = "new" /\ UNCHANGED <<credentials, trail>>
  BY DEF Arrive
<1>3. /\ req'[q] = [req[q] EXCEPT !.at = IF c.account = "existing" THEN "account" ELSE "guard",
                                  !.class = c, !.account = a, !.with = b,
                                  !.dead = GoneFor(c, a, b)]
      /\ \A x \in Requests : x # q => req'[x] = req[x]
      /\ DOMAIN req' = Requests /\ req' = [x \in Requests |-> req'[x]]
  BY <1>1 DEF GatewayTypeOK
<1>4. /\ req'[q].at \in {"account", "guard"} /\ (req'[q].at = "account" => c.account = "existing")
      /\ req'[q].at = "guard" => c.account # "existing"
      /\ req'[q].class = c /\ req'[q].account = a /\ req'[q].with = b
      /\ req'[q].dead = GoneFor(c, a, b)
      /\ req'[q].by = req[q].by /\ req'[q].seen = req[q].seen
      /\ req'[q].platform = req[q].platform /\ req'[q].user = req[q].user
  BY <1>3, CarriedTyped DEF RequestState
<1>5. GatewayTypeOK'
  <2>1. b \in Bundle
    BY InputsAreTyped
  <2>2. GoneFor(c, a, b) \in SUBSET {"account", "key", "session"}
    BY DEF GoneFor
  <2>3. req'[q] \in RequestState
    BY <1>3, <2>1, <2>2, CarriedTyped DEF RequestState, Stages
  <2> QED
    BY <1>2, <1>3, <2>3 DEF GatewayTypeOK, credentials, trail
<1>6. RequestInv(q)'
  <2>1. Arrived(q)' /\ GoneIsGone(q)'
    BY <1>2, <1>4 DEF Arrived, GoneIsGone, GoneFor, credentials
  <2>2. AccountWasFound(q)' /\ SessionWasFound(q)' /\ WasAdmitted(q)' /\ SessionHolds(q)'
    BY <1>4 DEF AccountWasFound, SessionWasFound, WasAdmitted, SessionHolds, Inside, Done
  <2>3. NobodyYet(q)'
    BY <1>2, <1>4 DEF IInv, RequestInv, NobodyYet
  <2> QED
    BY <2>1, <2>2, <2>3 DEF RequestInv
<1>7. TrailInv'
  BY <1>2, <1>3, <1>4, TrailKept DEF IInv, trail
<1> QED
  BY <1>2, <1>3, <1>5, <1>6, <1>7, OthersKeep DEF IInv, credentials
(* A request lands on its next stage: what it arrived with stays, and    *)
(* what is left to show is what the new stage says of it.                  *)
LEMMA Landing ==
    ASSUME GatewayTypeOK, IInv, NEW q \in Requests, NEW r \in RequestState,
           req' = [req EXCEPT ![q] = r],
           r.class = req[q].class, r.account = req[q].account,
           r.with = req[q].with, r.dead = req[q].dead,
           req[q].at # "new", r.at \notin {"new", "account"},
           UNCHANGED <<accounts, keys, profile, tenant>>, sessions' \subseteq sessions,
           events' \subseteq Event, notices' \subseteq Requests,
           AccountWasFound(q)', SessionWasFound(q)', NobodyYet(q)',
           WasAdmitted(q)', SessionHolds(q)', TrailInv'
    PROVE  GatewayTypeOK' /\ IInv'
<1>1. req'[q] = r /\ \A x \in Requests : x # q => req'[x] = req[x]
  BY DEF GatewayTypeOK
<1>2. GatewayTypeOK'
  BY DEF GatewayTypeOK
<1>3. Arrived(q)' /\ GoneIsGone(q)'
  BY <1>1 DEF IInv, RequestInv, Arrived, GoneIsGone
<1> QED
  BY <1>1, <1>2, <1>3, OthersKeep DEF IInv, RequestInv

\* A refused request has nothing more to show.
LEMMA Refused ==
    ASSUME GatewayTypeOK, IInv, NEW q \in Requests, Refuse(q),
           req[q].at \notin {"new", "audit", "notify", "answered", "failed"},
           UNCHANGED <<accounts, keys, profile, tenant, trail>>, sessions' \subseteq sessions
    PROVE  GatewayTypeOK' /\ IInv'
<1> DEFINE r == [req[q] EXCEPT !.at = "refused"]
<1>1. req' = [req EXCEPT ![q] = r]
  BY DEF Refuse, Go
<1>2. /\ r.at = "refused" /\ r.class = req[q].class /\ r.account = req[q].account
      /\ r.with = req[q].with /\ r.dead = req[q].dead
      /\ r \in RequestState
  BY CarriedTyped DEF RequestState, Stages
<1>3. req'[q].at = "refused" /\ \A x \in Requests : x # q => req'[x] = req[x]
  BY <1>1, <1>2 DEF GatewayTypeOK
<1>4. /\ AccountWasFound(q)' /\ SessionWasFound(q)' /\ NobodyYet(q)'
      /\ WasAdmitted(q)' /\ SessionHolds(q)'
  BY <1>3 DEF AccountWasFound, SessionWasFound, NobodyYet, WasAdmitted, SessionHolds, Inside, Done
<1>5. TrailInv'
  BY <1>3, TrailKept DEF IInv, trail
<1> QED
  BY <1>1, <1>2, <1>4, <1>5, Landing DEF trail, GatewayTypeOK

LEMMA CheckAccountStep ==
    ASSUME GatewayTypeOK, IInv, NEW q \in Requests, CheckAccount(q)
    PROVE  GatewayTypeOK' /\ IInv'
<1>0. req[q].at = "account" /\ UNCHANGED <<credentials, trail>>
  BY DEF CheckAccount
<1>1. CASE req[q].account \notin accounts
  BY <1>0, <1>1, Refused DEF CheckAccount, credentials
<1>2. CASE req[q].account \in accounts
  <2> DEFINE r == [req[q] EXCEPT !.at = "guard"]
  <2>1. req' = [req EXCEPT ![q] = r]
    BY <1>2 DEF CheckAccount, Go
  <2>2. /\ r.at = "guard" /\ r.class = req[q].class /\ r.account = req[q].account
        /\ r.with = req[q].with /\ r.dead = req[q].dead /\ r.by = req[q].by
        /\ r.platform = req[q].platform /\ r.user = req[q].user
        /\ r \in RequestState
    BY CarriedTyped DEF RequestState, Stages
  <2>3. req'[q] = r /\ \A x \in Requests : x # q => req'[x] = req[x]
    BY <2>1 DEF GatewayTypeOK
  <2>4. AccountWasFound(q)' /\ NobodyYet(q)'
    BY <1>0, <1>2, <2>2, <2>3 DEF IInv, RequestInv, AccountWasFound, NobodyYet, GoneIsGone
  <2>5. SessionWasFound(q)' /\ WasAdmitted(q)' /\ SessionHolds(q)'
    BY <2>2, <2>3 DEF SessionWasFound, WasAdmitted, SessionHolds, Inside, Done
  <2>6. TrailInv'
    BY <1>0, <2>2, <2>3, TrailKept DEF IInv, trail
  <2> HIDE DEF r
  <2> QED
    BY <1>0, <2>1, <2>2, <2>4, <2>5, <2>6, Landing DEF credentials, trail, GatewayTypeOK
<1> QED
  BY <1>1, <1>2









LEMMA GuardAtOnceStep ==
    ASSUME GatewayTypeOK, IInv, NEW q \in Requests, GuardAtOnce(q)
    PROVE  GatewayTypeOK' /\ IInv'
<1>0. /\ req[q].at = "guard"
      /\ UNCHANGED <<accounts, keys, sessions, profile, tenant, events, notices>>
  BY DEF GuardAtOnce, credentials, trail
<1>1. CASE Credential(req[q].class, req[q].with) \in {"open", "admin"}
  <2> DEFINE r == [req[q] EXCEPT !.at = Admitted(req[q].class), !.by = Credential(req[q].class, req[q].with)]
  <2>1. req' = [req EXCEPT ![q] = r]
    BY <1>1 DEF GuardAtOnce, Go
  <2>2. /\ r.class = req[q].class /\ r.account = req[q].account
        /\ r.with = req[q].with /\ r.dead = req[q].dead
        /\ r.at = Admitted(req[q].class) /\ r.by = Credential(req[q].class, req[q].with)
        /\ r.seen = req[q].seen /\ r.platform = req[q].platform /\ r.user = req[q].user
    BY CarriedTyped DEF RequestState
  <2>3. req[q].class \in Classes /\ req[q].with \in Bundles
    BY <1>0 DEF IInv, RequestInv, Arrived
  <2>A. r.at \in {"handle", "me"} /\ (r.at = "handle" <=> req[q].class.session = "none")
    BY <2>2 DEF Admitted
  <2>4. r \in RequestState
    <3>1. Admitted(req[q].class) \in Stages
      BY DEF Stages, Admitted
    <3>2. [req[q] EXCEPT !.at = Admitted(req[q].class)] \in RequestState
      BY <3>1, StaysARequest, CarriedTyped
    <3>3. Credential(req[q].class, req[q].with) \in {"nobody", "open", "admin", "key", "platform", "member", "signed_in"}
      BY <1>1
    <3> QED
      BY <3>2, StaysARequest, <3>3
  <2>5. req'[q] = r /\ \A x \in Requests : x # q => req'[x] = req[x]
    BY <2>1 DEF GatewayTypeOK
  <2> HIDE DEF r
  <2>6. AccountWasFound(q)' /\ SessionWasFound(q)' /\ NobodyYet(q)'
    BY <1>0, <2>2, <2>5, <2>A DEF IInv, RequestInv, AccountWasFound, SessionWasFound, NobodyYet
  <2>7. WasAdmitted(q)'
    BY <1>0, <2>2, <2>5, <1>1, <2>A DEF WasAdmitted, Inside
  <2>8. SessionHolds(q)'
    BY <1>0, <2>2, <2>5, <1>1, <2>A DEF SessionHolds, Inside, Done, IInv, RequestInv, NobodyYet
  <2>9. TrailInv'
    BY <1>0, <2>2, <2>5, TrailKept, <2>A DEF IInv, trail
  <2> QED
    BY <1>0, <2>1, <2>2, <2>4, <2>6, <2>7, <2>8, <2>9, <2>A, Landing DEF GatewayTypeOK
<1>2. CASE Credential(req[q].class, req[q].with) \notin {"open", "admin"}
  BY <1>0, <1>2, Refused DEF GuardAtOnce, trail
<1> QED
  BY <1>1, <1>2

LEMMA GuardKeyStep ==
    ASSUME GatewayTypeOK, IInv, NEW q \in Requests, GuardKey(q)
    PROVE  GatewayTypeOK' /\ IInv'
<1>0. /\ req[q].at = "guard" /\ Credential(req[q].class, req[q].with) = "key"
      /\ UNCHANGED <<accounts, keys, sessions, profile, tenant, events, notices>>
  BY DEF GuardKey, credentials, trail
<1>1. CASE req[q].with.key \in keys /\ KeyOpens(req[q].class, req[q].with.key, req[q].account)
  <2> DEFINE r == [req[q] EXCEPT !.at = Admitted(req[q].class), !.by = "key"]
  <2>1. req' = [req EXCEPT ![q] = r]
    BY <1>1 DEF GuardKey, Go
  <2>2. /\ r.class = req[q].class /\ r.account = req[q].account
        /\ r.with = req[q].with /\ r.dead = req[q].dead
        /\ r.at = Admitted(req[q].class) /\ r.by = "key"
        /\ r.seen = req[q].seen /\ r.platform = req[q].platform /\ r.user = req[q].user
    BY CarriedTyped DEF RequestState
  <2>3. req[q].class \in Classes /\ req[q].with \in Bundles
    BY <1>0 DEF IInv, RequestInv, Arrived
  <2>A. r.at \in {"handle", "me"} /\ (r.at = "handle" <=> req[q].class.session = "none")
    BY <2>2 DEF Admitted
  <2>4. r \in RequestState
    <3>1. Admitted(req[q].class) \in Stages
      BY DEF Stages, Admitted
    <3>2. [req[q] EXCEPT !.at = Admitted(req[q].class)] \in RequestState
      BY <3>1, StaysARequest, CarriedTyped
    <3> QED
      BY <3>2, StaysARequest
  <2>5. req'[q] = r /\ \A x \in Requests : x # q => req'[x] = req[x]
    BY <2>1 DEF GatewayTypeOK
  <2> HIDE DEF r
  <2>6. AccountWasFound(q)' /\ SessionWasFound(q)' /\ NobodyYet(q)'
    BY <1>0, <2>2, <2>5, <2>A DEF IInv, RequestInv, AccountWasFound, SessionWasFound, NobodyYet
  <2>7. WasAdmitted(q)'
    BY <1>0, <2>2, <2>5, <1>1, <2>A DEF WasAdmitted, IInv, RequestInv, GoneIsGone
  <2>8. SessionHolds(q)'
    BY <1>0, <2>2, <2>5, <2>A DEF SessionHolds, Inside, Done, IInv, RequestInv, NobodyYet
  <2>9. TrailInv'
    BY <1>0, <2>2, <2>5, TrailKept, <2>A DEF IInv, trail
  <2> QED
    BY <1>0, <2>1, <2>2, <2>4, <2>6, <2>7, <2>8, <2>9, <2>A, Landing DEF GatewayTypeOK
<1>2. CASE ~(req[q].with.key \in keys /\ KeyOpens(req[q].class, req[q].with.key, req[q].account))
  BY <1>0, <1>2, Refused DEF GuardKey, trail
<1> QED
  BY <1>1, <1>2

LEMMA GuardSessionStep ==
    ASSUME GatewayTypeOK, IInv, NEW q \in Requests, GuardSession(q)
    PROVE  GatewayTypeOK' /\ IInv'
<1>0. /\ req[q].at = "guard" /\ Credential(req[q].class, req[q].with) = "cookie"
      /\ UNCHANGED <<accounts, keys, sessions, profile, tenant, events, notices>>
  BY DEF GuardSession, credentials, trail
<1> DEFINE accepted == /\ req[q].class.guard.by \in {"key", "admin_or_key"} => Needed(req[q].class) # {}
                       /\ SessionFound(q)
<1>1. CASE accepted
  <2> DEFINE r == [req[q] EXCEPT !.at = "document"]
  <2>1. req' = [req EXCEPT ![q] = r]
    BY <1>1 DEF GuardSession, Go
  <2>2. /\ r.class = req[q].class /\ r.account = req[q].account
        /\ r.with = req[q].with /\ r.dead = req[q].dead
        /\ r.at = "document" /\ r.by = req[q].by
        /\ r.seen = req[q].seen /\ r.platform = req[q].platform /\ r.user = req[q].user
    BY CarriedTyped DEF RequestState
  <2>4. r \in RequestState
    <3>1. "document" \in Stages
      BY DEF Stages
    <3>2. [req[q] EXCEPT !.at = "document"] \in RequestState
      BY <3>1, StaysARequest, CarriedTyped
    <3> QED
      BY <3>2, StaysARequest
  <2>5. req'[q] = r /\ \A x \in Requests : x # q => req'[x] = req[x]
    BY <2>1 DEF GatewayTypeOK
  <2> HIDE DEF r
  <2>6. AccountWasFound(q)' /\ SessionWasFound(q)' /\ NobodyYet(q)'
    BY <1>0, <2>2, <2>5, <1>1 DEF IInv, RequestInv, AccountWasFound, SessionWasFound, NobodyYet, GoneIsGone, SessionFound
  <2>7. WasAdmitted(q)'
    BY <1>0, <2>2, <2>5 DEF WasAdmitted, Inside
  <2>8. SessionHolds(q)'
    BY <1>0, <2>2, <2>5 DEF SessionHolds, Inside, Done
  <2>9. TrailInv'
    BY <1>0, <2>2, <2>5, TrailKept DEF IInv, trail
  <2> QED
    BY <1>0, <2>1, <2>2, <2>4, <2>6, <2>7, <2>8, <2>9, Landing DEF GatewayTypeOK
<1>2. CASE ~accepted
  BY <1>0, <1>2, Refused DEF GuardSession, trail
<1> QED
  BY <1>1, <1>2

LEMMA GuardDocumentStep ==
    ASSUME GatewayTypeOK, IInv, NEW q \in Requests, GuardDocument(q)
    PROVE  GatewayTypeOK' /\ IInv'
<1>0. /\ req[q].at = "document"
      /\ UNCHANGED <<accounts, keys, profile, tenant, events, notices>> /\ sessions' \subseteq sessions
  BY DEF GuardDocument, DropIfInactive, credentials, trail
<1> DEFINE accepted == /\ UserOf(q) # Absent /\ UserOf(q).active
                       /\ UserPasses(req[q].class, UserOf(q), req[q].account)
<1>1. CASE accepted
  <2> DEFINE r == [req[q] EXCEPT !.at = Admitted(req[q].class), !.by = Standing(req[q].class),
                          !.seen = UserOf(q), !.platform = TRUE]
  <2>1. req' = [req EXCEPT ![q] = r]
    BY <1>1 DEF GuardDocument, Go
  <2>2. /\ r.class = req[q].class /\ r.account = req[q].account
        /\ r.with = req[q].with /\ r.dead = req[q].dead
        /\ r.at = Admitted(req[q].class) /\ r.by = Standing(req[q].class)
        /\ r.seen = UserOf(q) /\ r.platform = TRUE /\ r.user = req[q].user
    BY CarriedTyped DEF RequestState
  <2>3. req[q].class \in Classes /\ req[q].with \in Bundles
    BY <1>0 DEF IInv, RequestInv, Arrived
  <2>A. r.at \in {"handle", "me"} /\ (r.at = "handle" <=> req[q].class.session = "none")
    BY <2>2 DEF Admitted
  <2>B. UserOf(q) \in Profile
    <3>1. req[q].with.cookie \in Sessions
      BY <1>0, <2>3, CredentialCarried DEF IInv, RequestInv, SessionWasFound
    <3> QED
      BY <1>1, <3>1, SessionsAreTyped DEF UserOf, GatewayTypeOK
  <2>C. Standing(req[q].class) \in {"platform", "member", "signed_in"}
    BY <2>3, ClassTyped DEF Standing
  <2>4. r \in RequestState
    <3>1. Admitted(req[q].class) \in Stages
      BY DEF Stages, Admitted
    <3>2. [req[q] EXCEPT !.at = Admitted(req[q].class)] \in RequestState
      BY <3>1, StaysARequest, CarriedTyped
    <3>3. [req[q] EXCEPT !.at = Admitted(req[q].class), !.by = Standing(req[q].class)] \in RequestState
      BY <2>C, <3>2, StaysARequest
    <3>4. [req[q] EXCEPT !.at = Admitted(req[q].class), !.by = Standing(req[q].class),
                         !.seen = UserOf(q)] \in RequestState
      BY <2>B, <3>3, StaysARequest
    <3> QED
      BY <3>4, StaysARequest
  <2>5. req'[q] = r /\ \A x \in Requests : x # q => req'[x] = req[x]
    BY <2>1 DEF GatewayTypeOK
  <2> HIDE DEF r
  <2>6. AccountWasFound(q)' /\ SessionWasFound(q)' /\ NobodyYet(q)'
    BY <1>0, <2>2, <2>5, <2>A DEF IInv, RequestInv, AccountWasFound, SessionWasFound, NobodyYet
  <2>7. WasAdmitted(q)'
    BY <1>0, <2>2, <2>5, <1>1, <2>A, <2>B DEF WasAdmitted, IInv, RequestInv, SessionWasFound
  <2>8. SessionHolds(q)'
    BY <1>0, <2>2, <2>5, <2>A, <2>C DEF SessionHolds, Inside, Done, IInv, RequestInv, NobodyYet
  <2>9. TrailInv'
    BY <1>0, <2>2, <2>5, TrailKept, <2>A DEF IInv, trail
  <2> QED
    BY <1>0, <2>1, <2>2, <2>4, <2>6, <2>7, <2>8, <2>9, <2>A, Landing DEF GatewayTypeOK
<1>2. CASE ~accepted
  BY <1>0, <1>2, Refused DEF GuardDocument, trail
<1> QED
  BY <1>1, <1>2

LEMMA MeSessionStep ==
    ASSUME GatewayTypeOK, IInv, NEW q \in Requests, MeSession(q)
    PROVE  GatewayTypeOK' /\ IInv'
<1>0. /\ req[q].at = "me" /\ req[q].with.cookie # Absent
      /\ UNCHANGED <<accounts, keys, sessions, profile, tenant, events, notices>>
  BY DEF MeSession, credentials, trail
<1>1. CASE SessionFound(q)
  <2> DEFINE r == [req[q] EXCEPT !.at = "me_document"]
  <2>1. req' = [req EXCEPT ![q] = r]
    BY <1>1 DEF MeSession, Go
  <2>2. /\ r.class = req[q].class /\ r.account = req[q].account
        /\ r.with = req[q].with /\ r.dead = req[q].dead
        /\ r.at = "me_document" /\ r.by = req[q].by
        /\ r.seen = req[q].seen /\ r.platform = req[q].platform /\ r.user = req[q].user
    BY CarriedTyped DEF RequestState
  <2>4. r \in RequestState
    <3>1. "me_document" \in Stages
      BY DEF Stages
    <3>2. [req[q] EXCEPT !.at = "me_document"] \in RequestState
      BY <3>1, StaysARequest, CarriedTyped
    <3> QED
      BY <3>2, StaysARequest
  <2>5. req'[q] = r /\ \A x \in Requests : x # q => req'[x] = req[x]
    BY <2>1 DEF GatewayTypeOK
  <2> HIDE DEF r
  <2>6. AccountWasFound(q)' /\ SessionWasFound(q)' /\ NobodyYet(q)'
    BY <1>0, <2>2, <2>5 DEF IInv, RequestInv, AccountWasFound, SessionWasFound, NobodyYet
  <2>7. WasAdmitted(q)'
    BY <1>0, <2>2, <2>5 DEF IInv, RequestInv, WasAdmitted, Inside
  <2>8. SessionHolds(q)'
    BY <1>0, <2>2, <2>5 DEF IInv, RequestInv, SessionHolds, Inside, Done
  <2>9. TrailInv'
    BY <1>0, <2>2, <2>5, TrailKept DEF IInv, trail
  <2> QED
    BY <1>0, <2>1, <2>2, <2>4, <2>6, <2>7, <2>8, <2>9, Landing DEF GatewayTypeOK
<1>2. CASE ~(SessionFound(q))
  BY <1>0, <1>2, Refused DEF MeSession, trail
<1> QED
  BY <1>1, <1>2

LEMMA MeDocumentStep ==
    ASSUME GatewayTypeOK, IInv, NEW q \in Requests, MeDocument(q)
    PROVE  GatewayTypeOK' /\ IInv'
<1>0. /\ req[q].at = "me_document"
      /\ UNCHANGED <<accounts, keys, profile, tenant, events, notices>> /\ sessions' \subseteq sessions
  BY DEF MeDocument, DropIfInactive, credentials, trail
<1>1. CASE UserOf(q) # Absent /\ UserOf(q).active
  <2> DEFINE r == [req[q] EXCEPT !.at = "handle", !.platform = TRUE, !.user = (req[q].class.session = "active")]
  <2>1. req' = [req EXCEPT ![q] = r]
    BY <1>1 DEF MeDocument, Go
  <2>2. /\ r.class = req[q].class /\ r.account = req[q].account
        /\ r.with = req[q].with /\ r.dead = req[q].dead
        /\ r.at = "handle" /\ r.by = req[q].by /\ r.seen = req[q].seen
        /\ r.platform = TRUE /\ r.user = (req[q].class.session = "active")
    BY CarriedTyped DEF RequestState
  <2>4. r \in RequestState
    <3>1. "handle" \in Stages
      BY DEF Stages
    <3>2. [req[q] EXCEPT !.at = "handle"] \in RequestState
      BY <3>1, StaysARequest, CarriedTyped
    <3>3. [req[q] EXCEPT !.at = "handle", !.platform = TRUE] \in RequestState
      BY <3>2, StaysARequest
    <3> QED
      BY <3>2, StaysARequest, <3>3
  <2>5. req'[q] = r /\ \A x \in Requests : x # q => req'[x] = req[x]
    BY <2>1 DEF GatewayTypeOK
  <2> HIDE DEF r
  <2>6. AccountWasFound(q)' /\ SessionWasFound(q)' /\ NobodyYet(q)'
    BY <1>0, <2>2, <2>5 DEF IInv, RequestInv, AccountWasFound, SessionWasFound, NobodyYet
  <2>7. WasAdmitted(q)'
    BY <1>0, <2>2, <2>5 DEF IInv, RequestInv, WasAdmitted, Inside
  <2>8. SessionHolds(q)'
    BY <1>0, <2>2, <2>5 DEF IInv, RequestInv, SessionHolds, Inside, Done
  <2>9. TrailInv'
    BY <1>0, <2>2, <2>5, TrailKept DEF IInv, trail
  <2> QED
    BY <1>0, <2>1, <2>2, <2>4, <2>6, <2>7, <2>8, <2>9, Landing DEF GatewayTypeOK
<1>2. CASE ~(UserOf(q) # Absent /\ UserOf(q).active)
  BY <1>0, <1>2, Refused DEF MeDocument, trail
<1> QED
  BY <1>1, <1>2

LEMMA MeTokenStep ==
    ASSUME GatewayTypeOK, IInv, NEW q \in Requests, MeToken(q)
    PROVE  GatewayTypeOK' /\ IInv'
<1>0. /\ req[q].at = "me"
      /\ UNCHANGED <<accounts, keys, sessions, profile, tenant, events, notices>>
  BY DEF MeToken, credentials, trail
<1> DEFINE accepted == /\ req[q].with.token # Absent
                       /\ TenantAccount[req[q].with.token] = req[q].account
                       /\ tenant[req[q].with.token] # "absent"
                       /\ req[q].class.session = "active" => tenant[req[q].with.token] # "disabled"
<1>1. CASE accepted
  <2> DEFINE r == [req[q] EXCEPT !.at = "handle", !.user = (req[q].class.session = "active")]
  <2>1. req' = [req EXCEPT ![q] = r]
    BY <1>1, Zenon DEF MeToken, Go
  <2>2. /\ r.class = req[q].class /\ r.account = req[q].account
        /\ r.with = req[q].with /\ r.dead = req[q].dead
        /\ r.at = "handle" /\ r.by = req[q].by /\ r.seen = req[q].seen
        /\ r.platform = req[q].platform /\ r.user = (req[q].class.session = "active")
    BY CarriedTyped DEF RequestState
  <2>A. /\ r.user => req[q].with.token # Absent /\ TenantAccount[req[q].with.token] = req[q].account
        /\ req[q].class.session = "active" => r.user
        /\ r.user \in BOOLEAN
    BY <1>1, <2>2
  <2>4. r \in RequestState
    <3>1. "handle" \in Stages
      BY DEF Stages
    <3>2. [req[q] EXCEPT !.at = "handle"] \in RequestState
      BY <3>1, StaysARequest, CarriedTyped
    <3> QED
      BY <3>2, StaysARequest
  <2>5. req'[q] = r /\ \A x \in Requests : x # q => req'[x] = req[x]
    BY <2>1 DEF GatewayTypeOK
  <2> HIDE DEF r
  <2>6. AccountWasFound(q)' /\ SessionWasFound(q)' /\ NobodyYet(q)'
    BY <1>0, <2>2, <2>5 DEF IInv, RequestInv, AccountWasFound, SessionWasFound, NobodyYet
  <2>7. WasAdmitted(q)'
    BY <1>0, <2>2, <2>5 DEF IInv, RequestInv, WasAdmitted, Inside
  <2>8. SessionHolds(q)'
    BY <1>0, <2>2, <2>5, <2>A DEF IInv, RequestInv, SessionHolds, Inside, Done
  <2>9. TrailInv'
    BY <1>0, <2>2, <2>5, TrailKept DEF IInv, trail
  <2> QED
    BY <1>0, <2>1, <2>2, <2>4, <2>6, <2>7, <2>8, <2>9, Landing DEF GatewayTypeOK
<1>2. CASE ~accepted
  BY <1>0, <1>2, Refused DEF MeToken, trail
<1> QED
  BY <1>1, <1>2

\* After the handler only the stage of a request changes.
LEMMA LaterStages ==
    ASSUME GatewayTypeOK, IInv, NEW q \in Requests, NEW stage \in {"audit", "notify", "answered", "failed"},
           req[q].at \in {"handle", "audit", "notify"}, Go(q, stage),
           UNCHANGED credentials, events' \subseteq Event, notices' \subseteq Requests, TrailInv'
    PROVE  GatewayTypeOK' /\ IInv'
<1> DEFINE r == [req[q] EXCEPT !.at = stage]
<1>1. req' = [req EXCEPT ![q] = r]
  BY DEF Go
<1>2. /\ r.at = stage /\ r.class = req[q].class /\ r.account = req[q].account
      /\ r.with = req[q].with /\ r.dead = req[q].dead /\ r.by = req[q].by
      /\ r.seen = req[q].seen /\ r.platform = req[q].platform /\ r.user = req[q].user
  BY CarriedTyped DEF RequestState
<1>3. r \in RequestState
  BY StaysARequest, CarriedTyped DEF Stages
<1>4. req'[q] = r
  BY <1>1 DEF GatewayTypeOK
<1> HIDE DEF r
<1>5. AccountWasFound(q)' /\ SessionWasFound(q)' /\ NobodyYet(q)'
  BY <1>2, <1>4 DEF IInv, RequestInv, AccountWasFound, SessionWasFound, NobodyYet
<1>6. WasAdmitted(q)'
  BY <1>2, <1>4 DEF IInv, RequestInv, WasAdmitted, Inside
<1>7. SessionHolds(q)'
  BY <1>2, <1>4 DEF IInv, RequestInv, SessionHolds, Inside, Done
<1> QED
  BY <1>1, <1>2, <1>3, <1>5, <1>6, <1>7, Landing DEF credentials

\* What a step from the handler on changes of the table of requests.
LEMMA LaterFields ==
    ASSUME GatewayTypeOK, NEW q \in Requests, NEW stage, Go(q, stage)
    PROVE  /\ req'[q].at = stage /\ req'[q].class = req[q].class
           /\ req'[q].account = req[q].account /\ Actor(req'[q]) = Actor(req[q])
           /\ \A x \in Requests : x # q => req'[x] = req[x]
           /\ \A x \in Requests : Audited(x)' <=> Audited(x)
<1> DEFINE r == [req[q] EXCEPT !.at = stage]
<1>1. req'[q] = r /\ \A x \in Requests : x # q => req'[x] = req[x]
  BY DEF Go, GatewayTypeOK
<1>2. /\ r.at = stage /\ r.class = req[q].class /\ r.account = req[q].account
      /\ r.with = req[q].with /\ r.platform = req[q].platform /\ r.user = req[q].user
  BY CarriedTyped DEF RequestState
<1> HIDE DEF r
<1> QED
  BY <1>1, <1>2 DEF Actor, Audited

LEMMA HandleStep ==
    ASSUME GatewayTypeOK, IInv, NEW q \in Requests, Handle(q)
    PROVE  GatewayTypeOK' /\ IInv'
<1>0. req[q].at = "handle" /\ UNCHANGED <<credentials, trail>>
  BY DEF Handle
<1>1. CASE Refuse(q)
  BY <1>0, <1>1, Refused DEF credentials
<1>2. CASE Go(q, IF Audited(q) THEN "audit" ELSE "answered")
  <2> DEFINE stage == IF Audited(q) THEN "audit" ELSE "answered"
  <2>1. TrailInv'
    BY <1>0, <1>2, LaterFields, TrailKept DEF IInv, trail
  <2> QED
    BY <1>0, <1>2, <2>1, LaterStages DEF trail, GatewayTypeOK
<1> QED
  BY <1>1, <1>2 DEF Handle

LEMMA AppendEventStep ==
    ASSUME GatewayTypeOK, IInv, NEW q \in Requests, AppendEvent(q)
    PROVE  GatewayTypeOK' /\ IInv'
<1> DEFINE e0 == [request |-> q, account |-> req[q].account,
                  model |-> req[q].class.model, actor |-> Actor(req[q])]
<1>0. /\ req[q].at = "audit" /\ Go(q, "notify") /\ UNCHANGED <<credentials, notices>>
      /\ events' = events \cup {e0}
  BY DEF AppendEvent
<1>1. e0 \in Event
  BY <1>0, CarriedTyped, ClassTyped DEF Event, Actor, IInv, RequestInv, Arrived
<1>2. e0.request = q /\ e0.account = req[q].account /\ e0.actor = Actor(req[q])
  OBVIOUS
<1> HIDE DEF e0
<1>3. Audited(q)
  BY <1>0 DEF IInv, TrailInv
<1>4. TrailInv'
  <2>1. \A x \in Requests :
          /\ req'[x].at \in {"audit", "notify"} => Audited(x)'
          /\ req'[x].at = "notify" \/ (req'[x].at = "answered" /\ Audited(x)') =>
                \E e \in events' : e.request = x /\ e.account = req'[x].account
    BY <1>0, <1>2, <1>3, LaterFields DEF IInv, TrailInv
  <2>2. \A e \in events' :
          /\ req'[e.request].at \in {"notify", "answered", "failed"}
          /\ Audited(e.request)'
          /\ e.actor = Actor(req'[e.request])
    <3>1. \A e \in events : e.request \in Requests /\ e.request # q
      BY <1>0 DEF IInv, TrailInv, GatewayTypeOK, Event
    <3> QED
      BY <1>0, <1>2, <1>3, <3>1, LaterFields DEF IInv, TrailInv
  <2>3. \A x \in notices' : \E e \in events' : e.request = x
    BY <1>0 DEF IInv, TrailInv
  <2> QED
    BY <2>1, <2>2, <2>3 DEF TrailInv, Actor
<1> QED
  BY <1>0, <1>1, <1>4, LaterStages DEF GatewayTypeOK

\* The trail stays as it is, or gains a notification of an event it has.
LEMMA TrailAdvances ==
    ASSUME GatewayTypeOK, IInv, NEW q \in Requests, NEW stage \in {"answered", "failed"},
           req[q].at \in {"audit", "notify"}, req[q].at = "audit" => stage = "failed",
           Go(q, stage), events' = events,
           notices' = notices \/ (notices' = notices \cup {q} /\ req[q].at = "notify")
    PROVE  TrailInv'
<1>1. \A x \in Requests :
        /\ req'[x].at \in {"audit", "notify"} => Audited(x)'
        /\ req'[x].at = "notify" \/ (req'[x].at = "answered" /\ Audited(x)') =>
              \E e \in events' : e.request = x /\ e.account = req'[x].account
  BY LaterFields DEF IInv, TrailInv
<1>2. \A e \in events' :
        /\ req'[e.request].at \in {"notify", "answered", "failed"}
        /\ Audited(e.request)'
        /\ e.actor = Actor(req'[e.request])
  <2>1. \A e \in events : e.request \in Requests
    BY DEF GatewayTypeOK, Event
  <2> QED
    BY <2>1, LaterFields DEF IInv, TrailInv
<1>3. \A x \in notices' : \E e \in events' : e.request = x
  BY DEF IInv, TrailInv
<1> QED
  BY <1>1, <1>2, <1>3 DEF TrailInv, Actor

LEMMA NotifyStep ==
    ASSUME GatewayTypeOK, IInv, NEW q \in Requests, Notify(q)
    PROVE  GatewayTypeOK' /\ IInv'
<1>0. /\ req[q].at = "notify" /\ Go(q, "answered") /\ UNCHANGED <<credentials, events>>
      /\ notices' = notices \/ notices' = notices \cup {q}
  BY DEF Notify
<1>1. TrailInv'
  BY <1>0, TrailAdvances
<1> QED
  BY <1>0, <1>1, LaterStages DEF GatewayTypeOK

LEMMA InterruptStep ==
    ASSUME GatewayTypeOK, IInv, NEW q \in Requests, Interrupt(q)
    PROVE  GatewayTypeOK' /\ IInv'
<1>0. UNCHANGED <<credentials, trail>>
  BY DEF Interrupt
<1>1. CASE req[q].at \in {"account", "guard", "document", "me", "me_document"} /\ Refuse(q)
  BY <1>0, <1>1, Refused DEF credentials
<1>2. CASE req[q].at \in {"audit", "notify"} /\ Go(q, "failed")
  <2>1. TrailInv'
    BY <1>0, <1>2, TrailAdvances DEF trail
  <2> QED
    BY <1>0, <1>2, <2>1, LaterStages DEF trail, GatewayTypeOK
<1> QED
  BY <1>1, <1>2 DEF Interrupt

-----------------------------------------------------------------------------
(* What changes meanwhile.                                                 *)

\* The same requests, and nothing back that was gone.
LEMMA Quietly ==
    ASSUME GatewayTypeOK, IInv, UNCHANGED <<req, trail>>,
           accounts' \subseteq accounts, keys' \subseteq keys, sessions' \subseteq sessions
    PROVE  IInv'
<1>1. \A x \in Requests : RequestInv(x)'
  BY OthersKeep DEF IInv
<1>2. TrailInv'
  BY DEF IInv, TrailInv, Audited, Actor, trail
<1> QED
  BY <1>1, <1>2 DEF IInv

\* An account is made again: it is no longer gone for anybody.
LEMMA CreateAccountStep ==
    ASSUME GatewayTypeOK, IInv, NEW a \in Accounts, CreateAccount(a)
    PROVE  GatewayTypeOK' /\ IInv'
<1>1. /\ accounts' = accounts \cup {a} /\ UNCHANGED <<keys, sessions, profile, tenant, trail>>
      /\ DOMAIN req' = Requests
      /\ \A x \in Requests :
           req'[x] = IF req[x].account = a THEN [req[x] EXCEPT !.dead = @ \ {"account"}] ELSE req[x]
  BY DEF CreateAccount
<1>2. ASSUME NEW x \in Requests
      PROVE  /\ req'[x] \in RequestState
             /\ req'[x].at = req[x].at /\ req'[x].class = req[x].class
             /\ req'[x].account = req[x].account /\ req'[x].with = req[x].with
             /\ req'[x].by = req[x].by /\ req'[x].seen = req[x].seen
             /\ req'[x].platform = req[x].platform /\ req'[x].user = req[x].user
             /\ req'[x].dead \subseteq req[x].dead
             /\ req[x].account = a => "account" \notin req'[x].dead
  BY <1>1, CarriedTyped DEF RequestState
<1>3. GatewayTypeOK'
  <2>1. req' = [x \in Requests |-> req'[x]]
    BY DEF CreateAccount
  <2> QED
    BY <1>1, <1>2, <2>1 DEF GatewayTypeOK, trail
<1>4. ASSUME NEW x \in Requests PROVE RequestInv(x)'
  <2>1. RequestInv(x)
    BY DEF IInv
  <2>2. Arrived(x)' /\ GoneIsGone(x)'
    BY <1>1, <1>2, <2>1 DEF RequestInv, Arrived, GoneIsGone
  <2>3. AccountWasFound(x)' /\ SessionWasFound(x)' /\ NobodyYet(x)'
    BY <1>2, <2>1 DEF RequestInv, AccountWasFound, SessionWasFound, NobodyYet
  <2>4. WasAdmitted(x)'
    BY <1>2, <2>1 DEF RequestInv, WasAdmitted, Inside
  <2>5. SessionHolds(x)'
    BY <1>2, <2>1 DEF RequestInv, SessionHolds, Inside, Done
  <2> QED
    BY <2>2, <2>3, <2>4, <2>5 DEF RequestInv
<1>5. TrailInv'
  <2>1. \A x \in Requests : (Audited(x)' <=> Audited(x)) /\ Actor(req'[x]) = Actor(req[x])
    BY <1>2 DEF Audited, Actor
  <2>2. \A e \in events : e.request \in Requests
    BY DEF GatewayTypeOK, Event
  <2>3. TrailInv
    BY DEF IInv
  <2>4. events' = events /\ notices' = notices
    BY <1>1 DEF trail
  <2>5. \A e \in events' :
          /\ req'[e.request].at \in {"notify", "answered", "failed"}
          /\ Audited(e.request)'
          /\ e.actor = Actor(req'[e.request])
    BY <1>2, <2>1, <2>2, <2>3, <2>4 DEF TrailInv
  <2>6. \A x \in Requests :
          /\ req'[x].at \in {"audit", "notify"} => Audited(x)'
          /\ req'[x].at = "notify" \/ (req'[x].at = "answered" /\ Audited(x)') =>
                \E e \in events' : e.request = x /\ e.account = req'[x].account
    BY <1>2, <2>1, <2>3, <2>4 DEF TrailInv
  <2> QED
    BY <2>3, <2>4, <2>5, <2>6 DEF TrailInv, Actor
<1> QED
  BY <1>3, <1>4, <1>5 DEF IInv

LEMMA EnvironmentStep ==
    ASSUME GatewayTypeOK, IInv, Environment
    PROVE  GatewayTypeOK' /\ IInv'
<1>1. ASSUME NEW a \in Accounts, DeleteAccount(a) PROVE GatewayTypeOK' /\ IInv'
  BY <1>1, Quietly DEF DeleteAccount, GatewayTypeOK, trail
<1>2. ASSUME NEW k \in Keys, EndKey(k) PROVE GatewayTypeOK' /\ IInv'
  BY <1>2, Quietly DEF EndKey, GatewayTypeOK, trail
<1>3. ASSUME NEW x \in Sessions, EndSession(x) PROVE GatewayTypeOK' /\ IInv'
  BY <1>3, Quietly DEF EndSession, GatewayTypeOK, trail
<1>4. ASSUME NEW u \in PlatformUsers, EditUser(u) PROVE GatewayTypeOK' /\ IInv'
  BY <1>4, Quietly, InputsAreTyped DEF EditUser, GatewayTypeOK, trail
<1>5. ASSUME NEW t \in Tenants, EditTenant(t) PROVE GatewayTypeOK' /\ IInv'
  BY <1>5, Quietly DEF EditTenant, GatewayTypeOK, trail
<1> QED
  BY <1>1, <1>2, <1>3, <1>4, <1>5, CreateAccountStep DEF Environment

-----------------------------------------------------------------------------
(* The theorems.                                                           *)

\* What every stage of a request has established, and what the trail tells.
THEOREM StagesHold == GatewaySpec => [](GatewayTypeOK /\ IInv)
<1>1. GatewayInit => GatewayTypeOK /\ IInv
  <2> SUFFICES ASSUME GatewayInit PROVE GatewayTypeOK /\ IInv
    OBVIOUS
  <2>1. NewRequest \in RequestState
    BY DEF NewRequest, RequestState, Stages, NoProfile
  <2>2. GatewayTypeOK
    BY <2>1, InputsAreTyped DEF GatewayInit, GatewayTypeOK
  <2>3. \A q \in Requests : /\ req[q].at = "new" /\ req[q].by = "nobody"
                            /\ req[q].platform = FALSE /\ req[q].user = FALSE
    BY DEF GatewayInit, NewRequest
  <2>4. \A q \in Requests : RequestInv(q)
    BY <2>3 DEF RequestInv, Arrived, GoneIsGone, AccountWasFound, SessionWasFound, NobodyYet,
                WasAdmitted, SessionHolds, Inside, Done
  <2>5. TrailInv
    BY <2>3 DEF TrailInv, GatewayInit
  <2> QED
    BY <2>2, <2>4, <2>5 DEF IInv
<1>2. GatewayTypeOK /\ IInv /\ [GatewayNext]_gatewayVars => GatewayTypeOK' /\ IInv'
  <2> SUFFICES ASSUME GatewayTypeOK, IInv, [GatewayNext]_gatewayVars PROVE GatewayTypeOK' /\ IInv'
    OBVIOUS
  <2>1. ASSUME NEW q \in Requests, RequestStep(q) PROVE GatewayTypeOK' /\ IInv'
    BY <2>1, ArriveStep, CheckAccountStep, GuardAtOnceStep, GuardKeyStep, GuardSessionStep,
       GuardDocumentStep, MeSessionStep, MeDocumentStep, MeTokenStep, HandleStep,
       AppendEventStep, NotifyStep, InterruptStep DEF RequestStep
  <2>2. CASE UNCHANGED gatewayVars
    BY <2>2, Quietly DEF gatewayVars, GatewayTypeOK, trail
  <2> QED
    BY <2>1, <2>2, EnvironmentStep DEF GatewayNext
<1> QED
  BY <1>1, <1>2, PTL DEF GatewaySpec

(* Whatever is in flight, who opened a route of an account belongs to it.  *)
THEOREM TenantsAreIsolated == GatewaySpec => []TenantIsolation
<1>1. GatewayTypeOK /\ IInv => TenantIsolation
  <2> SUFFICES ASSUME GatewayTypeOK, IInv, NEW q \in Requests
               PROVE  /\ Inside(q) /\ req[q].by = "key" => KeyAccount[req[q].with.key] = req[q].account
                      /\ Inside(q) /\ req[q].by \in {"platform", "member"} /\ req[q].account # Absent =>
                            req[q].seen.role = "admin" \/ req[q].account \in req[q].seen.allowed
                      /\ Done(q) /\ req[q].user /\ ~req[q].platform =>
                            TenantAccount[req[q].with.token] = req[q].account
    BY DEF TenantIsolation
  <2>1. RequestInv(q)
    BY DEF IInv
  <2>2. ASSUME Inside(q), req[q].by = "key" PROVE KeyAccount[req[q].with.key] = req[q].account
    BY <2>1, <2>2 DEF RequestInv, WasAdmitted, Standing, KeyOpens
  <2>3. ASSUME Inside(q), req[q].by \in {"platform", "member"}, req[q].account # Absent
        PROVE  req[q].seen.role = "admin" \/ req[q].account \in req[q].seen.allowed
    <3>1. UserPasses(req[q].class, req[q].seen, req[q].account) /\ req[q].by = Standing(req[q].class)
      BY <2>1, <2>3 DEF RequestInv, WasAdmitted
    <3>2. req[q].class.guard.by # "signed_in"
      BY <2>3, <3>1 DEF Standing
    <3> QED
      BY <2>3, <3>1, <3>2 DEF UserPasses, Can
  <2>4. ASSUME Done(q), req[q].user, ~req[q].platform
        PROVE  TenantAccount[req[q].with.token] = req[q].account
    BY <2>1, <2>4 DEF RequestInv, SessionHolds
  <2> QED
    BY <2>2, <2>3, <2>4
<1> QED
  BY <1>1, StagesHold, PTL

(* A permission that lets a platform user through a route that writes is a *)
(* MANAGE permission, and a guest has none.                                *)
LEMMA WritersManage ==
    ASSUME NEW c \in Classes, NEW b \in Bundles, NEW d \in Profile, NEW a,
           c.writes, Credential(c, b) = "cookie", Standing(c) = "platform", UserPasses(c, d, a)
    PROVE  d.role # "guest" /\ \E p \in Effective(d) : p[2] = "MANAGE"
<1>1. c.guard.by \in {"key", "admin_or_key", "admin_or_platform", "platform"}
  BY CredentialCarried, ClassTyped, WritesManage DEF WritesAskForManage, Standing, Guards
<1>2. PICK p \in Needed(c) : Can(d, p, a)
  BY <1>1 DEF UserPasses
<1>3. p \in Permission /\ p[2] = "MANAGE"
  <2>1. CASE c.guard.by \in {"admin_or_platform", "platform"}
    BY <1>2, <2>1, WritesManage, NamedPermissions DEF WritesAskForManage, Needed
  <2>2. CASE c.guard.by \in {"key", "admin_or_key"}
    <3>1. c.suffix = "MANAGE" /\ Needed(c) = (c.guard.areas \X {c.suffix}) \cap Permission
      BY <2>2, WritesManage DEF WritesAskForManage, Needed
    <3> QED
      BY <1>2, <3>1
  <2> QED
    BY <1>1, <2>1, <2>2
<1>4. d.role \in {"admin", "user", "guest"}
  BY DEF Profile
<1>5. CASE d.role = "admin"
  BY <1>3, <1>5 DEF Effective
<1>6. CASE d.role # "admin"
  <2>1. p \in Effective(d)
    BY <1>2, <1>6 DEF Can
  <2>2. d.role # "guest"
    BY <1>3, <2>1 DEF Effective
  <2> QED
    BY <1>3, <2>1, <2>2
<1> QED
  BY <1>5, <1>6

(* A platform user that may only read writes nothing.                      *)
THEOREM ReadersOnlyRead == GatewaySpec => []ReadersDoNotWrite
<1>1. GatewayTypeOK /\ IInv => ReadersDoNotWrite
  <2> SUFFICES ASSUME GatewayTypeOK, IInv, NEW q \in Requests,
                      Done(q), req[q].by = "platform", req[q].class.writes
               PROVE  /\ req[q].seen.role # "guest"
                      /\ \E p \in Effective(req[q].seen) : p[2] = "MANAGE"
    BY DEF ReadersDoNotWrite
  <2>1. RequestInv(q)
    BY DEF IInv
  <2>2. req[q].class \in Classes /\ req[q].with \in Bundles
    BY <2>1 DEF RequestInv, Arrived, Done
  <2>3. /\ Credential(req[q].class, req[q].with) = "cookie" /\ Standing(req[q].class) = "platform"
        /\ req[q].seen \in Profile
        /\ UserPasses(req[q].class, req[q].seen, req[q].account)
    BY <2>1 DEF RequestInv, WasAdmitted, Inside, Done
  <2> QED
    BY <2>2, <2>3, WritersManage
<1> QED
  BY <1>1, StagesHold, PTL

(* What had ended before a request arrived does not carry it.              *)
THEOREM EndedStaysOut == GatewaySpec => []EndedIsRefused
<1>1. GatewayTypeOK /\ IInv => EndedIsRefused
  <2> SUFFICES ASSUME GatewayTypeOK, IInv, NEW q \in Requests, Done(q)
               PROVE  /\ req[q].by = "key" => "key" \notin req[q].dead
                      /\ req[q].by \in {"platform", "member", "signed_in"} =>
                            "session" \notin req[q].dead
                      /\ req[q].class.account = "existing" => "account" \notin req[q].dead
    BY DEF EndedIsRefused
  <2>1. RequestInv(q)
    BY DEF IInv
  <2> QED
    BY <2>1 DEF RequestInv, AccountWasFound, WasAdmitted, Standing, Inside, Done
<1> QED
  BY <1>1, StagesHold, PTL

(* The trail accounts for every acknowledged change, and names who made it. *)
THEOREM TrailIsKept == GatewaySpec => []AuditTrailHolds
<1>1. GatewayTypeOK /\ IInv => AuditCovers
  BY DEF IInv, TrailInv, AuditCovers, Done
<1>2. GatewayTypeOK /\ IInv => ActorIsKnown
  <2> SUFFICES ASSUME GatewayTypeOK, IInv, NEW e \in events
               PROVE  /\ e.actor # "unknown"
                      /\ req[e.request].by = "platform" => e.actor = "platform"
                      /\ req[e.request].by = "key" => e.actor \in {"service", "tenant"}
    BY DEF ActorIsKnown
  <2> DEFINE q == e.request
  <2>1. q \in Requests /\ req[q].at \in {"notify", "answered", "failed"}
    BY DEF GatewayTypeOK, Event, IInv, TrailInv
  <2>2. Audited(q) /\ e.actor = Actor(req[q])
    BY DEF IInv, TrailInv
  <2> HIDE DEF q
  <2>3. RequestInv(q) /\ Done(q) /\ Inside(q)
    BY <2>1 DEF IInv, Done, Inside
  <2>4. req[q].class \in Classes /\ req[q].with \in Bundles
    BY <2>1, <2>3 DEF RequestInv, Arrived
  <2>5. req[q].platform \in BOOLEAN /\ req[q].user \in BOOLEAN
    BY <2>1, CarriedTyped
  <2>6. /\ req[q].class.guard.by \in {"open", "admin_or_key", "admin_or_platform"} =>
              req[q].class.session = "active"
        /\ req[q].class.guard.by = "service_key" => req[q].class.session = "none"
    BY <2>2, <2>4, ChangesAreSigned DEF Audited, ChangesNameAnActor
  <2>7. CASE req[q].by \in {"open", "admin"} /\ req[q].by = Credential(req[q].class, req[q].with)
    <3>1. req[q].user
      BY <2>3, <2>4, <2>6, <2>7, CredentialCarried DEF RequestInv, SessionHolds
    <3> QED
      BY <2>2, <2>5, <2>7, <3>1 DEF Actor, q
  <2>8. CASE req[q].by = "key" /\ Credential(req[q].class, req[q].with) = "key"
    <3>1. ~req[q].platform
      BY <2>3, <2>4, <2>6, <2>8, CredentialCarried DEF RequestInv, SessionHolds
    <3>2. req[q].with.key # Absent
      BY <2>4, <2>8, CredentialCarried
    <3> QED
      BY <2>2, <2>5, <2>8, <3>1, <3>2 DEF Actor, q
  <2>9. CASE req[q].platform /\ req[q].by = Standing(req[q].class)
    <3>1. req[q].by # "key"
      BY <2>9 DEF Standing
    <3> QED
      BY <2>2, <2>9, <3>1 DEF Actor, q
  <2> QED
    BY <2>3, <2>7, <2>8, <2>9 DEF RequestInv, WasAdmitted
<1> QED
  BY <1>1, <1>2, StagesHold, PTL DEF AuditTrailHolds
=============================================================================
