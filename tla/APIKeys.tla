------------------------------ MODULE APIKeys -------------------------------
(***************************************************************************)
(* The API keys of one account: APIKeyService over the collection of key   *)
(* documents.  A rotation or a revocation reads the document twice, once   *)
(* in the controller to see whose it is and once in the service, and       *)
(* writes the copy back whole with upsert=True.                            *)
(*                                                                         *)
(* A secret stands for the raw key and its hash; it is drawn for one key   *)
(* and never twice.  drawn keeps which, what MongoDB does not.  Ids and    *)
(* Secrets bound how many are drawn.  Scopes, names and the time of the    *)
(* last use, a partial update that never creates a document, are left out. *)
(***************************************************************************)
EXTENDS Naturals

CONSTANTS
    Ids,      \* key_id
    Secrets,
    Workers,  \* requests that can be in flight together
    None

ASSUME NoneIsFresh == None \notin Ids \cup Secrets

VARIABLES
    key,    \* documents by key_id
    due,    \* keys whose expires_at has passed
    drawn,  \* the key each secret was drawn for
    job     \* the request each worker is serving

vars == <<key, due, drawn, job>>

KeyDoc == [secret: Secrets, active: BOOLEAN]
NoKey == [secret |-> None]

Idle == [at |-> "idle", op |-> "none", id |-> None, draft |-> NoKey]
Job == [at: {"idle", "load", "save", "delete"}, op: {"none", "revoke", "rotate", "delete"},
        id: Ids \cup {None}, draft: KeyDoc \cup {NoKey}]

TypeOK ==
    /\ key \in [Ids -> KeyDoc \cup {NoKey}]
    /\ due \subseteq Ids
    /\ drawn \in [Secrets -> Ids \cup {None}]
    /\ job \in [Workers -> Job]

Init ==
    /\ key = [k \in Ids |-> NoKey]
    /\ due = {}
    /\ drawn = [s \in Secrets |-> None]
    /\ job = [w \in Workers |-> Idle]

Stored == {k \in Ids : key[k] # NoKey}
Created == {k \in Ids : \E s \in Secrets : drawn[s] = k}

\* find_by_hash and is_valid, as validate calls them.
Validates(s) == \E k \in Stored : key[k].secret = s /\ key[k].active /\ k \notin due

Issuing(s) ==
    \E w \in Workers : job[w].at = "save" /\ job[w].op = "rotate" /\ job[w].draft.secret = s

\* The life of a secret: not drawn, drawn by a rotation that has yet to be
\* saved, valid, and invalid for good.
Age(s) ==
    CASE drawn[s] = None -> 0
      [] drawn[s] # None /\ ~Validates(s) /\ Issuing(s) -> 1
      [] drawn[s] # None /\ Validates(s) -> 2
      [] drawn[s] # None /\ ~Validates(s) /\ ~Issuing(s) -> 3

-----------------------------------------------------------------------------
At(w, step) == job[w].at = step
Become(w, j) == job' = [job EXCEPT ![w] = j]
Finish(w) == Become(w, Idle)

Create(k, s) ==
    /\ k \notin Created
    /\ drawn[s] = None
    /\ key' = [key EXCEPT ![k] = [secret |-> s, active |-> TRUE]]
    /\ drawn' = [drawn EXCEPT ![s] = k]
    /\ UNCHANGED <<due, job>>

\* The controller finds the key before it calls the service.
Request(w, k, op) ==
    /\ At(w, "idle")
    /\ k \in Stored
    /\ Become(w, [Idle EXCEPT !.at = IF op = "delete" THEN "delete" ELSE "load",
                              !.op = op, !.id = k])
    /\ UNCHANGED <<key, due, drawn>>

\* Mutant: the flag is left as it was.
Revoke_KeepsActive(w) ==
    /\ At(w, "load")
    /\ job[w].op = "revoke"
    /\ IF job[w].id \in Stored
       THEN Become(w, [job[w] EXCEPT !.at = "save", !.draft = key[job[w].id]])
       ELSE Finish(w)
    /\ UNCHANGED <<key, due, drawn>>

Revoke(w) ==
    /\ At(w, "load")
    /\ job[w].op = "revoke"
    /\ IF job[w].id \in Stored
       THEN Become(w, [job[w] EXCEPT !.at = "save",
                                     !.draft = [key[job[w].id] EXCEPT !.active = FALSE]])
       ELSE Finish(w)
    /\ UNCHANGED <<key, due, drawn>>

\* Mutant: a rotated key starts afresh.
Rotate_Reactivates(w, s) ==
    /\ At(w, "load")
    /\ job[w].op = "rotate"
    /\ drawn[s] = None
    /\ IF job[w].id \in Stored
       THEN /\ Become(w, [job[w] EXCEPT !.at = "save",
                                        !.draft = [secret |-> s, active |-> TRUE]])
            /\ drawn' = [drawn EXCEPT ![s] = job[w].id]
       ELSE Finish(w) /\ UNCHANGED drawn
    /\ UNCHANGED <<key, due>>

\* The key stays as active as it was.
Rotate(w, s) ==
    /\ At(w, "load")
    /\ job[w].op = "rotate"
    /\ drawn[s] = None
    /\ IF job[w].id \in Stored
       THEN /\ Become(w, [job[w] EXCEPT !.at = "save",
                                        !.draft = [key[job[w].id] EXCEPT !.secret = s]])
            /\ drawn' = [drawn EXCEPT ![s] = job[w].id]
       ELSE Finish(w) /\ UNCHANGED drawn
    /\ UNCHANGED <<key, due>>

\* replace_one(upsert=True).
Save(w) ==
    /\ At(w, "save")
    /\ key' = [key EXCEPT ![job[w].id] = job[w].draft]
    /\ Finish(w)
    /\ UNCHANGED <<due, drawn>>

Delete(w) ==
    /\ At(w, "delete")
    /\ key' = [key EXCEPT ![job[w].id] = NoKey]
    /\ Finish(w)
    /\ UNCHANGED <<due, drawn>>

Expire(k) ==
    /\ k \in Stored \ due
    /\ due' = due \cup {k}
    /\ UNCHANGED <<key, drawn, job>>

\* An error of MongoDB, returned to the caller, or the crash of the server.
Abort(w) ==
    /\ ~At(w, "idle")
    /\ Finish(w)
    /\ UNCHANGED <<key, due, drawn>>

Next ==
    \/ \E k \in Ids, s \in Secrets : Create(k, s)
    \/ \E k \in Ids : Expire(k)
    \/ \E w \in Workers :
          \/ \E k \in Ids, op \in {"revoke", "rotate", "delete"} : Request(w, k, op)
          \/ Revoke(w) \/ Save(w) \/ Delete(w) \/ Abort(w)
          \/ \E s \in Secrets : Rotate(w, s)

Spec == Init /\ [][Next]_vars

-----------------------------------------------------------------------------
(* "invalidating the old one": a secret that was rotated away, revoked,    *)
(* deleted or has expired never validates again, whichever documents are   *)
(* written back late.                                                      *)
SecretsOnlyAge == [][\A s \in Secrets : Age(s)' >= Age(s)]_vars

Pending(k) == {w \in Workers : At(w, "save") /\ job[w].id = k}

(* "Permanently revokes an API key": once a key is revoked and the         *)
(* rotations that had read it active are done, nothing but its deletion    *)
(* changes that; rotating it does not help.                                *)
Revoked(k) ==
    /\ k \in Created
    /\ k \in Stored => ~key[k].active
    /\ \A w \in Pending(k) : ~job[w].draft.active

RevokedSettles == [][\A k \in Ids : Revoked(k) => Revoked(k)']_vars

(* "permanently removes its record": once a key is deleted and the         *)
(* requests that had read it before are done, it is not stored again, not  *)
(* even by a request whose controller had found it.                        *)
Deleted(k) == k \in Created \ Stored /\ Pending(k) = {}

DeletedSettles == [][\A k \in Ids : Deleted(k) => Deleted(k)']_vars

(* Both ends of a key are final, once nobody has an older copy of it.      *)
EndedKeysSettle == RevokedSettles /\ DeletedSettles

-----------------------------------------------------------------------------
(* Why a stale write never revalidates a secret: a document carries a      *)
(* secret of its own key; only a rotation writes an active document; and   *)
(* its secret is known to no one else until it is saved.                   *)
SecretInv ==
    /\ \A k \in Stored : drawn[key[k].secret] = k
    /\ \A w \in Workers : At(w, "save") =>
          /\ drawn[job[w].draft.secret] = job[w].id
          /\ job[w].op # "rotate" => ~job[w].draft.active
          /\ job[w].op = "rotate" =>
                /\ key[job[w].id].secret # job[w].draft.secret
                /\ \A v \in Workers \ {w} :
                      At(v, "save") => job[v].draft.secret # job[w].draft.secret
=============================================================================
